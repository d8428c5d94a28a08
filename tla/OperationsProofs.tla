------------------------- MODULE OperationsProofs -------------------------
(***************************************************************************)
(* DataMigration for any number of migrations, faults, touches and         *)
(* crashes: the target's active resource is never lost, and the binding    *)
(* switches only from what its handler had read.                           *)
(***************************************************************************)
EXTENDS MCOperations, WellFoundedInduction, TLAPS

Copying == {"clean", "create", "record", "copy", "switch", "discard"}
HasCandidate == {"record", "copy", "switch", "discard"}
Destroying == {"destroy", "drop"}

(* A migration id is wanted once, and markers are of ids once wanted.      *)
IdsOnce ==
  /\ want \notin wanted
  /\ active.marker \in {NoMigration, want} \cup wanted
  /\ at \in Copying \cup {"forget", "topology"} => m \in wanted \cup {want}

(* Candidates and bucket names of different migrations differ.             *)
Apart ==
  \A x, y \in Migration : x # y =>
    /\ candidates[x] # 0 => candidates[x] # candidates[y] /\ candidates[x] # named[y]
    /\ named[x] # 0 => named[x] # named[y]

(* What is active was at most the candidate of a migration that is over.   *)
ActiveIsOver ==
  active.id # 0 => \A x \in Migration :
    active.id \in {candidates[x], named[x]} => x = active.marker \/ x \in wanted

(* What a handler has read is the binding but for its version, which       *)
(* counts the changes since it was read or written back.                   *)
ReadOnce ==
  /\ at \in Copying \cup Destroying =>
       /\ base.active.version <= active.version
       /\ active = [base.active EXCEPT !.version = active.version]
  /\ at \in Copying \ {"discard"} /\ touched => base.active.version < active.version

(* The candidate a handler works on is nobody else's, and not active.      *)
CandidateIsOwn ==
  /\ at \in {"clean", "create"} => active.id = 0 \/ active.id \notin {candidates[m], named[m]}
  /\ at = "clean" => cand = candidates[m]
  /\ at \in HasCandidate =>
       /\ cand # 0 /\ cand # active.id
       /\ \A x \in Migration \ {m} : cand \notin {candidates[x], named[x]}
  /\ at \in {"record", "copy", "switch"} => cand \in live
  /\ at = "switch" => cand \in usable
  /\ at = "destroy" => cand # active.id

(* What the binding names was made.                                        *)
InRange == {active.id, active.previous} \cup active.nested \subseteq 0..ids

IInv ==
  /\ TypeOK /\ InRange /\ 0 \notin live
  /\ at \in Copying \cup {"forget", "topology"} => m \in Migration
  /\ IdsOnce /\ Apart /\ ActiveIsOver /\ ReadOnce /\ CandidateIsOwn
  /\ active.previous # 0 => active.previous # active.id
  /\ ActiveIsUsable

-----------------------------------------------------------------------------
LEMMA InitIInv == Init => IInv
<1> SUFFICES ASSUME Init PROVE IInv
  OBVIOUS
<1>1. PICK i \in {0, 1} :
        /\ live = {i} \ {0} /\ usable = {i} \ {0} /\ topology = i
        /\ active = [id |-> i, version |-> 0, marker |-> NoMigration, previous |-> 0, nested |-> {}]
  BY DEF Init
<1>2. active \in Binding /\ active.previous = 0 /\ active.id = i
      /\ active.marker = NoMigration /\ active.nested = {}
  BY <1>1 DEF Binding
<1>3. TypeOK
  <2>1. {0, 1, i} \subseteq 0..1 /\ 0 \in 0..MaxFaults /\ 0 \in 0..MaxTouches /\ 0 \in 0..MaxCrashes
    BY BoundAssumption
  <2>2. ids = 1 /\ live \cup usable \subseteq 0..ids /\ topology \in 0..ids
    BY <1>1, <2>1 DEF Init
  <2>3. named \in [Migration -> 0..ids] /\ candidates \in [Migration -> 0..ids]
    BY <2>1, <2>2 DEF Init
  <2>4. source \in Nat /\ base \in [active : Binding, source : Nat]
    BY <1>2 DEF Init
  <2>5. /\ kind \in {"database", "bucket"} /\ want \in Migration /\ wanted \subseteq Migration
        /\ at = "idle" /\ m = NoMigration /\ cand \in 0..ids /\ partial = FALSE
        /\ orphans \subseteq 0..ids /\ faults = 0 /\ touches = 0 /\ crashes = 0
        /\ refuses \in BOOLEAN /\ touched \in BOOLEAN
    BY <2>1, <2>2 DEF Init
  <2> QED BY <1>2, <2>1, <2>2, <2>3, <2>4, <2>5 DEF TypeOK
<1>4. InRange /\ 0 \notin live /\ ActiveIsUsable
  BY <1>1, <1>2 DEF Init, InRange, ActiveIsUsable
<1>5. IdsOnce /\ Apart /\ ActiveIsOver /\ ReadOnce /\ CandidateIsOwn
  BY <1>2 DEF Init, IdsOnce, Apart, ActiveIsOver, ReadOnce, CandidateIsOwn, Copying, Destroying,
     HasCandidate
<1> QED BY <1>2, <1>3, <1>4, <1>5 DEF Init, IInv, Copying

(* A step of the handler that leaves bindings and provider alone, or only  *)
(* counts: it keeps what is said of them.                                  *)
(* A handler that writes its bindings back changes only the version, to    *)
(* the one it had read.                                                    *)
LEMMA WritesBack ==
  ASSUME IInv, at \in Copying, active' = active \/ active' = base.active
  PROVE  /\ active' \in Binding /\ active'.id = active.id /\ active'.marker = active.marker
         /\ active'.previous = active.previous /\ active'.nested = active.nested
         /\ base.active.version <= active'.version
         /\ active' = [base.active EXCEPT !.version = active'.version]
<1>1. /\ active \in Binding /\ base.active \in Binding /\ base.active.version <= active.version
      /\ active = [base.active EXCEPT !.version = active.version]
  BY DEF IInv, TypeOK, ReadOnce
<1>2. base.active.version \in Nat /\ base.active = [base.active EXCEPT !.version = base.active.version]
  BY <1>1 DEF Binding
<1>3. /\ base.active.id = active.id /\ base.active.marker = active.marker
      /\ base.active.previous = active.previous /\ base.active.nested = active.nested
  BY <1>1 DEF Binding
<1>4. CASE active' = active
  BY <1>1, <1>4
<1>5. CASE active' = base.active
  BY <1>1, <1>2, <1>3, <1>5
<1> QED BY <1>4, <1>5

LEMMA StartCopyStep == ASSUME IInv, StartCopy PROVE IInv'
<1>1. /\ at' \in {"clean", "create"} /\ m' = want /\ cand' = candidates[want] /\ partial' = FALSE
      /\ at' = "clean" \/ at' = "create"
      /\ base' = [active |-> active, source |-> source] /\ active.marker # want
      /\ touched' = FALSE
      /\ UNCHANGED <<kind, refuses, want, wanted, live, usable, named, source, active, topology, candidates,
                     orphans, ids, faults, touches, crashes>>
  BY DEF StartCopy, Complete, spec, provider, bindings, counters
<1>2. want \in Migration /\ want \notin wanted /\ active \in Binding /\ source \in Nat
  BY DEF IInv, TypeOK, IdsOnce
<1>3. TypeOK'
  BY <1>1, <1>2 DEF IInv, TypeOK
<1>4. ReadOnce'
  <2>1. base'.active = active /\ active' = active /\ active.version \in Nat
    BY <1>1, <1>2 DEF Binding
  <2>2. active = [active EXCEPT !.version = active.version]
    BY <1>2 DEF Binding
  <2> QED BY <1>1, <2>1, <2>2 DEF ReadOnce
<1>5. CandidateIsOwn'
  <2>1. active.id # 0 => active.id \notin {candidates[want], named[want]}
    BY <1>1, <1>2 DEF IInv, ActiveIsOver
  <2> QED BY <1>1, <2>1 DEF CandidateIsOwn, HasCandidate
<1>6. IdsOnce' /\ Apart' /\ ActiveIsOver' /\ InRange' /\ ActiveIsUsable'
  BY <1>1 DEF IInv, IdsOnce, Apart, ActiveIsOver, InRange, ActiveIsUsable
<1> QED BY <1>1, <1>2, <1>3, <1>4, <1>5, <1>6 DEF IInv

(* Removing a candidate that is not the active resource.                   *)
LEMMA RemovalStep ==
  ASSUME IInv, CleanUp \/ Discard
  PROVE  IInv'
<1> DEFINE next == IF at = "clean" THEN "create" ELSE "idle"
<1>1. /\ at \in {"clean", "discard"} /\ at \in Copying /\ m \in Migration
      /\ active.id # 0 => active.id \notin {0, cand}
  BY DEF CleanUp, Discard, IInv, CandidateIsOwn, HasCandidate, Copying
<1>2. /\ UNCHANGED <<kind, refuses, want, wanted, usable, named, source, topology, base,
                     orphans, ids, touches, crashes>>
      /\ \/ /\ live' = live \ {cand} /\ candidates' = [candidates EXCEPT ![m] = 0]
            /\ at' = next /\ UNCHANGED <<m, cand, partial, faults>>
         \/ /\ faults < MaxFaults /\ faults' = faults + 1
            /\ at' = "idle" /\ m' = NoMigration /\ cand' = 0 /\ partial' = FALSE
            /\ UNCHANGED <<live, candidates>>
  BY DEF CleanUp, Discard, DestroyCandidate, Goto, Done, Fault, spec
<1>3. /\ active' = active \/ active' = base.active
      /\ touched' \in BOOLEAN
      /\ touched' => touched /\ active' = active
  <2>1. WriteBack \/ UNCHANGED <<active, touched>>
    BY DEF CleanUp, Discard
  <2>2. touched \in BOOLEAN
    BY DEF IInv, TypeOK
  <2>3. CASE WriteBack /\ kind = "bucket"
    <3>1. active' = base.active /\ touched' = FALSE
      BY <2>3 DEF WriteBack
    <3> QED BY <3>1
  <2>4. CASE WriteBack /\ kind # "bucket"
    <3>1. active' = active /\ touched' = touched
      BY <2>2, <2>4 DEF WriteBack
    <3> QED BY <2>2, <3>1
  <2>5. CASE UNCHANGED <<active, touched>>
    BY <2>2, <2>5
  <2> QED BY <2>1, <2>3, <2>4, <2>5
<1>4. /\ active' \in Binding /\ active'.id = active.id /\ active'.marker = active.marker
      /\ active'.previous = active.previous /\ active'.nested = active.nested
      /\ base.active.version <= active'.version
      /\ active' = [base.active EXCEPT !.version = active'.version]
  BY <1>1, <1>3, WritesBack
<1> HIDE DEF next
<1>5. CASE /\ faults < MaxFaults /\ faults' = faults + 1
           /\ at' = "idle" /\ m' = NoMigration /\ cand' = 0 /\ partial' = FALSE
           /\ UNCHANGED <<live, candidates>>
  <2>0. faults' \in 0..MaxFaults /\ 0 \in 0..ids
    BY <1>5, BoundAssumption DEF IInv, TypeOK
  <2>1. TypeOK'
    BY <1>2, <1>3, <1>4, <1>5, <2>0 DEF IInv, TypeOK
  <2>2. IdsOnce' /\ ReadOnce' /\ CandidateIsOwn'
    BY <1>2, <1>4, <1>5 DEF IInv, IdsOnce, ReadOnce, CandidateIsOwn, Copying, Destroying, HasCandidate
  <2>3. Apart' /\ ActiveIsOver' /\ InRange' /\ ActiveIsUsable'
    BY <1>2, <1>4, <1>5 DEF IInv, Apart, ActiveIsOver, InRange, ActiveIsUsable
  <2> QED BY <1>2, <1>4, <1>5, <2>1, <2>2, <2>3 DEF IInv, Copying
<1>6. CASE /\ live' = live \ {cand} /\ candidates' = [candidates EXCEPT ![m] = 0]
           /\ at' = next /\ UNCHANGED <<m, cand, partial, faults>>
  <2>1. next \in {"create", "idle"} /\ (next = "create" => at = "clean")
    BY <1>1 DEF next
  <2>2. candidates \in [Migration -> 0..ids] /\ ids \in Nat
    BY DEF IInv, TypeOK
  <2>3. /\ candidates' \in [Migration -> 0..ids] /\ candidates'[m] = 0
        /\ \A x \in Migration : candidates'[x] \in {0, candidates[x]}
    BY <1>1, <1>6, <2>2
  <2>4. TypeOK'
    BY <1>2, <1>3, <1>4, <1>6, <2>1, <2>3 DEF IInv, TypeOK
  <2>5. Apart' /\ ActiveIsOver'
    BY <1>2, <1>4, <2>3 DEF IInv, Apart, ActiveIsOver
  <2>6. InRange' /\ IdsOnce'
    BY <1>2, <1>4, <1>6, <2>1 DEF IInv, InRange, IdsOnce, Copying
  <2>7. ReadOnce'
    BY <1>2, <1>3, <1>4, <1>6, <2>1 DEF IInv, ReadOnce, Copying, Destroying
  <2>8. CandidateIsOwn'
    BY <1>2, <1>4, <1>6, <2>1, <2>3 DEF IInv, CandidateIsOwn, HasCandidate
  <2>9. ActiveIsUsable'
    BY <1>1, <1>2, <1>4, <1>6 DEF IInv, ActiveIsUsable
  <2> QED BY <1>1, <1>2, <1>4, <1>6, <2>4, <2>5, <2>6, <2>7, <2>8, <2>9 DEF IInv
<1> QED BY <1>2, <1>5, <1>6

(* A handler that is done, or died, leaves the bindings as they are.       *)
LEMMA StopStep ==
  ASSUME IInv, at' = "idle", m' = NoMigration, cand' = 0, partial' = FALSE, base' = base,
         UNCHANGED <<kind, refuses, want, wanted, live, usable, named, source, active, topology,
                     candidates, touched, ids, touches>>,
         orphans' \subseteq 0..ids, faults' \in 0..MaxFaults, crashes' \in 0..MaxCrashes
  PROVE  IInv'
<1>1. 0 \in 0..ids
  BY DEF IInv, TypeOK
<1>2. TypeOK'
  BY <1>1 DEF IInv, TypeOK
<1>3. IdsOnce' /\ ReadOnce' /\ CandidateIsOwn'
  BY DEF IInv, IdsOnce, ReadOnce, CandidateIsOwn, Copying, Destroying, HasCandidate
<1>4. Apart' /\ ActiveIsOver' /\ InRange' /\ ActiveIsUsable'
  BY DEF IInv, Apart, ActiveIsOver, InRange, ActiveIsUsable
<1> QED BY <1>2, <1>3, <1>4 DEF IInv, Copying

LEMMA FaultStep ==
  ASSUME IInv, Fault
  PROVE  faults' \in 0..MaxFaults
  BY BoundAssumption DEF Fault, IInv, TypeOK

LEMMA CrashStep == ASSUME IInv, Crash PROVE IInv'
<1>1. crashes' \in 0..MaxCrashes
  BY BoundAssumption DEF Crash, IInv, TypeOK
<1>2. orphans' \subseteq 0..ids /\ faults' \in 0..MaxFaults
  BY DEF Crash, IInv, TypeOK
<1> QED BY <1>1, <1>2, StopStep DEF Crash, Done, spec, provider, bindings

(* A new resource is nobody's; a bucket found by its name is m's alone.    *)
LEMMA CreateStep == ASSUME IInv, Create PROVE IInv'
<1>1. /\ at = "create" /\ m \in Migration /\ ids \in Nat
      /\ named \in [Migration -> 0..ids] /\ candidates \in [Migration -> 0..ids]
      /\ live \cup usable \subseteq 0..ids /\ 0 \notin live
      /\ active.id = 0 \/ active.id \notin {candidates[m], named[m]}
      /\ active.id \in 0..ids /\ orphans \subseteq 0..ids
  BY DEF Create, IInv, Copying, TypeOK, CandidateIsOwn, InRange
<1>2. UNCHANGED <<kind, refuses, want, wanted, source, active, topology, candidates, touched, touches, crashes, base>>
  BY DEF Create, Done, spec, bindings
<1>3. CASE Done /\ (Fault \/ UNCHANGED faults) /\ UNCHANGED <<provider, orphans, ids>>
  <2>1. faults' \in 0..MaxFaults /\ crashes' \in 0..MaxCrashes
    BY <1>2, <1>3, FaultStep DEF IInv, TypeOK
  <2> QED BY <1>1, <1>2, <1>3, <2>1, StopStep DEF Done, provider
<1>4. CASE /\ named[m] \in live /\ at' = "record" /\ cand' = named[m]
           /\ UNCHANGED <<provider, orphans, ids, m, base, partial, faults>>
  <2>1. cand' # 0 /\ cand' # active.id /\ cand' \in live /\ cand' \in 0..ids
    BY <1>1, <1>4
  <2>2. \A x \in Migration \ {m} : cand' \notin {candidates[x], named[x]}
    BY <1>1, <1>4, <2>1 DEF IInv, Apart
  <2>3. TypeOK'
    BY <1>2, <1>4, <2>1 DEF IInv, TypeOK, provider
  <2>4. CandidateIsOwn'
    BY <1>2, <1>4, <2>1, <2>2 DEF CandidateIsOwn, provider
  <2>5. IdsOnce' /\ ReadOnce'
    BY <1>1, <1>2, <1>4 DEF IInv, IdsOnce, ReadOnce, Copying, Destroying
  <2>6. Apart' /\ ActiveIsOver' /\ InRange' /\ ActiveIsUsable'
    BY <1>2, <1>4 DEF IInv, Apart, ActiveIsOver, InRange, ActiveIsUsable, provider
  <2> QED BY <1>1, <1>2, <1>4, <2>3, <2>4, <2>5, <2>6 DEF IInv, provider
<1>5. CASE /\ ids' = ids + 1 /\ live' = live \cup {ids'} /\ UNCHANGED usable
           /\ named' = IF kind = "bucket" THEN [named EXCEPT ![m] = ids'] ELSE named
           /\ \/ /\ at' = "record" /\ cand' = ids' /\ UNCHANGED <<m, base, orphans>>
                 /\ \/ partial' = FALSE /\ UNCHANGED faults
                    \/ kind = "database" /\ partial' = TRUE /\ Fault
              \/ kind = "bucket" /\ Fault /\ Done /\ orphans' = orphans \cup {ids'}
  <2>1. /\ ids' \in Nat /\ 0..ids \subseteq 0..ids' /\ ids' \in 0..ids' /\ ids' \notin 0..ids /\ ids' # 0
        /\ 0 \in 0..ids'
        /\ \A k \in 0..ids : k # ids'
    BY <1>1, <1>5
  <2>2. /\ named' \in [Migration -> 0..ids'] /\ candidates \in [Migration -> 0..ids']
        /\ \A x \in Migration \ {m} : named'[x] = named[x]
        /\ named'[m] \in {named[m], ids'}
    BY <1>1, <1>5, <2>1
  <2>3. \A x \in Migration : named[x] # ids' /\ candidates[x] # ids'
    BY <1>1, <2>1
  <2>4. faults' \in 0..MaxFaults
    BY <1>5, FaultStep DEF IInv, TypeOK
  <2>5. /\ \/ at' = "record" /\ cand' = ids' /\ m' = m
           \/ at' = "idle" /\ cand' = 0 /\ m' = NoMigration
        /\ orphans' \subseteq 0..ids' /\ partial' \in BOOLEAN
    BY <1>1, <1>5, <2>1 DEF Done
  <2>6. TypeOK'
    <3>1. live' \cup usable' \subseteq 0..ids' /\ topology' \in 0..ids'
      BY <1>1, <1>2, <1>5, <2>1 DEF IInv, TypeOK
    <3> QED BY <1>1, <1>2, <1>5, <2>1, <2>2, <2>4, <2>5, <3>1 DEF IInv, TypeOK
  <2>7. active.id # ids'
    BY <1>1, <2>1
  <2>8. CandidateIsOwn'
    BY <1>2, <1>5, <2>1, <2>2, <2>3, <2>5, <2>7 DEF CandidateIsOwn, HasCandidate
  <2>9. Apart'
    <3> SUFFICES ASSUME NEW x \in Migration, NEW y \in Migration, x # y
                 PROVE  /\ candidates'[x] # 0 => candidates'[x] # candidates'[y] /\ candidates'[x] # named'[y]
                        /\ named'[x] # 0 => named'[x] # named'[y]
      BY DEF Apart
    <3>1. /\ candidates[x] # 0 => candidates[x] # candidates[y] /\ candidates[x] # named[y]
          /\ named[x] # 0 => named[x] # named[y]
      BY DEF IInv, Apart
    <3> QED BY <1>2, <2>2, <2>3, <3>1
  <2>10. ActiveIsOver'
    BY <1>2, <2>2, <2>7 DEF IInv, ActiveIsOver
  <2>11. IdsOnce' /\ ReadOnce'
    BY <1>1, <1>2, <2>5 DEF IInv, IdsOnce, ReadOnce, Copying, Destroying
  <2>12. InRange' /\ ActiveIsUsable'
    BY <1>1, <1>2, <1>5, <2>1 DEF IInv, InRange, ActiveIsUsable
  <2> QED BY <1>1, <1>2, <1>5, <2>1, <2>5, <2>6, <2>8, <2>9, <2>10, <2>11, <2>12 DEF IInv, Copying
<1> QED BY <1>3, <1>4, <1>5 DEF Create

LEMMA RecordStep == ASSUME IInv, RecordCandidate PROVE IInv'
<1>1. /\ at = "record" /\ m \in Migration /\ cand \in 0..ids /\ cand # active.id
      /\ candidates \in [Migration -> 0..ids] /\ candidates' = [candidates EXCEPT ![m] = cand]
      /\ at' \in {"discard", "copy"}
      /\ UNCHANGED <<kind, refuses, want, wanted, live, usable, named, source, topology, ids,
                     faults, touches, crashes, m, cand, base, partial>>
      /\ orphans' \subseteq 0..ids /\ WriteBack
      /\ \A x \in Migration \ {m} : cand \notin {candidates[x], named[x]}
  BY DEF RecordCandidate, Goto, spec, provider, counters, IInv, TypeOK, Copying, CandidateIsOwn, HasCandidate
<1>2. /\ candidates' \in [Migration -> 0..ids] /\ candidates'[m] = cand
      /\ \A x \in Migration \ {m} : candidates'[x] = candidates[x]
  BY <1>1
<1>3. /\ active' \in Binding /\ active'.id = active.id /\ active'.marker = active.marker
      /\ active'.previous = active.previous /\ active'.nested = active.nested
      /\ base.active.version <= active'.version
      /\ active' = [base.active EXCEPT !.version = active'.version]
  BY <1>1, WritesBack DEF WriteBack, Copying
<1>4. touched' \in BOOLEAN /\ (touched' => touched /\ active' = active)
  BY <1>1 DEF WriteBack, IInv, TypeOK
<1>5. TypeOK'
  BY <1>1, <1>2, <1>3, <1>4 DEF IInv, TypeOK
<1>6. Apart'
  <2> SUFFICES ASSUME NEW x \in Migration, NEW y \in Migration, x # y
               PROVE  /\ candidates'[x] # 0 => candidates'[x] # candidates'[y] /\ candidates'[x] # named'[y]
                      /\ named'[x] # 0 => named'[x] # named'[y]
    BY DEF Apart
  <2>1. /\ candidates[x] # 0 => candidates[x] # candidates[y] /\ candidates[x] # named[y]
        /\ named[x] # 0 => named[x] # named[y]
    BY DEF IInv, Apart
  <2> QED BY <1>1, <1>2, <2>1
<1>7. ActiveIsOver'
  BY <1>1, <1>2, <1>3 DEF IInv, ActiveIsOver
<1>8. CandidateIsOwn'
  BY <1>1, <1>2, <1>3 DEF IInv, CandidateIsOwn, HasCandidate
<1>9. IdsOnce' /\ InRange' /\ ActiveIsUsable'
  BY <1>1, <1>3 DEF IInv, IdsOnce, InRange, ActiveIsUsable, Copying
<1>10. ReadOnce'
  BY <1>1, <1>3, <1>4 DEF IInv, ReadOnce, Copying, Destroying
<1> QED BY <1>1, <1>3, <1>5, <1>6, <1>7, <1>8, <1>9, <1>10 DEF IInv

LEMMA CopyStep == ASSUME IInv, Copy PROVE IInv'
<1>1. /\ at = "copy" /\ at' \in {"switch", "discard"}
      /\ UNCHANGED <<kind, refuses, want, wanted, live, named, source, active, topology, candidates, orphans, touched, ids,
                     touches, crashes, m, cand, base, partial>>
      /\ usable' = usable \cup {cand} \/ usable' = usable
      /\ at' = "switch" => usable' = usable \cup {cand}
      /\ faults' = faults \/ Fault
  BY DEF Copy, Goto, spec, bindings
<1>2. cand \in 0..ids /\ faults' \in 0..MaxFaults
  BY <1>1, FaultStep DEF IInv, TypeOK
<1>3. TypeOK'
  BY <1>1, <1>2 DEF IInv, TypeOK
<1>4. CandidateIsOwn'
  BY <1>1 DEF IInv, CandidateIsOwn, HasCandidate
<1>5. IdsOnce' /\ ReadOnce' /\ Apart' /\ ActiveIsOver' /\ InRange' /\ ActiveIsUsable'
  BY <1>1 DEF IInv, IdsOnce, ReadOnce, Apart, ActiveIsOver, InRange, ActiveIsUsable, Copying, Destroying
<1> QED BY <1>1, <1>3, <1>4, <1>5 DEF IInv, Copying

(* The handler switches to its own verified candidate, or turns back.      *)
LEMMA SwitchStep == ASSUME IInv, Switch PROVE IInv'
<1>1. /\ at = "switch" /\ m \in Migration /\ m \in wanted \cup {want}
      /\ cand \in 0..ids /\ cand # 0 /\ cand # active.id /\ cand \in live \cap usable
      /\ \A x \in Migration \ {m} : cand \notin {candidates[x], named[x]}
      /\ active \in Binding /\ active.id \in 0..ids /\ active.previous \in 0..ids /\ active.nested \subseteq 0..ids
      /\ candidates \in [Migration -> 0..ids] /\ ids \in Nat /\ orphans \subseteq 0..ids
      /\ kind \in {"database", "bucket"}
  BY DEF Switch, IInv, TypeOK, IdsOnce, CandidateIsOwn, HasCandidate, Copying, InRange
<1>2. UNCHANGED <<kind, refuses, want, wanted, live, usable, named, source, topology, touched, ids, faults,
                  touches, crashes>>
  BY DEF Switch, Goto, Done, spec, provider, counters
<1>3. CASE Unchanged
  <2> DEFINE next == [id |-> cand, version |-> active.version + 1, marker |-> m, previous |-> active.id,
                      nested |-> IF kind = "database" THEN (active.nested \cup {active.previous}) \ {0} ELSE {}]
  <2>1. active' = next
    BY <1>3 DEF Switch
  <2>2. next \in Binding /\ next.id = cand /\ next.marker = m /\ next.previous = active.id
        /\ next.nested \subseteq 0..ids
    BY <1>1 DEF Binding
  <2> HIDE DEF next
  <2>3. /\ at' \in {"forget", "idle"}
        /\ base' = base
        /\ at' = "forget" => m' = m
        /\ m' \in Migration \cup {NoMigration} /\ cand' \in 0..ids /\ partial' \in BOOLEAN
        /\ candidates' \in [Migration -> 0..ids]
        /\ \A x \in Migration : candidates'[x] \in {0, candidates[x]}
    <3>1. CASE kind = "bucket"
      <4>1. /\ at' = "idle" /\ m' = NoMigration /\ cand' = 0 /\ partial' = FALSE
            /\ candidates' = [candidates EXCEPT ![m] = 0] /\ base' = base
        BY <1>3, <3>1 DEF Switch, Done
      <4>2. 0 \in 0..ids
        BY <1>1
      <4> QED BY <1>1, <4>1, <4>2
    <3>2. CASE kind # "bucket"
      <4>1. at' = "forget" /\ UNCHANGED <<m, cand, partial, candidates, base>>
        BY <1>3, <3>2 DEF Switch, Goto
      <4>2. partial \in BOOLEAN
        BY DEF IInv, TypeOK
      <4> QED BY <1>1, <4>1, <4>2
    <3> QED BY <3>1, <3>2
  <2>4. orphans' \subseteq 0..ids
    BY <1>1, <1>3 DEF Switch
  <2>5. TypeOK'
    BY <1>1, <1>2, <2>1, <2>2, <2>3, <2>4 DEF IInv, TypeOK
  <2>6. IdsOnce' /\ ReadOnce' /\ CandidateIsOwn'
    BY <1>1, <1>2, <2>1, <2>2, <2>3 DEF IInv, IdsOnce, ReadOnce, CandidateIsOwn, Copying, Destroying, HasCandidate
  <2>7. Apart'
    BY <1>2, <2>3 DEF IInv, Apart
  <2>8. ActiveIsOver'
    BY <1>1, <1>2, <2>1, <2>2, <2>3 DEF ActiveIsOver
  <2>9. InRange' /\ ActiveIsUsable' /\ active'.previous # active'.id
    BY <1>1, <1>2, <2>1, <2>2 DEF InRange, ActiveIsUsable
  <2> QED BY <1>1, <1>2, <2>3, <2>5, <2>6, <2>7, <2>8, <2>9 DEF IInv, Copying
<1>4. CASE ~Unchanged
  <2>1. at' = "discard" /\ UNCHANGED <<m, cand, partial, active, candidates, orphans>>
    BY <1>4 DEF Switch
  <2>2. base' \in [active : Binding, source : Nat] /\ base'.active \in {base.active, active}
    BY <1>1, <1>4 DEF Switch, IInv, TypeOK
  <2>3. TypeOK'
    BY <1>2, <2>1, <2>2 DEF IInv, TypeOK
  <2>4. ReadOnce'
    <3>1. active = [active EXCEPT !.version = active.version] /\ active.version <= active.version
      BY <1>1 DEF Binding
    <3>2. base.active.version <= active.version /\ active = [base.active EXCEPT !.version = active.version]
      BY <1>1 DEF IInv, ReadOnce, Copying
    <3> QED BY <2>1, <2>2, <3>1, <3>2 DEF ReadOnce
  <2>5. IdsOnce' /\ CandidateIsOwn'
    BY <1>1, <1>2, <2>1 DEF IInv, IdsOnce, CandidateIsOwn, Copying, HasCandidate
  <2>6. Apart' /\ ActiveIsOver' /\ InRange' /\ ActiveIsUsable'
    BY <1>2, <2>1 DEF IInv, Apart, ActiveIsOver, InRange, ActiveIsUsable
  <2> QED BY <1>1, <1>2, <2>1, <2>3, <2>4, <2>5, <2>6 DEF IInv
<1> QED BY <1>3, <1>4

LEMMA ForgetStep == ASSUME IInv, Forget PROVE IInv'
<1>1. /\ at = "forget" /\ m \in Migration /\ at' = "topology"
      /\ candidates \in [Migration -> 0..ids] /\ candidates' = [candidates EXCEPT ![m] = 0]
      /\ UNCHANGED <<kind, refuses, want, wanted, live, usable, named, source, active, topology, orphans, touched, ids,
                     faults, touches, crashes, m, cand, base, partial>>
  BY DEF Forget, Goto, spec, provider, counters, IInv, TypeOK
<1>2. candidates' \in [Migration -> 0..ids] /\ \A x \in Migration : candidates'[x] \in {0, candidates[x]}
  BY <1>1 DEF IInv, TypeOK
<1>3. TypeOK'
  BY <1>1, <1>2 DEF IInv, TypeOK
<1>4. Apart' /\ ActiveIsOver'
  BY <1>1, <1>2 DEF IInv, Apart, ActiveIsOver
<1>5. IdsOnce' /\ ReadOnce' /\ CandidateIsOwn' /\ InRange' /\ ActiveIsUsable'
  BY <1>1 DEF IInv, IdsOnce, ReadOnce, CandidateIsOwn, InRange, ActiveIsUsable, Copying, Destroying, HasCandidate
<1> QED BY <1>1, <1>3, <1>4, <1>5 DEF IInv

LEMMA SetTopologyStep == ASSUME IInv, SetTopology PROVE IInv'
<1>1. /\ at' = "idle" /\ m' = NoMigration /\ cand' = 0 /\ partial' = FALSE /\ topology' = cand
      /\ UNCHANGED <<kind, refuses, want, wanted, live, usable, named, source, active, candidates, orphans, touched, ids,
                     faults, touches, crashes, base>>
  BY DEF SetTopology, Done, spec, provider, counters
<1>2. TypeOK'
  <2>1. 0 \in 0..ids /\ cand \in 0..ids
    BY DEF IInv, TypeOK
  <2> QED BY <1>1, <2>1 DEF IInv, TypeOK
<1>3. IdsOnce' /\ ReadOnce' /\ CandidateIsOwn'
  BY <1>1 DEF IInv, IdsOnce, ReadOnce, CandidateIsOwn, Copying, Destroying, HasCandidate
<1>4. Apart' /\ ActiveIsOver' /\ InRange' /\ ActiveIsUsable'
  BY <1>1 DEF IInv, Apart, ActiveIsOver, InRange, ActiveIsUsable
<1> QED BY <1>1, <1>2, <1>3, <1>4 DEF IInv, Copying

LEMMA StartDestroyStep == ASSUME IInv, StartDestroy PROVE IInv'
<1>1. /\ at' = "destroy" /\ cand' = active.previous /\ active.previous # 0
      /\ base' = [active |-> active, source |-> source]
      /\ UNCHANGED <<kind, refuses, want, wanted, live, usable, named, source, active, topology, candidates, orphans,
                     touched, ids, faults, touches, crashes, m, partial>>
  BY DEF StartDestroy, MayDestroy, spec, provider, bindings, counters
<1>2. active \in Binding /\ source \in Nat /\ active.previous \in 0..ids /\ active.previous # active.id
  BY <1>1 DEF IInv, TypeOK, InRange
<1>3. TypeOK'
  BY <1>1, <1>2 DEF IInv, TypeOK
<1>4. ReadOnce'
  <2>1. base'.active = active /\ active' = active /\ active.version \in Nat
    BY <1>1, <1>2 DEF Binding
  <2>2. active = [active EXCEPT !.version = active.version]
    BY <1>2 DEF Binding
  <2> QED BY <1>1, <2>1, <2>2 DEF ReadOnce, Copying
<1>5. IdsOnce' /\ CandidateIsOwn'
  BY <1>1, <1>2 DEF IInv, IdsOnce, CandidateIsOwn, Copying, HasCandidate
<1>6. Apart' /\ ActiveIsOver' /\ InRange' /\ ActiveIsUsable'
  BY <1>1 DEF IInv, Apart, ActiveIsOver, InRange, ActiveIsUsable
<1> QED BY <1>1, <1>3, <1>4, <1>5, <1>6 DEF IInv, Copying

LEMMA DestroyPreviousStep == ASSUME IInv, DestroyPrevious PROVE IInv'
<1>1. /\ at = "destroy" /\ cand # active.id
      /\ UNCHANGED <<kind, refuses, want, wanted, usable, named, source, active, topology, candidates, orphans, touched, ids,
                     touches, crashes, base>>
  BY DEF DestroyPrevious, Goto, Done, spec, bindings, IInv, CandidateIsOwn
<1>2. CASE live' = live \ {cand} /\ Goto("drop") /\ UNCHANGED faults
  <2>1. TypeOK'
    BY <1>1, <1>2 DEF IInv, TypeOK, Goto
  <2>2. IdsOnce' /\ ReadOnce' /\ CandidateIsOwn'
    BY <1>1, <1>2 DEF IInv, IdsOnce, ReadOnce, CandidateIsOwn, Copying, Destroying, HasCandidate, Goto
  <2>3. Apart' /\ ActiveIsOver' /\ InRange' /\ ActiveIsUsable'
    BY <1>1, <1>2 DEF IInv, Apart, ActiveIsOver, InRange, ActiveIsUsable
  <2> QED BY <1>1, <1>2, <2>1, <2>2, <2>3 DEF IInv, Copying, Goto
<1>3. CASE Fault /\ Done /\ UNCHANGED live
  BY <1>1, <1>3, FaultStep, StopStep DEF Done, IInv, TypeOK
<1> QED BY <1>2, <1>3 DEF DestroyPrevious

(* The binding is written back as it was read: only its version moved.     *)
LEMMA UnlinkedBinding ==
  ASSUME NEW b \in Binding, NEW k \in Nat
  PROVE  /\ [b EXCEPT !.previous = 0, !.nested = {}, !.version = k] \in Binding
         /\ [b EXCEPT !.previous = 0, !.nested = {}, !.version = k].id = b.id
         /\ [b EXCEPT !.previous = 0, !.nested = {}, !.version = k].marker = b.marker
         /\ [b EXCEPT !.previous = 0, !.nested = {}, !.version = k].previous = 0
         /\ [b EXCEPT !.previous = 0, !.nested = {}, !.version = k].nested = {}
<1>1. [b EXCEPT !.previous = 0] \in Binding
  BY DEF Binding
<1>2. [b EXCEPT !.previous = 0, !.nested = {}] \in Binding
  BY <1>1 DEF Binding
<1> QED BY <1>2 DEF Binding

LEMMA DropPreviousStep == ASSUME IInv, DropPrevious PROVE IInv'
<1> DEFINE v == active.version
           next == [base.active EXCEPT !.previous = 0, !.nested = {}, !.version = v + 1]
<1>1. /\ at = "drop" /\ at' = "idle" /\ m' = NoMigration /\ cand' = 0 /\ partial' = FALSE
      /\ active' = next /\ orphans' = orphans \cup base.active.nested
      /\ UNCHANGED <<kind, refuses, want, wanted, live, usable, named, source, topology, candidates, touched, ids,
                     faults, touches, crashes, base>>
  BY DEF DropPrevious, Done, spec, provider, counters
<1>2. active \in Binding /\ base.active \in Binding /\ active = [base.active EXCEPT !.version = v]
      /\ active.nested \subseteq 0..ids /\ active.id \in 0..ids
  BY <1>1 DEF IInv, TypeOK, ReadOnce, Destroying, InRange
<1>3. /\ next \in Binding /\ next.id = active.id /\ next.marker = active.marker
      /\ next.previous = 0 /\ next.nested = {} /\ base.active.nested = active.nested
  <2>1. v \in Nat
    BY <1>2 DEF Binding
  <2> HIDE DEF v
  <2>2. active.id = base.active.id /\ active.marker = base.active.marker /\ active.nested = base.active.nested
    BY <1>2 DEF Binding
  <2>3. v + 1 \in Nat
    BY <2>1
  <2>4. /\ next \in Binding /\ next.id = base.active.id /\ next.marker = base.active.marker
        /\ next.previous = 0 /\ next.nested = {}
    BY <1>2, <2>3, UnlinkedBinding
  <2> QED BY <2>2, <2>4
<1> HIDE DEF next, v
<1>4. TypeOK'
  <2>1. 0 \in 0..ids /\ orphans' \subseteq 0..ids
    BY <1>1, <1>2, <1>3 DEF IInv, TypeOK
  <2> QED BY <1>1, <1>3, <2>1 DEF IInv, TypeOK
<1>5. IdsOnce' /\ ReadOnce' /\ CandidateIsOwn'
  BY <1>1, <1>3 DEF IInv, IdsOnce, ReadOnce, CandidateIsOwn, Copying, Destroying, HasCandidate
<1>6. Apart' /\ ActiveIsOver' /\ ActiveIsUsable'
  BY <1>1, <1>3 DEF IInv, Apart, ActiveIsOver, ActiveIsUsable
<1>7. InRange' /\ active'.previous = 0
  <2>1. 0 \in 0..ids
    BY DEF IInv, TypeOK
  <2>2. active'.id = active.id /\ active'.previous = 0 /\ active'.nested = {} /\ ids' = ids
    BY <1>1, <1>3
  <2> QED BY <1>2, <2>1, <2>2 DEF InRange
<1> QED BY <1>1, <1>4, <1>5, <1>6, <1>7 DEF IInv, Copying

LEMMA ChangeIdStep == ASSUME IInv, ChangeId PROVE IInv'
<1>1. /\ want' \in Migration \ (wanted \cup {want}) /\ wanted' = wanted \cup {want}
      /\ UNCHANGED <<kind, refuses, live, usable, named, source, active, topology, candidates, at, m, cand, base,
                     partial, orphans, touched, ids, faults, touches, crashes>>
  BY DEF ChangeId, provider, bindings, handler, counters
<1>2. TypeOK'
  BY <1>1 DEF IInv, TypeOK
<1>3. IdsOnce' /\ ReadOnce' /\ CandidateIsOwn'
  BY <1>1 DEF IInv, IdsOnce, ReadOnce, CandidateIsOwn
<1>4. Apart' /\ ActiveIsOver' /\ InRange' /\ ActiveIsUsable'
  BY <1>1 DEF IInv, Apart, ActiveIsOver, InRange, ActiveIsUsable
<1> QED BY <1>1, <1>2, <1>3, <1>4 DEF IInv

LEMMA TouchStep == ASSUME IInv, Touch PROVE IInv'
<1>1. /\ touches < MaxTouches /\ touches' = touches + 1
      /\ UNCHANGED <<kind, refuses, want, wanted, live, usable, named, topology, candidates, at, m, cand, base,
                     partial, orphans, ids, faults, crashes>>
  BY DEF Touch, spec, provider, handler
<1>2. touches' \in 0..MaxTouches
  BY <1>1, BoundAssumption DEF IInv, TypeOK
<1>3. CASE source' = source + 1 /\ UNCHANGED <<active, touched>>
  <2>1. TypeOK'
    BY <1>1, <1>2, <1>3 DEF IInv, TypeOK
  <2>2. IdsOnce' /\ ReadOnce' /\ CandidateIsOwn' /\ Apart' /\ ActiveIsOver' /\ InRange' /\ ActiveIsUsable'
    BY <1>1, <1>3 DEF IInv, IdsOnce, ReadOnce, CandidateIsOwn, Apart, ActiveIsOver, InRange, ActiveIsUsable
  <2> QED BY <1>1, <1>3, <2>1, <2>2 DEF IInv
<1>4. CASE active' = [active EXCEPT !.version = active.version + 1] /\ touched' = TRUE /\ UNCHANGED source
  <2>1. active \in Binding /\ active.version \in Nat
    BY DEF IInv, TypeOK, Binding
  <2>2. /\ active' \in Binding /\ active'.id = active.id /\ active'.marker = active.marker
        /\ active'.previous = active.previous /\ active'.nested = active.nested
        /\ active'.version = active.version + 1
    BY <1>4, <2>1 DEF Binding
  <2>3. TypeOK'
    BY <1>1, <1>2, <1>4, <2>2 DEF IInv, TypeOK
  <2>4. ReadOnce'
    <3> SUFFICES ASSUME at \in Copying \cup Destroying
                 PROVE  /\ base.active.version < active'.version /\ base.active.version <= active'.version
                        /\ active' = [base.active EXCEPT !.version = active'.version]
      BY <1>1 DEF ReadOnce
    <3>1. base.active \in Binding /\ base.active.version <= active.version
          /\ active = [base.active EXCEPT !.version = active.version]
      BY DEF IInv, TypeOK, ReadOnce
    <3>2. base.active.version \in Nat
      BY <3>1 DEF Binding
    <3>3. base.active.version < active'.version /\ base.active.version <= active'.version
      BY <2>1, <2>2, <3>1, <3>2
    <3>4. active' = [base.active EXCEPT !.version = active'.version]
      BY <1>4, <2>1, <2>2, <3>1 DEF Binding
    <3> QED BY <3>3, <3>4
  <2>5. IdsOnce' /\ CandidateIsOwn' /\ Apart' /\ ActiveIsOver' /\ InRange' /\ ActiveIsUsable'
    BY <1>1, <2>2 DEF IInv, IdsOnce, CandidateIsOwn, Apart, ActiveIsOver, InRange, ActiveIsUsable
  <2> QED BY <1>1, <2>2, <2>3, <2>4, <2>5 DEF IInv
<1> QED BY <1>3, <1>4 DEF Touch

LEMMA NextIInv == IInv /\ [Next]_vars => IInv'
<1> SUFFICES ASSUME IInv, [Next]_vars PROVE IInv'
  OBVIOUS
<1>1. CASE StartCopy \/ CleanUp \/ Discard \/ Create \/ RecordCandidate \/ Copy
  BY <1>1, StartCopyStep, RemovalStep, CreateStep, RecordStep, CopyStep
<1>2. CASE Switch \/ Forget \/ SetTopology
  BY <1>2, SwitchStep, ForgetStep, SetTopologyStep
<1>3. CASE StartDestroy \/ DestroyPrevious \/ DropPrevious
  BY <1>3, StartDestroyStep, DestroyPreviousStep, DropPreviousStep
<1>4. CASE ChangeId \/ Touch \/ Crash
  BY <1>4, ChangeIdStep, TouchStep, CrashStep
<1>5. CASE UNCHANGED vars
  <2>1. UNCHANGED <<kind, refuses, want, wanted, live, usable, named, source, active, topology, candidates, at, m,
                    cand, base, partial, orphans, touched, ids, faults, touches, crashes>>
    BY <1>5 DEF vars, spec, provider, bindings, handler, counters
  <2>2. TypeOK'
    BY <2>1 DEF IInv, TypeOK
  <2>3. IdsOnce' /\ ReadOnce' /\ CandidateIsOwn' /\ Apart' /\ ActiveIsOver' /\ InRange' /\ ActiveIsUsable'
    BY <2>1 DEF IInv, IdsOnce, ReadOnce, CandidateIsOwn, Apart, ActiveIsOver, InRange, ActiveIsUsable
  <2> QED BY <2>1, <2>2, <2>3 DEF IInv
<1> QED BY <1>1, <1>2, <1>3, <1>4, <1>5 DEF Next, Proceed

(* Whatever fails, dies or changes on the way, what the target is bound to *)
(* exists and holds its former data or a verified copy                     *)
(* (applyDatabaseMigration, applyStorageMigration and the deletions).      *)
THEOREM ActiveStaysUsable == Spec => []ActiveIsUsable
<1>1. IInv => ActiveIsUsable
  BY DEF IInv
<1> QED BY InitIInv, NextIInv, <1>1, PTL DEF Spec

(* The compare of versions before the switch is enough: when it passes,    *)
(* the whole binding is the one the handler had read, and nobody else      *)
(* wrote it since it was read or, for a bucket, since the handler last     *)
(* wrote it back with its candidate.                                       *)
THEOREM SwitchComparesEnough == Spec => SwitchesOnlyUnchanged
<1>1. ASSUME IInv, [Next]_vars, active'.id # active.id
      PROVE  source = base.source /\ active = base.active /\ ~touched /\ active'.previous = base.active.id
  <2>1. active \in Binding
    BY <1>1 DEF IInv, TypeOK
  <2>2. CASE Switch
    <3>1. Unchanged /\ at = "switch"
      BY <1>1, <2>2 DEF Switch
    <3>2. base.active \in Binding /\ active = [base.active EXCEPT !.version = active.version]
      BY <1>1, <3>1 DEF IInv, TypeOK, ReadOnce, Copying
    <3>3. active.version = base.active.version /\ source = base.source
      BY <3>1 DEF Unchanged
    <3>4. active = base.active
      BY <3>2, <3>3 DEF Binding
    <3>5. active'.previous = active.id
      BY <2>2, <3>1 DEF Switch
    <3>6. ~touched
      <4>1. touched => base.active.version < active.version
        BY <1>1, <3>1 DEF IInv, ReadOnce, Copying
      <4>2. active.version \in Nat
        BY <2>1 DEF Binding
      <4> QED BY <3>3, <4>1, <4>2
    <3> QED BY <3>3, <3>4, <3>5, <3>6
  <2>3. CASE DropPrevious
    <3>1. base.active \in Binding /\ active = [base.active EXCEPT !.version = active.version]
      BY <1>1, <2>3 DEF DropPrevious, IInv, TypeOK, ReadOnce, Destroying
    <3>2. active'.id = active.id
      BY <2>1, <2>3, <3>1 DEF DropPrevious, Binding
    <3> QED BY <1>1, <3>2
  <2>4. CASE Touch
    BY <1>1, <2>1, <2>4 DEF Touch, Binding
  <2>5. CASE CleanUp \/ Discard \/ RecordCandidate
    <3>1. at \in Copying /\ (active' = active \/ active' = base.active)
      BY <2>5 DEF CleanUp, Discard, RecordCandidate, WriteBack, Copying
    <3> QED BY <1>1, <3>1, WritesBack
  <2>6. CASE ~Switch /\ ~DropPrevious /\ ~Touch /\ ~CleanUp /\ ~Discard /\ ~RecordCandidate
    BY <1>1, <2>6 DEF Next, Proceed, StartCopy, Create, Copy, Forget, SetTopology, DestroyPrevious,
       StartDestroy, ChangeId, Crash, vars, bindings
  <2> QED BY <2>2, <2>3, <2>4, <2>5, <2>6
<1>2. IInv /\ [Next]_vars =>
        [active'.id # active.id =>
           /\ source = base.source /\ active = base.active /\ ~touched
           /\ active'.previous = base.active.id]_vars
  BY <1>1
<1> QED BY InitIInv, NextIInv, <1>2, PTL DEF Spec, SwitchesOnlyUnchanged

-----------------------------------------------------------------------------
(***************************************************************************)
(* What the records say of the resources                                   *)
(***************************************************************************)
OnRecord(i) ==
  \/ i \in {active.id, active.previous} \cup active.nested \cup orphans
  \/ \E x \in Migration : candidates[x] = i

(* A resource is on record at every step but the one that records it, and  *)
(* the record a step removes is of a resource that is gone, or bound.      *)
EachIsOnRecord ==
  /\ \A i \in live : OnRecord(i) \/ (at = "record" /\ i = cand)
  /\ at \in {"create", "record"} => candidates[m] = 0
  /\ at \in {"copy", "switch", "discard", "forget"} => candidates[m] = cand
  /\ at \in {"forget", "topology"} => cand = active.id
  /\ kind = "bucket" => active.nested = {}
  /\ at \in Destroying => cand = active.previous
  /\ at = "drop" => cand \notin live

(* The retained target belongs to a migration that is over for good, so no *)
(* handler takes it for its candidate.                                     *)
PreviousIsOver ==
  /\ at \in Copying => active.marker # want
  /\ active.previous # 0 => \A x \in Migration :
       active.previous \in {candidates[x], named[x]} => x \in wanted
  /\ at \in {"clean", "create"} => active.previous = 0 \/ active.previous \notin {candidates[m], named[m]}
  /\ at \in HasCandidate => cand # active.previous

(* As long as the process lives, only the step that forgets the candidate  *)
(* finds the binding switched to it.                                       *)
CandidatesAreSpare ==
  crashes = 0 => \A x \in Migration :
    candidates[x] # 0 /\ candidates[x] \in {active.id, active.previous} => at = "forget" /\ x = m

RInv == EachIsOnRecord /\ PreviousIsOver /\ CandidatesAreSpare /\ PreviousIsRetained

LEMMA InitRInv == Init => RInv
<1> SUFFICES ASSUME Init PROVE RInv
  OBVIOUS
<1>1. PICK i \in {0, 1} :
        /\ live = {i} \ {0}
        /\ active = [id |-> i, version |-> 0, marker |-> NoMigration, previous |-> 0, nested |-> {}]
  BY DEF Init
<1>2. at = "idle" /\ active.id = i /\ active.previous = 0 /\ active.nested = {}
      /\ candidates = [x \in Migration |-> 0]
  BY <1>1 DEF Init
<1> QED BY <1>1, <1>2 DEF RInv, EachIsOnRecord, OnRecord, PreviousIsOver, CandidatesAreSpare,
           PreviousIsRetained, Copying, Destroying, HasCandidate

LEMMA StartCopyKeeps == ASSUME IInv, RInv, StartCopy PROVE RInv'
<1>1. /\ at = "idle" /\ at' = IF candidates[want] # 0 THEN "clean" ELSE "create"
      /\ m' = want /\ active.marker # want /\ want \in Migration /\ want \notin wanted
      /\ UNCHANGED <<kind, want, wanted, live, named, active, candidates, orphans, crashes>>
  BY DEF StartCopy, Complete, spec, provider, bindings, counters, IInv, TypeOK, IdsOnce
<1>2. EachIsOnRecord' /\ CandidatesAreSpare' /\ PreviousIsRetained'
  BY <1>1 DEF RInv, EachIsOnRecord, OnRecord, CandidatesAreSpare, PreviousIsRetained, Destroying
<1>3. PreviousIsOver'
  BY <1>1 DEF RInv, PreviousIsOver, HasCandidate, Copying
<1> QED BY <1>2, <1>3 DEF RInv

(* A handler that is done leaves everything on record but what it removed. *)
LEMMA StopKeeps ==
  ASSUME RInv, at' = "idle", at \notin {"record", "forget", "drop"},
         UNCHANGED <<kind, want, wanted, live, named, active, candidates, orphans, crashes>>
  PROVE  RInv'
<1>1. EachIsOnRecord' /\ CandidatesAreSpare' /\ PreviousIsRetained'
  BY DEF RInv, EachIsOnRecord, OnRecord, CandidatesAreSpare, PreviousIsRetained, Destroying
<1>2. PreviousIsOver'
  BY DEF RInv, PreviousIsOver, HasCandidate, Copying
<1> QED BY <1>1, <1>2 DEF RInv

(* The candidate and its record go together, and it was not the former     *)
(* target.                                                                 *)
LEMMA RemovalKeeps == ASSUME IInv, RInv, CleanUp \/ Discard PROVE RInv'
<1> DEFINE next == IF at = "clean" THEN "create" ELSE "idle"
<1>1. /\ at \in {"clean", "discard"} /\ at \in Copying /\ m \in Migration /\ candidates[m] = cand
      /\ candidates \in [Migration -> 0..ids]
      /\ cand # active.previous \/ active.previous = 0
  BY DEF CleanUp, Discard, IInv, TypeOK, CandidateIsOwn, RInv, EachIsOnRecord, PreviousIsOver,
     HasCandidate, Copying
<1>2. /\ UNCHANGED <<kind, want, wanted, named, orphans, crashes>>
      /\ active' = active \/ active' = base.active
      /\ \/ /\ live' = live \ {cand} /\ candidates' = [candidates EXCEPT ![m] = 0]
            /\ at' = next /\ m' = m
         \/ at' = "idle" /\ UNCHANGED <<live, candidates>>
  BY DEF CleanUp, Discard, DestroyCandidate, Goto, Done, WriteBack, spec
<1> HIDE DEF next
<1>3. /\ active'.id = active.id /\ active'.marker = active.marker
      /\ active'.previous = active.previous /\ active'.nested = active.nested
  BY <1>1, <1>2, WritesBack
<1>4. CASE at' = "idle" /\ UNCHANGED <<live, candidates>>
  <2>1. EachIsOnRecord' /\ CandidatesAreSpare' /\ PreviousIsRetained'
    BY <1>1, <1>2, <1>3, <1>4 DEF RInv, EachIsOnRecord, OnRecord, CandidatesAreSpare, PreviousIsRetained,
       Destroying
  <2>2. PreviousIsOver'
    BY <1>2, <1>3, <1>4 DEF RInv, PreviousIsOver, HasCandidate, Copying
  <2> QED BY <2>1, <2>2 DEF RInv
<1>5. CASE /\ live' = live \ {cand} /\ candidates' = [candidates EXCEPT ![m] = 0]
           /\ at' = next /\ m' = m
  <2>1. next \in {"create", "idle"} /\ (next = "create" => at = "clean")
    BY DEF next
  <2>2. /\ candidates'[m] = 0
        /\ \A x \in Migration : candidates'[x] \in {0, candidates[x]}
        /\ \A x \in Migration \ {m} : candidates'[x] = candidates[x]
    BY <1>1, <1>5
  <2>3. EachIsOnRecord'
    <3>1. \A i \in live' : OnRecord(i)'
      <4> SUFFICES ASSUME NEW i \in live' PROVE OnRecord(i)'
        OBVIOUS
      <4>1. i \in live /\ i # cand
        BY <1>5
      <4>2. OnRecord(i)
        BY <1>1, <4>1 DEF RInv, EachIsOnRecord
      <4> QED BY <1>1, <1>2, <1>3, <2>2, <4>1, <4>2 DEF OnRecord
    <3> QED BY <1>2, <1>3, <1>5, <2>1, <2>2, <3>1 DEF EachIsOnRecord, RInv, Destroying
  <2>4. PreviousIsOver'
    BY <1>1, <1>2, <1>3, <1>5, <2>1, <2>2 DEF RInv, PreviousIsOver, HasCandidate, Copying
  <2>5. CandidatesAreSpare'
    BY <1>1, <1>2, <1>3, <2>2 DEF RInv, CandidatesAreSpare
  <2>6. PreviousIsRetained'
    BY <1>1, <1>2, <1>3, <1>5 DEF RInv, PreviousIsRetained
  <2> QED BY <2>3, <2>4, <2>5, <2>6 DEF RInv
<1> QED BY <1>2, <1>5, <1>4

LEMMA CreateKeeps == ASSUME IInv, RInv, Create PROVE RInv'
<1>1. /\ at = "create" /\ m \in Migration /\ ids \in Nat /\ candidates[m] = 0
      /\ named \in [Migration -> 0..ids] /\ live \subseteq 0..ids /\ 0 \notin live
      /\ active.previous \in 0..ids
      /\ active.previous = 0 \/ active.previous \notin {candidates[m], named[m]}
  BY DEF Create, IInv, Copying, TypeOK, InRange, RInv, EachIsOnRecord, PreviousIsOver
<1>2. UNCHANGED <<kind, want, wanted, active, candidates, crashes>>
  BY DEF Create, Done, spec, bindings
<1>3. CASE Done /\ UNCHANGED <<provider, orphans, ids>>
  BY <1>1, <1>2, <1>3, StopKeeps DEF Done, provider
<1>4. CASE named[m] \in live /\ at' = "record" /\ cand' = named[m] /\ m' = m /\ UNCHANGED <<provider, orphans>>
  <2>1. EachIsOnRecord' /\ CandidatesAreSpare' /\ PreviousIsRetained'
    BY <1>1, <1>2, <1>4 DEF RInv, EachIsOnRecord, OnRecord, CandidatesAreSpare, PreviousIsRetained,
       Destroying, provider
  <2>2. PreviousIsOver'
    BY <1>1, <1>2, <1>4 DEF RInv, PreviousIsOver, HasCandidate, Copying, provider
  <2> QED BY <2>1, <2>2 DEF RInv
<1>5. CASE /\ ids' = ids + 1 /\ live' = live \cup {ids'}
           /\ named' = IF kind = "bucket" THEN [named EXCEPT ![m] = ids'] ELSE named
           /\ \/ at' = "record" /\ cand' = ids' /\ m' = m /\ UNCHANGED orphans
              \/ at' = "idle" /\ orphans' = orphans \cup {ids'}
  <2>1. ids' \notin 0..ids /\ active.previous # ids'
    BY <1>1, <1>5
  <2>2. \A x \in Migration : named'[x] \in {named[x], ids'}
    BY <1>1, <1>5
  <2>3. EachIsOnRecord' /\ CandidatesAreSpare' /\ PreviousIsRetained'
    BY <1>1, <1>2, <1>5 DEF RInv, EachIsOnRecord, OnRecord, CandidatesAreSpare, PreviousIsRetained,
       Destroying
  <2>4. PreviousIsOver'
    BY <1>1, <1>2, <1>5, <2>1, <2>2 DEF RInv, PreviousIsOver, HasCandidate, Copying
  <2> QED BY <2>3, <2>4 DEF RInv
<1> QED BY <1>3, <1>4, <1>5 DEF Create, Done, provider

(* Only the record a handler writes hides none: the one before was empty.  *)
LEMMA RecordKeeps == ASSUME IInv, RInv, RecordCandidate PROVE RInv'
<1>1. /\ at = "record" /\ m \in Migration /\ candidates \in [Migration -> 0..ids]
      /\ candidates[m] = 0 /\ 0 \notin live
      /\ candidates' = [candidates EXCEPT ![m] = cand] /\ at' \in {"discard", "copy"}
      /\ cand # active.id /\ cand # active.previous
      /\ UNCHANGED <<kind, want, wanted, live, named, crashes, m, cand>>
      /\ orphans' = orphans \ {cand} /\ (active' = active \/ active' = base.active)
  BY DEF RecordCandidate, WriteBack, Goto, spec, provider, counters, IInv, TypeOK, Copying, CandidateIsOwn,
     HasCandidate, RInv, EachIsOnRecord, PreviousIsOver
<1>2. candidates'[m] = cand /\ \A x \in Migration \ {m} : candidates'[x] = candidates[x]
  BY <1>1
<1>3. /\ active'.id = active.id /\ active'.marker = active.marker
      /\ active'.previous = active.previous /\ active'.nested = active.nested
  BY <1>1, WritesBack DEF Copying
<1>4. EachIsOnRecord'
  <2>1. \A i \in live' : OnRecord(i)'
    <3> SUFFICES ASSUME NEW i \in live PROVE OnRecord(i)'
      BY <1>1
    <3>1. OnRecord(i) \/ i = cand
      BY DEF RInv, EachIsOnRecord
    <3> QED BY <1>1, <1>2, <1>3, <3>1 DEF OnRecord
  <2> QED BY <1>1, <1>2, <1>3, <2>1 DEF RInv, EachIsOnRecord, Destroying
<1>5. PreviousIsOver'
  BY <1>1, <1>2, <1>3 DEF RInv, PreviousIsOver, HasCandidate, Copying
<1>6. CandidatesAreSpare' /\ PreviousIsRetained'
  BY <1>1, <1>2, <1>3 DEF RInv, CandidatesAreSpare, PreviousIsRetained
<1> QED BY <1>4, <1>5, <1>6 DEF RInv

LEMMA CopyKeeps == ASSUME IInv, RInv, Copy PROVE RInv'
<1>1. /\ at = "copy" /\ at' \in {"switch", "discard"}
      /\ UNCHANGED <<kind, want, wanted, live, named, active, candidates, orphans, crashes, m, cand>>
  BY DEF Copy, Goto, spec, bindings
<1>2. EachIsOnRecord' /\ CandidatesAreSpare' /\ PreviousIsRetained'
  BY <1>1 DEF RInv, EachIsOnRecord, OnRecord, CandidatesAreSpare, PreviousIsRetained, Destroying
<1>3. PreviousIsOver'
  BY <1>1 DEF RInv, PreviousIsOver, HasCandidate, Copying
<1> QED BY <1>2, <1>3 DEF RInv

(* A switch keeps what was active as the former target, and what came      *)
(* before it nested, or known to be lost.                                  *)
LEMMA SwitchKeeps == ASSUME IInv, RInv, Switch PROVE RInv'
<1>1. /\ at = "switch" /\ m \in Migration /\ m \in wanted \cup {want}
      /\ cand # 0 /\ cand # active.id /\ cand # active.previous /\ candidates[m] = cand
      /\ \A x \in Migration \ {m} : cand \notin {candidates[x], named[x]}
      /\ candidates \in [Migration -> 0..ids] /\ 0 \notin live
      /\ kind \in {"database", "bucket"}
      /\ kind = "bucket" => active.nested = {}
      /\ active.marker # want /\ active.marker \in {NoMigration, want} \cup wanted
      /\ active.id # 0 => active.id \in live
  BY DEF Switch, IInv, TypeOK, IdsOnce, CandidateIsOwn, HasCandidate, Copying, RInv, EachIsOnRecord,
     PreviousIsOver, ActiveIsUsable
<1>2. UNCHANGED <<kind, want, wanted, live, named, crashes>>
  BY DEF Switch, Goto, Done, spec, provider, counters
<1>3. CASE ~Unchanged
  <2>1. at' = "discard" /\ UNCHANGED <<m, cand, active, candidates, orphans>>
    BY <1>3 DEF Switch, Goto
  <2>2. EachIsOnRecord' /\ CandidatesAreSpare' /\ PreviousIsRetained'
    BY <1>1, <1>2, <2>1 DEF RInv, EachIsOnRecord, OnRecord, CandidatesAreSpare, PreviousIsRetained, Destroying
  <2>3. PreviousIsOver'
    BY <1>1, <1>2, <2>1 DEF RInv, PreviousIsOver, HasCandidate, Copying
  <2> QED BY <2>2, <2>3 DEF RInv
<1>4. CASE Unchanged
  <2>1. /\ active'.id = cand /\ active'.previous = active.id /\ active'.marker = m
        /\ active'.nested = IF kind = "database" THEN (active.nested \cup {active.previous}) \ {0} ELSE {}
        /\ orphans' = orphans \cup IF kind = "bucket" THEN {active.previous} \ {0} ELSE {}
    BY <1>4 DEF Switch
  <2>2. CASE kind = "bucket"
    <3>1. at' = "idle" /\ m' = NoMigration /\ candidates' = [candidates EXCEPT ![m] = 0]
      BY <1>4, <2>2 DEF Switch, Done
    <3>2. candidates'[m] = 0 /\ \A x \in Migration \ {m} : candidates'[x] = candidates[x]
      BY <1>1, <3>1
    <3>3. EachIsOnRecord'
      <4>1. \A i \in live : OnRecord(i)'
        <5> SUFFICES ASSUME NEW i \in live PROVE OnRecord(i)'
          OBVIOUS
        <5>1. OnRecord(i) /\ i # 0
          BY <1>1 DEF RInv, EachIsOnRecord
        <5> QED BY <1>1, <2>1, <2>2, <3>2, <5>1 DEF OnRecord
      <4> QED BY <1>2, <2>1, <2>2, <3>1, <4>1 DEF EachIsOnRecord, Destroying
    <3>4. PreviousIsOver'
      <4>1. \A x \in Migration : active'.previous # 0 /\ active'.previous \in {candidates'[x], named'[x]}
              => x \in wanted'
        BY <1>1, <1>2, <2>1, <3>2, MigrationAssumption DEF IInv, ActiveIsOver
      <4> QED BY <3>1, <4>1 DEF PreviousIsOver, Copying, HasCandidate
    <3>5. CandidatesAreSpare'
      BY <1>1, <1>2, <2>1, <3>1, <3>2 DEF RInv, CandidatesAreSpare
    <3>6. PreviousIsRetained'
      BY <1>1, <1>2, <2>1 DEF PreviousIsRetained
    <3> QED BY <3>3, <3>4, <3>5, <3>6 DEF RInv
  <2>3. CASE kind = "database"
    <3>1. at' = "forget" /\ UNCHANGED <<m, cand, candidates, orphans>>
      BY <1>4, <2>1, <2>3 DEF Switch, Goto
    <3>2. EachIsOnRecord'
      <4>1. \A i \in live : OnRecord(i)'
        <5> SUFFICES ASSUME NEW i \in live PROVE OnRecord(i)'
          OBVIOUS
        <5>1. OnRecord(i) /\ i # 0
          BY <1>1 DEF RInv, EachIsOnRecord
        <5> QED BY <1>1, <2>1, <2>3, <3>1, <5>1 DEF OnRecord
      <4> QED BY <1>1, <1>2, <2>1, <2>3, <3>1, <4>1 DEF EachIsOnRecord, Destroying
    <3>3. PreviousIsOver'
      <4>1. \A x \in Migration : active'.previous # 0 /\ active'.previous \in {candidates'[x], named'[x]}
              => x \in wanted'
        BY <1>1, <1>2, <2>1, <3>1, MigrationAssumption DEF IInv, ActiveIsOver
      <4> QED BY <3>1, <4>1 DEF PreviousIsOver, Copying, HasCandidate
    <3>4. CandidatesAreSpare'
      BY <1>1, <1>2, <2>1, <3>1 DEF RInv, CandidatesAreSpare
    <3>5. PreviousIsRetained'
      BY <1>1, <1>2, <2>1 DEF PreviousIsRetained
    <3> QED BY <3>2, <3>3, <3>4, <3>5 DEF RInv
  <2> QED BY <1>1, <2>2, <2>3
<1> QED BY <1>3, <1>4

(* The candidate whose record goes is what the binding names now.          *)
LEMMA ForgetKeeps == ASSUME IInv, RInv, Forget PROVE RInv'
<1>1. /\ at = "forget" /\ at' = "topology" /\ m \in Migration
      /\ candidates \in [Migration -> 0..ids] /\ candidates' = [candidates EXCEPT ![m] = 0]
      /\ candidates[m] = cand /\ cand = active.id
      /\ UNCHANGED <<kind, want, wanted, live, named, active, orphans, crashes, m, cand>>
  BY DEF Forget, Goto, spec, provider, counters, IInv, TypeOK, RInv, EachIsOnRecord
<1>2. candidates'[m] = 0 /\ \A x \in Migration \ {m} : candidates'[x] = candidates[x]
  BY <1>1
<1>3. EachIsOnRecord'
  <2>1. \A i \in live : OnRecord(i)'
    <3> SUFFICES ASSUME NEW i \in live PROVE OnRecord(i)'
      OBVIOUS
    <3>1. OnRecord(i)
      BY <1>1 DEF RInv, EachIsOnRecord
    <3> QED BY <1>1, <1>2, <3>1 DEF OnRecord
  <2> QED BY <1>1, <2>1 DEF RInv, EachIsOnRecord, Destroying
<1>4. PreviousIsOver'
  <2>1. \A x \in Migration : candidates'[x] \in {0, candidates[x]}
    BY <1>2
  <2> QED BY <1>1, <2>1 DEF RInv, PreviousIsOver, Copying, HasCandidate
<1>5. CandidatesAreSpare' /\ PreviousIsRetained'
  BY <1>1, <1>2 DEF RInv, CandidatesAreSpare, PreviousIsRetained
<1> QED BY <1>3, <1>4, <1>5 DEF RInv

LEMMA SetTopologyKeeps == ASSUME RInv, SetTopology PROVE RInv'
  BY StopKeeps DEF SetTopology, Done, spec, provider, counters

LEMMA StartDestroyKeeps == ASSUME RInv, StartDestroy PROVE RInv'
<1>1. /\ at = "idle" /\ at' = "destroy" /\ cand' = active.previous
      /\ UNCHANGED <<kind, want, wanted, live, named, active, candidates, orphans, crashes, m>>
  BY DEF StartDestroy, MayDestroy, spec, provider, bindings, counters
<1>2. EachIsOnRecord' /\ CandidatesAreSpare' /\ PreviousIsRetained'
  BY <1>1 DEF RInv, EachIsOnRecord, OnRecord, CandidatesAreSpare, PreviousIsRetained
<1>3. PreviousIsOver'
  BY <1>1 DEF RInv, PreviousIsOver, Copying, HasCandidate
<1> QED BY <1>2, <1>3 DEF RInv

LEMMA DestroyPreviousKeeps == ASSUME RInv, DestroyPrevious PROVE RInv'
<1>1. /\ at = "destroy" /\ cand = active.previous
      /\ UNCHANGED <<kind, want, wanted, named, active, candidates, orphans, crashes>>
  BY DEF DestroyPrevious, Goto, Done, spec, bindings, RInv, EachIsOnRecord, Destroying
<1>2. CASE live' = live \ {cand} /\ Goto("drop")
  <2>1. at' = "drop" /\ live' = live \ {cand} /\ UNCHANGED <<m, cand>>
    BY <1>2 DEF Goto
  <2>2. EachIsOnRecord' /\ CandidatesAreSpare' /\ PreviousIsRetained'
    BY <1>1, <2>1 DEF RInv, EachIsOnRecord, OnRecord, CandidatesAreSpare, PreviousIsRetained
  <2>3. PreviousIsOver'
    BY <1>1, <2>1 DEF RInv, PreviousIsOver, Copying, HasCandidate
  <2> QED BY <2>2, <2>3 DEF RInv
<1>3. CASE Done /\ UNCHANGED live
  BY <1>1, <1>3, StopKeeps DEF Done
<1> QED BY <1>2, <1>3 DEF DestroyPrevious

(* The former target is gone when its binding goes, and the ones nested in *)
(* it are known to be lost.                                                *)
LEMMA DropPreviousKeeps == ASSUME IInv, RInv, DropPrevious PROVE RInv'
<1> DEFINE next == [base.active EXCEPT !.previous = 0, !.nested = {}, !.version = active.version + 1]
<1>1. /\ at = "drop" /\ at' = "idle" /\ cand = active.previous /\ cand \notin live /\ 0 \notin live
      /\ active' = next /\ orphans' = orphans \cup base.active.nested
      /\ UNCHANGED <<kind, want, wanted, live, named, candidates, crashes>>
  BY DEF DropPrevious, Done, spec, provider, counters, RInv, EachIsOnRecord, Destroying, IInv
<1>2. PICK b \in Binding : b = base.active
  BY DEF IInv, TypeOK
<1>3. active \in Binding /\ active.id = b.id /\ active.nested = b.nested
  BY <1>1, <1>2 DEF IInv, TypeOK, ReadOnce, Destroying, Binding
<1>4. active'.id = active.id /\ active'.previous = 0 /\ active'.nested = {}
  <2>1. active.version + 1 \in Nat
    BY <1>3 DEF Binding
  <2> QED BY <1>1, <1>2, <1>3, <2>1, UnlinkedBinding
<1> HIDE DEF next
<1>5. EachIsOnRecord'
  <2>1. \A i \in live : OnRecord(i)'
    <3> SUFFICES ASSUME NEW i \in live PROVE OnRecord(i)'
      OBVIOUS
    <3>1. OnRecord(i) /\ i # active.previous
      BY <1>1 DEF RInv, EachIsOnRecord
    <3> QED BY <1>1, <1>2, <1>3, <1>4, <3>1 DEF OnRecord
  <2> QED BY <1>1, <1>4, <2>1 DEF EachIsOnRecord, Destroying
<1>6. PreviousIsOver' /\ PreviousIsRetained'
  BY <1>1, <1>4 DEF PreviousIsOver, PreviousIsRetained, Copying, HasCandidate
<1>7. CandidatesAreSpare'
  BY <1>1, <1>4 DEF RInv, CandidatesAreSpare
<1> QED BY <1>5, <1>6, <1>7 DEF RInv

LEMMA ChangeIdKeeps == ASSUME IInv, RInv, ChangeId PROVE RInv'
<1>1. /\ want' \in Migration \ (wanted \cup {want}) /\ wanted' = wanted \cup {want}
      /\ UNCHANGED <<kind, live, named, active, candidates, at, m, cand, orphans, crashes>>
  BY DEF ChangeId, provider, bindings, handler, counters
<1>2. EachIsOnRecord' /\ CandidatesAreSpare' /\ PreviousIsRetained'
  BY <1>1 DEF RInv, EachIsOnRecord, OnRecord, CandidatesAreSpare, PreviousIsRetained
<1>3. PreviousIsOver'
  <2>1. active.marker # want'
    BY <1>1, MigrationAssumption DEF IInv, IdsOnce
  <2> QED BY <1>1, <2>1 DEF RInv, PreviousIsOver
<1> QED BY <1>2, <1>3 DEF RInv

LEMMA TouchKeeps == ASSUME IInv, RInv, Touch PROVE RInv'
<1>1. UNCHANGED <<kind, want, wanted, live, named, candidates, at, m, cand, orphans, crashes>>
  BY DEF Touch, spec, provider, handler
<1>2. /\ active'.id = active.id /\ active'.marker = active.marker
      /\ active'.previous = active.previous /\ active'.nested = active.nested
  <2>1. active \in Binding
    BY DEF IInv, TypeOK
  <2> QED BY <2>1 DEF Touch, Binding
<1>3. EachIsOnRecord' /\ CandidatesAreSpare' /\ PreviousIsRetained'
  BY <1>1, <1>2 DEF RInv, EachIsOnRecord, OnRecord, CandidatesAreSpare, PreviousIsRetained
<1>4. PreviousIsOver'
  BY <1>1, <1>2 DEF RInv, PreviousIsOver
<1> QED BY <1>3, <1>4 DEF RInv

(* What was created but not recorded is known to be lost.                  *)
LEMMA CrashKeeps == ASSUME IInv, RInv, Crash PROVE RInv'
<1>1. /\ at' = "idle" /\ crashes' # 0 /\ orphans' = orphans \cup IF at = "record" THEN {cand} ELSE {}
      /\ UNCHANGED <<kind, want, wanted, live, named, active, candidates>>
  <2>1. crashes \in Nat
    BY BoundAssumption DEF IInv, TypeOK
  <2> QED BY <2>1 DEF Crash, Done, spec, provider, bindings
<1>2. EachIsOnRecord'
  <2>1. \A i \in live : OnRecord(i)'
    BY <1>1 DEF RInv, EachIsOnRecord, OnRecord
  <2> QED BY <1>1, <2>1 DEF RInv, EachIsOnRecord, Destroying
<1>3. PreviousIsOver' /\ CandidatesAreSpare' /\ PreviousIsRetained'
  BY <1>1 DEF RInv, PreviousIsOver, CandidatesAreSpare, PreviousIsRetained, Copying, HasCandidate
<1> QED BY <1>2, <1>3 DEF RInv

LEMMA NextRInv == IInv /\ RInv /\ [Next]_vars => RInv'
<1> SUFFICES ASSUME IInv, RInv, [Next]_vars PROVE RInv'
  OBVIOUS
<1>1. CASE StartCopy \/ CleanUp \/ Discard \/ Create \/ RecordCandidate \/ Copy
  BY <1>1, StartCopyKeeps, RemovalKeeps, CreateKeeps, RecordKeeps, CopyKeeps
<1>2. CASE Switch \/ Forget \/ SetTopology
  BY <1>2, SwitchKeeps, ForgetKeeps, SetTopologyKeeps
<1>3. CASE StartDestroy \/ DestroyPrevious \/ DropPrevious
  BY <1>3, StartDestroyKeeps, DestroyPreviousKeeps, DropPreviousKeeps
<1>4. CASE ChangeId \/ Touch \/ Crash
  BY <1>4, ChangeIdKeeps, TouchKeeps, CrashKeeps
<1>5. CASE UNCHANGED vars
  <2>1. UNCHANGED <<kind, want, wanted, live, named, active, candidates, at, m, cand, orphans, crashes>>
    BY <1>5 DEF vars, spec, provider, bindings, handler, counters
  <2> QED BY <2>1 DEF RInv, EachIsOnRecord, OnRecord, PreviousIsOver, CandidatesAreSpare, PreviousIsRetained
<1> QED BY <1>1, <1>2, <1>3, <1>4, <1>5 DEF Next, Proceed

(* Whatever fails or dies on the way, every resource a migration made is   *)
(* on record, but for a bucket half-created, one made right before a crash *)
(* and a former target's former one; and as long as the process lives, no  *)
(* record offers for deletion what is in use, and the former target stays  *)
(* until its deletion was confirmed (candidate records of                  *)
(* applyDatabaseMigration and applyStorageMigration, and the bindings the  *)
(* deletions leave).                                                       *)
THEOREM RecordsStayTrue == Spec => []RecordsAreTrue
<1>1. RInv => RecordsAreTrue
  BY DEF RInv, EachIsOnRecord, OnRecord, CandidatesAreSpare, RecordsAreTrue, NothingForgotten,
     CandidateIsNotInUse
<1> QED BY InitIInv, NextIInv, InitRInv, NextRInv, <1>1, PTL DEF Spec

-----------------------------------------------------------------------------
(***************************************************************************)
(* The access to a database.                                               *)
(***************************************************************************)
Calls == {"none", "create", "discard", "cleanup"}
UserStates == [at : {"idle", "waiting", "holding", "releasing"}, id : Access \cup {None}]

(* The types, without the bounds of a run.                                 *)
AccessTypes ==
  /\ shared \in Shared!Lease /\ queue \in Seq(Shared!Operation)
  /\ awaits \in [call : Calls, id : Access \cup {None}]
  /\ user \in [User -> UserStates]
  /\ clock \in [Access -> SUBSET User]
  /\ leaked \subseteq exists /\ exists \subseteq used /\ used \subseteq Access

(* An operation in the queue is of a user who waits for it; each waits for *)
(* one.                                                                    *)
OperationFits(o, of) ==
  /\ o.op = "acquire" => o.by \in User /\ of[o.by].at = "waiting"
  /\ o.op = "release" => o.by \in User /\ of[o.by] = [at |-> "releasing", id |-> o.id]
  /\ o.op # "acquire" => o.id \in Access
QueueFits ==
  /\ \A i \in 1..Len(queue) : OperationFits(queue[i], user)
  /\ \A i, j \in 1..Len(queue) :
       {queue[i].op, queue[j].op} \subseteq {"acquire", "release"} /\ queue[i].by = queue[j].by => i = j

(* What is awaited inside the lock, and by whom.                           *)
AwaitsFit ==
  /\ awaits.call = "none" => awaits = Shared!Nothing
  /\ awaits.call # "none" => queue # <<>>
  /\ awaits.call \in {"create", "discard"} => shared = Shared!NoLease /\ queue[1].op = "acquire"
  /\ awaits.call = "discard" => awaits.id \in exists \ leaked
  /\ awaits.call = "cleanup" => shared # Shared!NoLease /\ shared.references = 0

(* The access that exists is registered, or about to be discarded.         *)
OneIsKnown ==
  /\ shared.id = None => shared = Shared!NoLease
  /\ shared # Shared!NoLease => shared.id \in used \ leaked
  /\ shared # Shared!NoLease /\ ~shared.cleanupFailed => shared.id \in exists
  /\ shared.cleanupFailed => shared.references = 0
  /\ \A a \in exists \ leaked : a = shared.id \/ (awaits.call = "discard" /\ a = awaits.id)

(* A lease has a reference for each of its holders, until its cleanup.     *)
Holders(a) == {u \in User : user[u].at \in {"holding", "releasing"} /\ user[u].id = a}
Injections(S, n) == {f \in [S -> 1..n] : \A x, y \in S : f[x] = f[y] => x = y}
HoldersCounted ==
  /\ \A u \in User : user[u].at \in {"holding", "releasing"} => user[u].id \in used
  /\ shared # Shared!NoLease /\ ~shared.cleanupFailed /\ awaits.call # "cleanup" =>
       Injections(Holders(shared.id), shared.references) # {}

(* Who holds an access in time holds the registered one, and nobody is     *)
(* cleaning it up.                                                         *)
HeldIsShared ==
  \A u \in User : user[u].at = "holding" /\ u \in clock[user[u].id] =>
    shared.id = user[u].id /\ ~shared.cleanupFailed /\ awaits.call # "cleanup"

(* As NeverStranded; an acquisition that cleans up sets no timer.          *)
TimerIsSet ==
  shared # Shared!NoLease =>
    \/ shared.timer \/ (awaits.call = "cleanup" /\ queue[1].op # "acquire")
    \/ \E i \in 1..Len(queue) : queue[i].op = "reconcile" /\ queue[i].id = shared.id

AInv ==
  /\ AccessTypes /\ QueueFits /\ AwaitsFit /\ OneIsKnown
  /\ HoldersCounted /\ HeldIsShared /\ TimerIsSet

-----------------------------------------------------------------------------
LEMMA AccessInit == Shared!Init => AInv
<1> SUFFICES ASSUME Shared!Init PROVE AInv
  OBVIOUS
<1> USE DEF Shared!Init
<1>1. AccessTypes
  BY DEF AccessTypes, Shared!NoLease, Shared!Nothing, Shared!Lease, Calls, UserStates
<1>2. QueueFits
  BY DEF QueueFits
<1>3. AwaitsFit /\ OneIsKnown /\ HoldersCounted /\ HeldIsShared /\ TimerIsSet
  BY DEF AwaitsFit, OneIsKnown, HoldersCounted, HeldIsShared, TimerIsSet, Shared!NoLease,
       Shared!Nothing
<1> QED BY <1>1, <1>2, <1>3 DEF AInv

(* The operation inside the lock, and those that wait behind it.           *)
LEMMA Inside1 ==
  ASSUME AccessTypes, queue # <<>>
  PROVE  /\ Len(queue) \in Nat /\ 1 \in 1..Len(queue) /\ queue[1] \in Shared!Operation
         /\ Tail(queue) \in Seq(Shared!Operation) /\ Len(Tail(queue)) = Len(queue) - 1
         /\ \A i \in 1..Len(Tail(queue)) : i + 1 \in 1..Len(queue) /\ Tail(queue)[i] = queue[i + 1]
BY DEF AccessTypes

LEMMA Appended ==
  ASSUME AccessTypes, NEW o \in Shared!Operation
  PROVE  /\ Append(queue, o) \in Seq(Shared!Operation) /\ Len(Append(queue, o)) = Len(queue) + 1
         /\ Len(queue) \in Nat /\ Append(queue, o)[Len(queue) + 1] = o
         /\ \A i \in 1..Len(queue) : Append(queue, o)[i] = queue[i]
         /\ queue # <<>> => Append(queue, o)[1] = queue[1]
BY DEF AccessTypes

(* The access that would be created next is new.                           *)
LEMMA NewIsNew ==
  ASSUME AccessTypes, Access # used
  PROVE  Shared!New \in Access /\ Shared!New \notin used
BY DEF AccessTypes, Shared!New

(* A lease stays one, whatever becomes of its fields.                      *)
LEMMA LeaseUpdates ==
  ASSUME NEW l \in Shared!Lease, NEW n \in Nat, NEW t \in BOOLEAN
  PROVE  /\ [l EXCEPT !.timer = t] \in Shared!Lease /\ [l EXCEPT !.references = n] \in Shared!Lease
         /\ [l EXCEPT !.references = n, !.timer = t] \in Shared!Lease
         /\ [l EXCEPT !.cleanupFailed = TRUE, !.timer = t] \in Shared!Lease
BY DEF Shared!Lease

LEMMA FirstLease == Shared!NoLease \in Shared!Lease /\ \A a \in Access :
  [id |-> a, references |-> 1, cleanupFailed |-> FALSE, timer |-> TRUE] \in Shared!Lease
BY DEF Shared!Lease, Shared!NoLease

-----------------------------------------------------------------------------
LEMMA TypesStep == ASSUME AInv, Shared!Assumption, [Shared!Next]_Shared!vars PROVE AccessTypes'
<1> USE DEF AInv
<1>1. CASE UNCHANGED Shared!vars
  BY <1>1 DEF Shared!vars, AccessTypes
<1>2. ASSUME NEW u \in User, Shared!Call(u) PROVE AccessTypes'
  <2>1. [op |-> "acquire", by |-> u, id |-> None] \in Shared!Operation
    BY DEF Shared!Operation
  <2> QED BY <1>2, <2>1, Appended DEF Shared!Call, Shared!Enter, AccessTypes, UserStates
<1>3. ASSUME NEW u \in User, Shared!Release(u) PROVE AccessTypes'
  <2>1. user[u].id \in used
    BY <1>3 DEF Shared!Release, HoldersCounted
  <2>2. [op |-> "release", by |-> u, id |-> user[u].id] \in Shared!Operation
    BY <2>1 DEF Shared!Operation, AccessTypes
  <2> QED BY <1>3, <2>2, Appended DEF Shared!Release, Shared!Enter, AccessTypes, UserStates
<1>4. ASSUME NEW u \in User, Shared!Elapse(u) PROVE AccessTypes'
  BY <1>4 DEF Shared!Elapse, AccessTypes
<1>5. CASE Shared!Fire
  <2>1. shared.id \in Access \cup {None}
    BY DEF AccessTypes, Shared!Lease
  <2>2. [op |-> "reconcile", by |-> None, id |-> shared.id] \in Shared!Operation
    BY <2>1 DEF Shared!Operation
  <2> QED BY <1>5, <2>2, Appended DEF Shared!Fire, Shared!Enter, AccessTypes, Shared!Lease
<1>6. CASE Shared!Share
  <2>1. queue # <<>> /\ Shared!By \in User /\ shared.id \in Access
    <3>1. queue # <<>> /\ queue[1].op = "acquire" /\ shared # Shared!NoLease
      BY <1>6 DEF Shared!Share, Shared!Runs
    <3> QED BY <3>1, Inside1 DEF Shared!By, QueueFits, OperationFits, OneIsKnown, AccessTypes
  <2>2. shared' \in Shared!Lease
    <3>1. shared \in Shared!Lease /\ shared.references + 1 \in Nat
      BY DEF AccessTypes, Shared!Lease
    <3>2. shared' = [shared EXCEPT !.references = shared.references + 1, !.timer = TRUE]
      BY <1>6 DEF Shared!Share
    <3> QED BY <3>1, <3>2, LeaseUpdates
  <2>3. user' \in [User -> UserStates] /\ clock' \in [Access -> SUBSET User]
    BY <1>6, <2>1 DEF Shared!Share, Shared!Holds, AccessTypes, UserStates
  <2>4. queue' \in Seq(Shared!Operation) /\ awaits' \in [call : Calls, id : Access \cup {None}]
    BY <1>6, <2>1, Inside1 DEF Shared!Share, Shared!Unlock, AccessTypes, Shared!Nothing, Calls
  <2> QED BY <1>6, <2>2, <2>3, <2>4 DEF Shared!Share, AccessTypes
<1>7. CASE Shared!Begin
  BY <1>7 DEF Shared!Begin, Shared!Await, AccessTypes, Calls, Shared!Lease
<1>8. CASE Shared!Created
  <2>1. queue # <<>> /\ Shared!By \in User /\ Shared!New \in Access /\ Shared!New \notin used
    BY <1>8, Inside1, NewIsNew DEF Shared!Created, Shared!By, QueueFits, OperationFits, AwaitsFit
  <2>2. shared' \in Shared!Lease
    <3>1. \/ shared' = [id |-> Shared!New, references |-> 1, cleanupFailed |-> FALSE, timer |-> TRUE]
          \/ shared' = shared
      BY <1>8 DEF Shared!Created
    <3> QED BY <2>1, <3>1, FirstLease DEF AccessTypes
  <2>3. user' \in [User -> UserStates]
    BY <1>8, <2>1 DEF Shared!Created, Shared!Holds, AccessTypes, UserStates
  <2>4. clock' \in [Access -> SUBSET User]
    BY <1>8, <2>1 DEF Shared!Created, AccessTypes
  <2>5. queue' \in Seq(Shared!Operation)
    BY <1>8, <2>1, Inside1 DEF Shared!Created, Shared!Unlock, Shared!Await, AccessTypes
  <2>6. awaits' \in [call : Calls, id : Access \cup {None}]
    BY <1>8, <2>1 DEF Shared!Created, Shared!Unlock, Shared!Await, Shared!Nothing, Calls
  <2> QED BY <1>8, <2>1, <2>2, <2>3, <2>4, <2>5, <2>6 DEF Shared!Created, AccessTypes
<1>9. CASE Shared!NotCreated
  <2>1. queue # <<>> /\ Shared!By \in User
    BY <1>9, Inside1 DEF Shared!NotCreated, Shared!By, QueueFits, OperationFits, AwaitsFit
  <2>2. Access # used => Shared!New \in Access /\ Shared!New \notin used
    BY NewIsNew
  <2> QED BY <1>9, <2>1, <2>2, Inside1 DEF Shared!NotCreated, Shared!Idles, Shared!Unlock,
               AccessTypes, Shared!Nothing, Calls, UserStates
<1>10. CASE Shared!Discarded
  <2>1. queue # <<>> /\ Shared!By \in User /\ awaits.id \in exists \ leaked
    BY <1>10, Inside1 DEF Shared!Discarded, Shared!By, QueueFits, OperationFits, AwaitsFit
  <2> QED BY <1>10, <2>1, Inside1 DEF Shared!Discarded, Shared!Idles, Shared!Unlock, AccessTypes,
               Shared!Nothing, Calls, UserStates
<1>11. CASE Shared!ReleaseReference
  <2>1. queue # <<>> /\ Shared!By \in User
    BY <1>11, Inside1 DEF Shared!ReleaseReference, Shared!Runs, Shared!By, QueueFits, OperationFits
  <2>2. shared' \in Shared!Lease
    BY <1>11 DEF Shared!ReleaseReference, AccessTypes, Shared!Lease
  <2>3. user' \in [User -> UserStates]
    BY <1>11, <2>1 DEF Shared!ReleaseReference, Shared!Idles, AccessTypes, UserStates
  <2>4. queue' \in Seq(Shared!Operation)
    BY <1>11, <2>1, Inside1 DEF Shared!ReleaseReference, Shared!Unlock, Shared!Await, AccessTypes
  <2>5. awaits' \in [call : Calls, id : Access \cup {None}]
    BY <1>11 DEF Shared!ReleaseReference, Shared!Unlock, Shared!Await, AccessTypes, Shared!Lease,
         Shared!Nothing, Calls
  <2> QED BY <1>11, <2>2, <2>3, <2>4, <2>5 DEF Shared!ReleaseReference, AccessTypes
<1>12. CASE Shared!Reconcile
  <2>1. shared' \in Shared!Lease
    <3>1. \/ shared' = shared \/ shared' = [shared EXCEPT !.timer = TRUE]
          \/ shared' = [shared EXCEPT !.references = 0]
      BY <1>12 DEF Shared!Reconcile
    <3> QED BY <3>1, LeaseUpdates DEF AccessTypes
  <2>2. queue' \in Seq(Shared!Operation)
    BY <1>12, Inside1 DEF Shared!Reconcile, Shared!Runs, Shared!Unlock, Shared!Await, AccessTypes
  <2>3. awaits' \in [call : Calls, id : Access \cup {None}]
    BY <1>12 DEF Shared!Reconcile, Shared!Unlock, Shared!Await, AccessTypes, Shared!Lease,
         Shared!Nothing, Calls
  <2> QED BY <1>12, <2>1, <2>2, <2>3 DEF Shared!Reconcile, AccessTypes
<1>13. CASE Shared!CleanedUp
  <2>1. queue # <<>> /\ (queue[1].op = "release" => Shared!By \in User) /\ shared.id \notin leaked
    BY <1>13, Inside1 DEF Shared!CleanedUp, Shared!By, QueueFits, OperationFits, AwaitsFit,
         OneIsKnown
  <2>2. user' \in [User -> UserStates]
    BY <1>13, <2>1 DEF Shared!CleanedUp, Shared!Idles, AccessTypes, UserStates
  <2>3. queue' \in Seq(Shared!Operation)
    BY <1>13, <2>1, Inside1 DEF Shared!CleanedUp, Shared!Unlock, Shared!Await, AccessTypes
  <2>4. awaits' \in [call : Calls, id : Access \cup {None}]
    BY <1>13 DEF Shared!CleanedUp, Shared!Unlock, Shared!Await, Shared!Nothing, Calls
  <2> QED BY <1>13, <2>1, <2>2, <2>3, <2>4, FirstLease DEF Shared!CleanedUp, AccessTypes
<1>14. CASE Shared!CleanupFails
  <2>1. queue # <<>> /\ (queue[1].op # "reconcile" => Shared!By \in User) /\ shared.id \notin leaked
    BY <1>14, Inside1 DEF Shared!CleanupFails, Shared!By, QueueFits, OperationFits, AwaitsFit,
         OneIsKnown, Shared!Operation
  <2>2. shared' \in Shared!Lease
    BY <1>14 DEF Shared!CleanupFails, AccessTypes, Shared!Lease
  <2>3. user' \in [User -> UserStates]
    BY <1>14, <2>1 DEF Shared!CleanupFails, Shared!Idles, AccessTypes, UserStates
  <2>4. queue' \in Seq(Shared!Operation) /\ awaits' \in [call : Calls, id : Access \cup {None}]
    BY <1>14, <2>1, Inside1 DEF Shared!CleanupFails, Shared!Unlock, Shared!Nothing, Calls
  <2>5. leaked' \subseteq exists' /\ exists' \subseteq used' /\ used' \subseteq Access /\ clock' = clock
    BY <1>14, <2>1 DEF Shared!CleanupFails, AccessTypes
  <2> QED BY <2>2, <2>3, <2>4, <2>5 DEF AccessTypes
<1>15. CASE Shared!Crash
  BY <1>15 DEF Shared!Crash, AccessTypes, Shared!Lease, Shared!NoLease, Shared!Nothing, Calls,
       UserStates
<1> QED BY <1>1, <1>2, <1>3, <1>4, <1>5, <1>6, <1>7, <1>8, <1>9, <1>10, <1>11, <1>12, <1>13,
             <1>14, <1>15
        DEF Shared!Next, Shared!Inside

-----------------------------------------------------------------------------
(* Who is inside the lock stays there and nobody's state changes, or       *)
(* leaves it and its own may.                                              *)
Stays == queue' = queue /\ user' = user
Leaves ==
  /\ queue' = Tail(queue)
  /\ \/ user' = user
     \/ queue[1].op \in {"acquire", "release"} /\ \E s \in UserStates : user' = [user EXCEPT ![Shared!By] = s]

LEMMA InsideShape == ASSUME AInv, Shared!Inside PROVE queue # <<>> /\ (Stays \/ Leaves)
<1> USE DEF AInv
<1>0. ASSUME Shared!Idles(Shared!By) PROVE \E s \in UserStates : user' = [user EXCEPT ![Shared!By] = s]
  <2>1. [at |-> "idle", id |-> None] \in UserStates
    BY DEF UserStates
  <2> QED BY <1>0, <2>1 DEF Shared!Idles
<1>1. ASSUME NEW a \in Access, Shared!Holds(Shared!By, a)
        PROVE \E s \in UserStates : user' = [user EXCEPT ![Shared!By] = s]
  <2>1. [at |-> "holding", id |-> a] \in UserStates
    BY DEF UserStates
  <2> QED BY <1>1, <2>1 DEF Shared!Holds
<1>2. CASE Shared!Share
  <2>1. shared.id \in Access
    BY <1>2 DEF Shared!Share, OneIsKnown, AccessTypes
  <2> QED BY <1>1, <1>2, <2>1 DEF Shared!Share, Shared!Runs, Shared!Unlock, Leaves
<1>3. CASE Shared!Begin
  BY <1>3 DEF Shared!Begin, Shared!Runs, Shared!Await, Stays
<1>4. CASE Shared!Created
  <2>1. Shared!New \in Access /\ queue # <<>> /\ queue[1].op = "acquire"
    BY <1>4, NewIsNew DEF Shared!Created, AwaitsFit
  <2> QED BY <1>1, <1>4, <2>1 DEF Shared!Created, Shared!Unlock, Shared!Await, Stays, Leaves
<1>5. CASE Shared!NotCreated
  BY <1>0, <1>5 DEF Shared!NotCreated, AwaitsFit, Shared!Unlock, Leaves
<1>6. CASE Shared!Discarded
  BY <1>0, <1>6 DEF Shared!Discarded, AwaitsFit, Shared!Unlock, Leaves
<1>7. CASE Shared!ReleaseReference
  BY <1>0, <1>7 DEF Shared!ReleaseReference, Shared!Runs, Shared!Unlock, Shared!Await, Stays, Leaves
<1>8. CASE Shared!Reconcile
  BY <1>8 DEF Shared!Reconcile, Shared!Runs, Shared!Unlock, Shared!Await, Stays, Leaves
<1>9. CASE Shared!CleanedUp
  BY <1>0, <1>9 DEF Shared!CleanedUp, AwaitsFit, Shared!Unlock, Shared!Await, Stays, Leaves
<1>10. CASE Shared!CleanupFails
  <2>1. queue # <<>> /\ queue[1].op \in {"acquire", "release", "reconcile"}
    BY <1>10, Inside1 DEF Shared!CleanupFails, AwaitsFit, Shared!Operation
  <2> QED BY <1>0, <1>10, <2>1 DEF Shared!CleanupFails, Shared!Unlock, Leaves
<1> QED BY <1>2, <1>3, <1>4, <1>5, <1>6, <1>7, <1>8, <1>9, <1>10 DEF Shared!Inside

(* An operation that joins the queue fits if it is the only one of its     *)
(* user.                                                                   *)
LEMMA JoinerFits ==
  ASSUME AInv, NEW o \in Shared!Operation, queue' = Append(queue, o), OperationFits(o, user'),
         \A i \in 1..Len(queue) : OperationFits(queue[i], user'),
         o.op = "reconcile" \/ \A i \in 1..Len(queue) :
           queue[i].op \in {"acquire", "release"} => queue[i].by # o.by
  PROVE  QueueFits'
<1>1. /\ Len(queue') = Len(queue) + 1 /\ Len(queue) \in Nat /\ queue'[Len(queue) + 1] = o
      /\ \A i \in 1..Len(queue) : queue'[i] = queue[i]
  BY Appended DEF AInv
<1>2. \A i \in 1..Len(queue') : i \in 1..Len(queue) \/ i = Len(queue) + 1
  BY <1>1
<1>3. \A i \in 1..Len(queue') : OperationFits(queue'[i], user')
  BY <1>1, <1>2
<1>4. ASSUME NEW i \in 1..Len(queue'), NEW j \in 1..Len(queue'),
             {queue'[i].op, queue'[j].op} \subseteq {"acquire", "release"}, queue'[i].by = queue'[j].by
      PROVE  i = j
  BY <1>1, <1>2, <1>4 DEF AInv, QueueFits
<1> QED BY <1>3, <1>4 DEF QueueFits, OperationFits

LEMMA QueueStep == ASSUME AInv, [Shared!Next]_Shared!vars PROVE QueueFits'
<1> USE DEF AInv
<1>0. \A i \in 1..Len(queue) : OperationFits(queue[i], user) /\ queue[i] \in Shared!Operation
  BY DEF AccessTypes, QueueFits
<1>1. CASE UNCHANGED Shared!vars
  BY <1>1 DEF Shared!vars, QueueFits, OperationFits
<1>2. ASSUME NEW u \in User, Shared!Call(u) PROVE QueueFits'
  <2> DEFINE o == [op |-> "acquire", by |-> u, id |-> None]
  <2>1. o \in Shared!Operation /\ queue' = Append(queue, o) /\ user[u].at = "idle"
    BY <1>2 DEF Shared!Operation, Shared!Call, Shared!Enter
  <2>2. user'[u].at = "waiting" /\ \A v \in User \ {u} : user'[v] = user[v]
    BY <1>2 DEF Shared!Call, AccessTypes
  <2>3. OperationFits(o, user')
    BY <2>2 DEF OperationFits
  <2>4. ASSUME NEW i \in 1..Len(queue)
        PROVE  OperationFits(queue[i], user') /\ (queue[i].op \in {"acquire", "release"} => queue[i].by # u)
    BY <1>0, <2>1, <2>2 DEF OperationFits
  <2> QED BY <2>1, <2>3, <2>4, JoinerFits
<1>3. ASSUME NEW u \in User, Shared!Release(u) PROVE QueueFits'
  <2> DEFINE o == [op |-> "release", by |-> u, id |-> user[u].id]
  <2>1. user[u].id \in Access /\ user[u].at = "holding"
    BY <1>3 DEF Shared!Release, HoldersCounted, AccessTypes
  <2>2. o \in Shared!Operation /\ queue' = Append(queue, o)
    BY <1>3, <2>1 DEF Shared!Operation, Shared!Release, Shared!Enter
  <2>3. user'[u] = [at |-> "releasing", id |-> user[u].id] /\ \A v \in User \ {u} : user'[v] = user[v]
    <3>1. user' = [user EXCEPT ![u].at = "releasing"] /\ user[u] \in UserStates
      BY <1>3 DEF Shared!Release, AccessTypes
    <3> QED BY <3>1 DEF AccessTypes, UserStates
  <2>4. OperationFits(o, user')
    BY <2>1, <2>3 DEF OperationFits
  <2>5. ASSUME NEW i \in 1..Len(queue)
        PROVE  OperationFits(queue[i], user') /\ (queue[i].op \in {"acquire", "release"} => queue[i].by # u)
    BY <1>0, <2>1, <2>3 DEF OperationFits
  <2> QED BY <2>2, <2>4, <2>5, JoinerFits
<1>4. ASSUME NEW u \in User, Shared!Elapse(u) PROVE QueueFits'
  BY <1>4 DEF Shared!Elapse, QueueFits, OperationFits
<1>5. CASE Shared!Fire
  <2> DEFINE o == [op |-> "reconcile", by |-> None, id |-> shared.id]
  <2>1. shared # Shared!NoLease /\ shared.id \in Access
    BY <1>5 DEF Shared!Fire, Shared!NoLease, OneIsKnown, AccessTypes
  <2>2. o \in Shared!Operation /\ queue' = Append(queue, o) /\ user' = user
    BY <1>5, <2>1 DEF Shared!Operation, Shared!Fire, Shared!Enter
  <2>3. OperationFits(o, user') /\ \A i \in 1..Len(queue) : OperationFits(queue[i], user')
    BY <1>0, <2>1, <2>2 DEF OperationFits
  <2> QED BY <2>2, <2>3, JoinerFits
<1>6. CASE Shared!Inside
  <2>1. queue # <<>> /\ (Stays \/ Leaves)
    BY <1>6, InsideShape
  <2>2. CASE Stays
    BY <2>2 DEF Stays, QueueFits, OperationFits
  <2>3. CASE Leaves
    <3>1. /\ \A i \in 1..Len(queue') : i + 1 \in 1..Len(queue) /\ i + 1 # 1 /\ queue'[i] = queue[i + 1]
          /\ 1 \in 1..Len(queue)
      BY <2>1, <2>3, Inside1 DEF Leaves
    <3>2. ASSUME NEW i \in 1..Len(queue') PROVE OperationFits(queue'[i], user')
      <4>1. CASE user' = user
        BY <1>0, <3>1, <4>1 DEF OperationFits
      <4>2. ASSUME queue[1].op \in {"acquire", "release"},
                   NEW s \in UserStates, user' = [user EXCEPT ![Shared!By] = s]
            PROVE  OperationFits(queue'[i], user')
        <5>1. queue'[i].op \in {"acquire", "release"} => queue'[i].by # Shared!By
          BY <3>1, <4>2 DEF QueueFits, Shared!By
        <5> QED BY <1>0, <3>1, <4>2, <5>1 DEF OperationFits, AccessTypes
      <4> QED BY <2>3, <4>1, <4>2 DEF Leaves
    <3>3. ASSUME NEW i \in 1..Len(queue'), NEW j \in 1..Len(queue'),
                 {queue'[i].op, queue'[j].op} \subseteq {"acquire", "release"}, queue'[i].by = queue'[j].by
          PROVE  i = j
      <4>1. i + 1 = j + 1
        BY <3>1, <3>3 DEF QueueFits
      <4> QED BY <4>1
    <3> QED BY <3>2, <3>3 DEF QueueFits, OperationFits
  <2> QED BY <2>1, <2>2, <2>3
<1>7. CASE Shared!Crash
  BY <1>7 DEF Shared!Crash, QueueFits
<1> QED BY <1>1, <1>2, <1>3, <1>4, <1>5, <1>6, <1>7 DEF Shared!Next

-----------------------------------------------------------------------------
(* A registered lease names an access.                                     *)
LEMMA LeaseHasId ==
  ASSUME Shared!Assumption, AInv
  PROVE  /\ shared # Shared!NoLease <=> shared.id # None
         /\ shared # Shared!NoLease => shared.id \in Access /\ shared.id \in used /\ shared.id \notin leaked
         /\ None \notin used
BY DEF AInv, OneIsKnown, AccessTypes, Shared!NoLease, Shared!Assumption

LEMMA KnownStep == ASSUME AInv, Shared!Assumption, [Shared!Next]_Shared!vars PROVE AwaitsFit' /\ OneIsKnown'
<1> USE DEF AInv
<1> USE LeaseHasId
<1>1. CASE UNCHANGED Shared!vars
  BY <1>1 DEF Shared!vars, AwaitsFit, OneIsKnown
<1>2. ASSUME UNCHANGED <<shared, awaits, exists, leaked, used>>, queue' = queue
        \/ \E o \in Shared!Operation : queue' = Append(queue, o)
      PROVE  AwaitsFit' /\ OneIsKnown'
  <2>1. queue # <<>> => queue' # <<>> /\ queue'[1] = queue[1]
    BY <1>2, Appended
  <2> QED BY <1>2, <2>1 DEF AwaitsFit, OneIsKnown
<1>3. ASSUME NEW u \in User, Shared!Call(u) \/ Shared!Release(u) \/ Shared!Elapse(u) PROVE AwaitsFit' /\ OneIsKnown'
  <2>1. user[u].at = "holding" => user[u].id \in Access
    BY DEF HoldersCounted, AccessTypes
  <2>2. queue' = queue \/ \E o \in Shared!Operation : queue' = Append(queue, o)
    BY <1>3, <2>1 DEF Shared!Call, Shared!Release, Shared!Elapse, Shared!Enter, Shared!Operation
  <2> QED BY <1>2, <1>3, <2>2 DEF Shared!Call, Shared!Release, Shared!Elapse
<1>4. CASE Shared!Fire
  <2>1. shared # Shared!NoLease /\ shared' = [shared EXCEPT !.timer = FALSE] /\ shared \in Shared!Lease
    BY <1>4 DEF Shared!Fire, Shared!NoLease, AccessTypes
  <2>2. /\ shared'.id = shared.id /\ shared'.references = shared.references
        /\ shared'.cleanupFailed = shared.cleanupFailed /\ shared' # Shared!NoLease
    BY <2>1 DEF Shared!Lease, Shared!NoLease
  <2>3. [op |-> "reconcile", by |-> None, id |-> shared.id] \in Shared!Operation
    BY <2>1 DEF Shared!Operation
  <2>4. queue # <<>> => queue' # <<>> /\ queue'[1] = queue[1]
    BY <1>4, <2>3, Appended DEF Shared!Fire, Shared!Enter
  <2>5. AwaitsFit'
    BY <1>4, <2>1, <2>2, <2>4 DEF Shared!Fire, AwaitsFit
  <2>6. OneIsKnown'
    BY <1>4, <2>1, <2>2 DEF Shared!Fire, OneIsKnown
  <2> QED BY <2>5, <2>6
<1>5. CASE Shared!Share
  <2>1. /\ shared # Shared!NoLease /\ ~Shared!Abandoned /\ awaits = Shared!Nothing
          /\ awaits' = Shared!Nothing /\ shared \in Shared!Lease
        /\ shared' = [shared EXCEPT !.references = @ + 1, !.timer = TRUE]
    BY <1>5 DEF Shared!Share, Shared!Runs, Shared!Unlock, AccessTypes
  <2>2. ~shared.cleanupFailed
    BY <2>1 DEF Shared!Abandoned, OneIsKnown
  <2>3. shared'.id = shared.id /\ shared'.cleanupFailed = shared.cleanupFailed /\ shared' # Shared!NoLease
    BY <2>1 DEF Shared!Lease, Shared!NoLease
  <2>4. AwaitsFit'
    BY <2>1 DEF AwaitsFit, Shared!Nothing
  <2>5. OneIsKnown'
    BY <1>5, <2>1, <2>2, <2>3 DEF Shared!Share, OneIsKnown, Shared!Nothing
  <2> QED BY <2>4, <2>5
<1>6. CASE Shared!Begin
  <2>1. queue # <<>> /\ awaits = Shared!Nothing /\ queue' = queue /\ queue[1].op = "acquire"
        /\ UNCHANGED <<shared, exists, leaked, used>>
    BY <1>6 DEF Shared!Begin, Shared!Runs, Shared!Await
  <2>2. \/ shared = Shared!NoLease /\ awaits' = [call |-> "create", id |-> None]
        \/ shared # Shared!NoLease /\ shared.references = 0 /\ awaits' = [call |-> "cleanup", id |-> shared.id]
    BY <1>6 DEF Shared!Begin, Shared!Await, Shared!Abandoned
  <2> QED BY <2>1, <2>2 DEF AwaitsFit, OneIsKnown, Shared!Nothing
<1>7. CASE Shared!Created
  <2>1. queue # <<>> /\ shared = Shared!NoLease
        /\ Shared!New \in Access /\ Shared!New \notin used /\ Shared!New # None
        /\ queue[1].op = "acquire" /\ awaits.call = "create"
    BY <1>7, NewIsNew DEF Shared!Created, AwaitsFit, Shared!Assumption
  <2>2. used' = used \cup {Shared!New} /\ exists' = exists \cup {Shared!New}
          /\ leaked' = leaked /\ Shared!New \notin leaked
    BY <1>7, <2>1 DEF Shared!Created, AccessTypes
  <2>3. \/ /\ shared' = [id |-> Shared!New, references |-> 1, cleanupFailed |-> FALSE, timer |-> TRUE]
           /\ awaits' = Shared!Nothing
        \/ shared' = shared /\ queue' = queue /\ awaits' = [call |-> "discard", id |-> Shared!New]
    BY <1>7 DEF Shared!Created, Shared!Unlock, Shared!Await
  <2>4. AwaitsFit'
    <3>1. CASE awaits' = Shared!Nothing
      BY <3>1 DEF AwaitsFit, Shared!Nothing
    <3>2. CASE shared' = shared /\ queue' = queue /\ awaits' = [call |-> "discard", id |-> Shared!New]
      BY <2>1, <2>2, <3>2 DEF AwaitsFit
    <3> QED BY <2>3, <3>1, <3>2
  <2>5. exists \ leaked = {}
    BY <2>1 DEF OneIsKnown, AccessTypes
  <2>6. OneIsKnown'
    BY <2>1, <2>2, <2>3, <2>5 DEF OneIsKnown, Shared!Nothing, Shared!NoLease
  <2> QED BY <2>4, <2>6
<1>8. CASE Shared!NotCreated
  <2>1. shared = Shared!NoLease /\ shared' = shared /\ awaits' = Shared!Nothing /\ awaits.call = "create"
    BY <1>8 DEF Shared!NotCreated, AwaitsFit, Shared!Unlock
  <2>2. exists' \ leaked' \subseteq exists \ leaked
    BY <1>8 DEF Shared!NotCreated
  <2> QED BY <2>1, <2>2 DEF AwaitsFit, OneIsKnown, Shared!Nothing, Shared!NoLease
<1>9. CASE Shared!Discarded
  <2>1. shared = Shared!NoLease /\ shared' = shared /\ awaits' = Shared!Nothing /\ awaits.call = "discard"
    BY <1>9 DEF Shared!Discarded, AwaitsFit, Shared!Unlock
  <2>2. exists' \ leaked' \subseteq (exists \ leaked) \ {awaits.id}
    BY <1>9 DEF Shared!Discarded
  <2> QED BY <2>1, <2>2 DEF AwaitsFit, OneIsKnown, Shared!Nothing, Shared!NoLease
<1>10. CASE Shared!ReleaseReference
  <2>1. queue # <<>> /\ awaits = Shared!Nothing /\ queue[1].op = "release" /\ UNCHANGED <<exists, leaked, used>>
        /\ queue[1].id \in Access
    <3>1. Shared!Runs("release") /\ UNCHANGED <<exists, leaked, used>>
      BY <1>10 DEF Shared!ReleaseReference
    <3>2. queue # <<>> /\ 1 \in 1..Len(queue)
      BY <3>1, Inside1 DEF Shared!Runs
    <3>3. OperationFits(queue[1], user)
      BY <3>2 DEF QueueFits
    <3> QED BY <3>1, <3>2, <3>3 DEF Shared!Runs, OperationFits
  <2>2. CASE shared' = shared /\ awaits' = Shared!Nothing
    BY <2>1, <2>2 DEF AwaitsFit, OneIsKnown, Shared!Nothing
  <2>3. CASE Shared!Mine /\ ~(shared' = shared /\ awaits' = Shared!Nothing)
    <3>1. shared # Shared!NoLease /\ shared \in Shared!Lease
      BY <2>1, <2>3 DEF Shared!Mine, Shared!Assumption, Shared!NoLease, AccessTypes
    <3>2. PICK n \in Nat :
            /\ n = IF shared.references = 0 THEN 0 ELSE shared.references - 1
            /\ shared' = [shared EXCEPT !.references = n]
            /\ \/ n > 0 /\ awaits' = Shared!Nothing
               \/ n = 0 /\ queue' = queue /\ awaits' = [call |-> "cleanup", id |-> shared.id]
      <4>1. shared.references \in Nat
        BY <3>1 DEF Shared!Lease
      <4>2. (IF shared.references = 0 THEN 0 ELSE shared.references - 1) \in Nat
        BY <4>1
      <4> QED BY <1>10, <2>3, <4>2 DEF Shared!ReleaseReference, Shared!Unlock, Shared!Await
    <3>3. shared'.id = shared.id /\ shared'.cleanupFailed = shared.cleanupFailed
          /\ shared'.references = n /\ shared' # Shared!NoLease
      BY <3>1, <3>2 DEF Shared!Lease, Shared!NoLease
    <3>4. AwaitsFit'
      BY <2>1, <3>2, <3>3 DEF AwaitsFit, Shared!Nothing
    <3>5. OneIsKnown'
      BY <2>1, <3>1, <3>2, <3>3 DEF OneIsKnown, Shared!Nothing
    <3> QED BY <3>4, <3>5
  <2> QED BY <1>10, <2>2, <2>3 DEF Shared!ReleaseReference, Shared!Unlock
<1>11. CASE Shared!Reconcile
  <2>1. queue # <<>> /\ awaits = Shared!Nothing /\ queue[1].op = "reconcile" /\ UNCHANGED <<exists, leaked, used>>
        /\ queue[1].id \in Access
    <3>1. Shared!Runs("reconcile") /\ UNCHANGED <<exists, leaked, used>>
      BY <1>11 DEF Shared!Reconcile
    <3>2. queue # <<>> /\ 1 \in 1..Len(queue)
      BY <3>1, Inside1 DEF Shared!Runs
    <3>3. OperationFits(queue[1], user)
      BY <3>2 DEF QueueFits
    <3> QED BY <3>1, <3>2, <3>3 DEF Shared!Runs, OperationFits
  <2>2. CASE shared' = shared /\ awaits' = Shared!Nothing
    BY <2>1, <2>2 DEF AwaitsFit, OneIsKnown, Shared!Nothing
  <2>3. CASE Shared!Mine /\ ~(shared' = shared /\ awaits' = Shared!Nothing)
    <3>1. shared # Shared!NoLease /\ shared \in Shared!Lease
      BY <2>1, <2>3 DEF Shared!Mine, Shared!Assumption, Shared!NoLease, AccessTypes
    <3>2. \/ shared' = [shared EXCEPT !.timer = TRUE] /\ awaits' = Shared!Nothing
          \/ /\ shared' = [shared EXCEPT !.references = 0] /\ queue' = queue
             /\ awaits' = [call |-> "cleanup", id |-> shared.id]
      BY <1>11, <2>3 DEF Shared!Reconcile, Shared!Unlock, Shared!Await
    <3>3. shared'.id = shared.id /\ shared'.cleanupFailed = shared.cleanupFailed
          /\ shared'.references \in {0, shared.references} /\ shared' # Shared!NoLease
      BY <3>1, <3>2 DEF Shared!Lease, Shared!NoLease
    <3>4. awaits'.call = "cleanup" => shared'.references = 0
      BY <3>1, <3>2 DEF Shared!Lease, Shared!Nothing
    <3>5. AwaitsFit'
      BY <2>1, <3>2, <3>3, <3>4 DEF AwaitsFit, Shared!Nothing
    <3>6. OneIsKnown'
      BY <2>1, <3>1, <3>2, <3>3 DEF OneIsKnown, Shared!Nothing
    <3> QED BY <3>5, <3>6
  <2> QED BY <1>11, <2>2, <2>3 DEF Shared!Reconcile, Shared!Unlock
<1>12. CASE Shared!CleanedUp
  <2>1. queue # <<>> /\ shared # Shared!NoLease /\ awaits.call = "cleanup" /\ shared' = Shared!NoLease
        /\ exists' = exists \ {shared.id} /\ UNCHANGED <<leaked, used>>
    BY <1>12 DEF Shared!CleanedUp, AwaitsFit
  <2>2. \/ queue[1].op = "acquire" /\ queue' = queue /\ awaits' = [call |-> "create", id |-> None]
        \/ awaits' = Shared!Nothing
    BY <1>12 DEF Shared!CleanedUp, Shared!Unlock, Shared!Await
  <2> QED BY <2>1, <2>2 DEF AwaitsFit, OneIsKnown, Shared!Nothing, Shared!NoLease
<1>13. CASE Shared!CleanupFails
  <2>1. queue # <<>> /\ shared # Shared!NoLease /\ shared.references = 0
          /\ awaits.call = "cleanup" /\ awaits' = Shared!Nothing
        /\ exists' \subseteq exists /\ UNCHANGED <<leaked, used>>
    BY <1>13 DEF Shared!CleanupFails, AwaitsFit, Shared!Unlock
  <2>2. shared'.id = shared.id /\ shared'.references = 0 /\ shared'.cleanupFailed = TRUE
    BY <1>13, <2>1 DEF Shared!CleanupFails, AccessTypes, Shared!Lease
  <2>3. shared' # Shared!NoLease
    BY <2>2 DEF Shared!NoLease
  <2> QED BY <2>1, <2>2, <2>3 DEF AwaitsFit, OneIsKnown, Shared!Nothing
<1>14. CASE Shared!Crash
  BY <1>14 DEF Shared!Crash, AwaitsFit, OneIsKnown, Shared!Nothing, Shared!NoLease
<1> QED BY <1>1, <1>3, <1>4, <1>5, <1>6, <1>7, <1>8, <1>9, <1>10, <1>11, <1>12, <1>13, <1>14
           DEF Shared!Next, Shared!Inside

-----------------------------------------------------------------------------
(* What waits behind the lock still waits when it is passed on.            *)
LEMMA StillWaits ==
  ASSUME AInv, queue # <<>>, queue' = Tail(queue), NEW i \in 1..Len(queue), i # 1
  PROVE  \E j \in 1..Len(queue') : queue'[j] = queue[i]
<1>1. i - 1 \in 1..Len(queue') /\ queue'[i - 1] = queue[(i - 1) + 1]
  BY Inside1 DEF AInv
<1>2. (i - 1) + 1 = i
  OBVIOUS
<1> QED BY <1>1, <1>2

LEMMA TimerStep == ASSUME Shared!Assumption, AInv, [Shared!Next]_Shared!vars PROVE TimerIsSet'
<1> USE DEF AInv
<1> DEFINE Due(i) == queue[i].op = "reconcile" /\ queue[i].id = shared.id
<1>1. CASE UNCHANGED Shared!vars
  BY <1>1 DEF Shared!vars, TimerIsSet
<1>2. ASSUME NEW u \in User, Shared!Call(u) \/ Shared!Release(u) \/ Shared!Elapse(u) PROVE TimerIsSet'
  <2>1. user[u].at = "holding" => user[u].id \in Access
    BY DEF HoldersCounted, AccessTypes
  <2>2. queue' = queue \/ \E o \in Shared!Operation : queue' = Append(queue, o)
    BY <1>2, <2>1 DEF Shared!Call, Shared!Release, Shared!Elapse, Shared!Enter, Shared!Operation
  <2>3. UNCHANGED <<shared, awaits>>
    BY <1>2 DEF Shared!Call, Shared!Release, Shared!Elapse
  <2>4. /\ queue # <<>> => queue'[1] = queue[1]
        /\ \A i \in 1..Len(queue) : i \in 1..Len(queue') /\ queue'[i] = queue[i]
    BY <2>2, Appended
  <2>5. awaits.call = "cleanup" => queue # <<>>
    BY DEF AwaitsFit
  <2> QED BY <2>3, <2>4, <2>5 DEF TimerIsSet
<1>3. CASE Shared!Fire
  <2>1. shared.id \in Access /\ shared'.id = shared.id
    BY <1>3, LeaseHasId DEF Shared!Fire, Shared!NoLease, AccessTypes, Shared!Lease
  <2>2. [op |-> "reconcile", by |-> None, id |-> shared.id] \in Shared!Operation
    BY <2>1 DEF Shared!Operation
  <2>3. Len(queue) + 1 \in 1..Len(queue')
        /\ queue'[Len(queue) + 1] = [op |-> "reconcile", by |-> None, id |-> shared.id]
    BY <1>3, <2>2, Appended DEF Shared!Fire, Shared!Enter
  <2> QED BY <2>1, <2>3 DEF TimerIsSet
<1>4. CASE shared' = Shared!NoLease
  BY <1>4 DEF TimerIsSet
<1>5. CASE Shared!Share
  <2>1. shared'.timer = TRUE
    BY <1>5 DEF Shared!Share, AccessTypes, Shared!Lease
  <2> QED BY <2>1 DEF TimerIsSet
<1>6. CASE Shared!Begin
  BY <1>6 DEF Shared!Begin, Shared!Runs, Shared!Await, Shared!Nothing, TimerIsSet
<1>7. CASE Shared!Created
  <2>1. shared' = Shared!NoLease \/ shared'.timer = TRUE
    BY <1>7 DEF Shared!Created, AwaitsFit
  <2> QED BY <2>1 DEF TimerIsSet
<1>8. CASE Shared!NotCreated \/ Shared!Discarded
  <2>1. shared' = Shared!NoLease
    BY <1>8 DEF Shared!NotCreated, Shared!Discarded, AwaitsFit
  <2> QED BY <2>1 DEF TimerIsSet
<1>9. CASE Shared!ReleaseReference
  <2>1. queue # <<>> /\ awaits.call = "none" /\ queue[1].op = "release"
    BY <1>9 DEF Shared!ReleaseReference, Shared!Runs, Shared!Nothing
  <2>2. (awaits'.call = "cleanup" /\ queue' = queue) \/ queue' = Tail(queue)
    BY <1>9 DEF Shared!ReleaseReference, Shared!Unlock, Shared!Await
  <2>3. shared' # Shared!NoLease => shared # Shared!NoLease /\ shared'.id = shared.id /\ shared'.timer = shared.timer
    <3>1. shared' = shared \/ \E n : shared' = [shared EXCEPT !.references = n]
      BY <1>9 DEF Shared!ReleaseReference
    <3>2. queue[1].id # None
      BY <2>1, Inside1, LeaseHasId DEF QueueFits, OperationFits, Shared!Assumption
    <3>3. shared' = shared \/ shared # Shared!NoLease
      BY <1>9, <3>2 DEF Shared!ReleaseReference, Shared!Mine, Shared!NoLease
    <3> QED BY <3>1, <3>3 DEF AccessTypes, Shared!Lease
  <2>4. shared # Shared!NoLease => shared.timer \/ \E i \in 1..Len(queue) : i # 1 /\ Due(i)
    BY <2>1 DEF TimerIsSet
  <2> QED BY <2>1, <2>2, <2>3, <2>4, StillWaits DEF TimerIsSet
<1>10. CASE Shared!Reconcile
  <2>1. queue # <<>> /\ awaits.call = "none" /\ queue[1].op = "reconcile"
    BY <1>10 DEF Shared!Reconcile, Shared!Runs, Shared!Nothing
  <2>2. CASE ~Shared!Mine /\ queue' = Tail(queue) /\ shared' = shared
    <3>1. shared # Shared!NoLease => shared.timer \/ \E i \in 1..Len(queue) : i # 1 /\ Due(i)
      BY <2>1, <2>2 DEF TimerIsSet, Shared!Mine
    <3> QED BY <2>1, <2>2, <3>1, StillWaits DEF TimerIsSet
  <2>3. CASE shared' = [shared EXCEPT !.timer = TRUE]
    BY <2>3 DEF TimerIsSet, AccessTypes, Shared!Lease
  <2>4. CASE awaits'.call = "cleanup" /\ queue' = queue
    BY <2>1, <2>4 DEF TimerIsSet
  <2> QED BY <1>10, <2>2, <2>3, <2>4 DEF Shared!Reconcile, Shared!Unlock, Shared!Await
<1>11. CASE Shared!CleanupFails
  <2>1. queue # <<>> /\ shared # Shared!NoLease /\ awaits.call = "cleanup" /\ queue' = Tail(queue)
    BY <1>11 DEF Shared!CleanupFails, AwaitsFit, Shared!Unlock
  <2>2. shared'.id = shared.id /\ shared'.timer = (shared.timer \/ queue[1].op # "acquire")
    BY <1>11 DEF Shared!CleanupFails, AccessTypes, Shared!Lease
  <2>3. shared'.timer \/ \E i \in 1..Len(queue) : i # 1 /\ Due(i)
    BY <2>1, <2>2 DEF TimerIsSet
  <2> QED BY <2>1, <2>2, <2>3, StillWaits DEF TimerIsSet
<1> QED BY <1>1, <1>2, <1>3, <1>4, <1>5, <1>6, <1>7, <1>8, <1>9, <1>10, <1>11
        DEF Shared!Next, Shared!Inside, Shared!CleanedUp, Shared!Crash

-----------------------------------------------------------------------------
LEMMA HeldStep == ASSUME Shared!Assumption, AInv, [Shared!Next]_Shared!vars PROVE HeldIsShared'
<1> USE DEF AInv
<1> DEFINE Held(u) == user[u].at = "holding" /\ u \in clock[user[u].id]
<1>0. \A u \in User : Held(u) => shared # Shared!NoLease
  BY LeaseHasId DEF HeldIsShared, HoldersCounted
<1>1. CASE UNCHANGED Shared!vars
  BY <1>1 DEF Shared!vars, HeldIsShared
<1>2. ASSUME \A u \in User : Held(u)' => Held(u) /\ user'[u].id = user[u].id,
             shared'.id = shared.id, shared'.cleanupFailed = shared.cleanupFailed,
             awaits'.call # "cleanup" \/ awaits' = awaits
      PROVE  HeldIsShared'
  BY <1>2 DEF HeldIsShared
<1>3. ASSUME NEW u \in User, Shared!Call(u) \/ Shared!Release(u) \/ Shared!Elapse(u) PROVE HeldIsShared'
  <2>1. \A v \in User : Held(v)' => Held(v) /\ user'[v].id = user[v].id
    <3>1. CASE Shared!Call(u)
      BY <3>1 DEF Shared!Call, AccessTypes
    <3>2. CASE Shared!Release(u)
      BY <3>2 DEF Shared!Release, AccessTypes
    <3>3. CASE Shared!Elapse(u)
      BY <3>3 DEF Shared!Elapse, AccessTypes
    <3> QED BY <1>3, <3>1, <3>2, <3>3
  <2> QED BY <1>2, <1>3, <2>1 DEF Shared!Call, Shared!Release, Shared!Elapse
<1>4. CASE Shared!Fire
  <2>1. shared'.id = shared.id /\ shared'.cleanupFailed = shared.cleanupFailed
    BY <1>4 DEF Shared!Fire, AccessTypes, Shared!Lease
  <2> QED BY <1>2, <1>4, <2>1 DEF Shared!Fire
<1>5. CASE Shared!Share
  <2>1. queue # <<>> /\ Shared!By \in User /\ shared # Shared!NoLease /\ ~shared.cleanupFailed /\ awaits' = Shared!Nothing
        /\ shared.id \in Access
    <3>1. queue # <<>> /\ queue[1].op = "acquire" /\ shared # Shared!NoLease
            /\ ~Shared!Abandoned /\ awaits' = Shared!Nothing
      BY <1>5 DEF Shared!Share, Shared!Runs, Shared!Unlock
    <3> QED BY <3>1, Inside1, LeaseHasId
               DEF Shared!By, QueueFits, OperationFits, Shared!Abandoned, OneIsKnown
  <2>2. shared'.id = shared.id /\ shared'.cleanupFailed = shared.cleanupFailed
    BY <1>5 DEF Shared!Share, AccessTypes, Shared!Lease
  <2>3. user' = [user EXCEPT ![Shared!By] = [at |-> "holding", id |-> shared.id]]
        /\ clock' = [clock EXCEPT ![shared.id] = @ \cup {Shared!By}]
    BY <1>5 DEF Shared!Share, Shared!Holds
  <2>4. \A u \in User : Held(u)' => \/ Held(u) /\ user'[u].id = user[u].id
                                    \/ u = Shared!By /\ user'[u].id = shared.id
    BY <2>1, <2>3 DEF AccessTypes
  <2> QED BY <2>1, <2>2, <2>4 DEF HeldIsShared, Shared!Nothing
<1>6. CASE Shared!Begin
  <2>1. CASE shared = Shared!NoLease
    BY <1>0, <1>6, <2>1 DEF Shared!Begin, HeldIsShared
  <2>2. CASE shared.cleanupFailed
    BY <1>6, <2>2 DEF Shared!Begin, HeldIsShared
  <2> QED BY <1>6, <2>1, <2>2 DEF Shared!Begin, Shared!Abandoned
<1>7. ASSUME NEW s \in UserStates, Shared!By \in User, s.at # "holding", user' = user
        \/ user' = [user EXCEPT ![Shared!By] = s],
             clock' = clock
      PROVE  \A u \in User : Held(u)' => Held(u) /\ user'[u].id = user[u].id
  BY <1>7 DEF AccessTypes
<1>8. [at |-> "idle", id |-> None] \in UserStates
  BY DEF UserStates
<1>9. CASE Shared!Created
  <2>1. queue # <<>> /\ Shared!By \in User /\ shared = Shared!NoLease
    <3>1. queue # <<>> /\ queue[1].op = "acquire" /\ shared = Shared!NoLease
      BY <1>9 DEF Shared!Created, AwaitsFit
    <3> QED BY <3>1, Inside1 DEF Shared!By, QueueFits, OperationFits
  <2>2. \A u \in User : ~Held(u)
    BY <1>0, <2>1
  <2>3. CASE shared' = shared /\ UNCHANGED <<clock, user>>
    BY <2>2, <2>3 DEF HeldIsShared
  <2>4. CASE ~(shared' = shared /\ UNCHANGED <<clock, user>>)
    <3>1. /\ shared' = [id |-> Shared!New, references |-> 1, cleanupFailed |-> FALSE, timer |-> TRUE]
          /\ clock' = [clock EXCEPT ![Shared!New] = {Shared!By}] /\ awaits' = Shared!Nothing
          /\ user' = [user EXCEPT ![Shared!By] = [at |-> "holding", id |-> Shared!New]]
      BY <1>9, <2>4 DEF Shared!Created, Shared!Holds, Shared!Unlock
    <3>2. Shared!New \in Access
      BY <1>9, NewIsNew DEF Shared!Created
    <3>3. ASSUME NEW u \in User, Held(u)' PROVE user'[u].id = Shared!New
      <4>1. CASE u = Shared!By
        BY <2>1, <3>1, <4>1 DEF AccessTypes
      <4>2. CASE u # Shared!By
        BY <2>2, <3>1, <3>2, <3>3, <4>2 DEF AccessTypes
      <4> QED BY <4>1, <4>2
    <3> QED BY <3>1, <3>3 DEF HeldIsShared, Shared!Nothing
  <2> QED BY <2>3, <2>4
<1>10. CASE Shared!NotCreated \/ Shared!Discarded
  <2>1. Shared!By \in User /\ shared = Shared!NoLease
    <3>1. queue # <<>> /\ queue[1].op = "acquire" /\ shared = Shared!NoLease
      BY <1>10 DEF Shared!NotCreated, Shared!Discarded, AwaitsFit
    <3> QED BY <3>1, Inside1 DEF Shared!By, QueueFits, OperationFits
  <2>2. \A u \in User : Held(u)' => Held(u)
    BY <1>7, <1>8, <1>10, <2>1 DEF Shared!NotCreated, Shared!Discarded, Shared!Idles
  <2> QED BY <1>0, <2>1, <2>2 DEF HeldIsShared
<1>11. CASE Shared!CleanedUp \/ Shared!CleanupFails
  <2>1. queue # <<>> /\ awaits.call = "cleanup"
    BY <1>11 DEF Shared!CleanedUp, Shared!CleanupFails, AwaitsFit
  <2>2. \A u \in User : Held(u)' => Held(u)
    <3>1. user' = user \/ (Shared!By \in User /\ user' = [user EXCEPT ![Shared!By] = [at |-> "idle", id |-> None]])
      BY <1>11, <2>1, Inside1 DEF Shared!CleanedUp, Shared!CleanupFails, Shared!Idles, Shared!By,
           QueueFits, OperationFits, Shared!Operation
    <3>2. clock' = clock
      BY <1>11 DEF Shared!CleanedUp, Shared!CleanupFails
    <3> QED BY <1>7, <1>8, <3>1, <3>2
  <2> QED BY <2>1, <2>2 DEF HeldIsShared
<1>12. CASE Shared!Reconcile
  <2>1. \/ shared' = shared \/ shared' = [shared EXCEPT !.timer = TRUE]
        \/ shared' = [shared EXCEPT !.references = 0]
    BY <1>12 DEF Shared!Reconcile
  <2>2. shared'.id = shared.id /\ shared'.cleanupFailed = shared.cleanupFailed
    BY <2>1 DEF AccessTypes, Shared!Lease
  <2>3. awaits'.call # "cleanup" \/ clock[shared.id] = {}
    BY <1>12 DEF Shared!Reconcile, Shared!Expired, Shared!Unlock, Shared!Nothing
  <2> QED BY <1>12, <2>2, <2>3 DEF Shared!Reconcile, HeldIsShared
<1>13. CASE Shared!ReleaseReference
  <2>1. queue # <<>> /\ Shared!By \in User /\ user[Shared!By] = [at |-> "releasing", id |-> queue[1].id]
        /\ queue[1].id \in Access /\ awaits = Shared!Nothing
    <3>1. queue # <<>> /\ queue[1].op = "release" /\ awaits = Shared!Nothing
      BY <1>13 DEF Shared!ReleaseReference, Shared!Runs
    <3> QED BY <3>1, Inside1 DEF Shared!By, QueueFits, OperationFits
  <2>2. \A u \in User : Held(u)' => Held(u) /\ user'[u].id = user[u].id
    BY <1>7, <1>8, <1>13, <2>1 DEF Shared!ReleaseReference, Shared!Idles
  <2>3. shared'.id = shared.id /\ shared'.cleanupFailed = shared.cleanupFailed
    <3>1. shared' = shared \/ \E n : shared' = [shared EXCEPT !.references = n]
      BY <1>13 DEF Shared!ReleaseReference
    <3> QED BY <3>1 DEF AccessTypes, Shared!Lease
  <2>4. CASE awaits'.call # "cleanup"
    <3>1. ASSUME NEW u \in User, Held(u)'
          PROVE  shared'.id = user'[u].id /\ ~shared'.cleanupFailed
      BY <2>2, <2>3, <3>1 DEF HeldIsShared
    <3> QED BY <2>4, <3>1 DEF HeldIsShared
  <2>5. CASE awaits'.call = "cleanup"
    <3>1. Shared!Mine /\ (shared.references = 0 \/ shared.references - 1 <= 0)
      <4>1. shared.references \in Nat
        BY DEF AccessTypes, Shared!Lease
      <4> QED BY <1>13, <2>5, <4>1 DEF Shared!ReleaseReference, Shared!Unlock, Shared!Nothing
    <3>2. ASSUME NEW u \in User, Held(u) PROVE FALSE
      <4>1. shared # Shared!NoLease /\ shared.id = user[u].id /\ ~shared.cleanupFailed
        BY <1>0, <3>2 DEF HeldIsShared
      <4>2. PICK f \in [Holders(shared.id) -> 1..shared.references] :
              \A x, y \in Holders(shared.id) : f[x] = f[y] => x = y
        BY <2>1, <4>1 DEF HoldersCounted, Injections, Shared!Nothing
      <4>3. u \in Holders(shared.id) /\ Shared!By \in Holders(shared.id)
        BY <2>1, <3>1, <3>2, <4>1 DEF Holders, Shared!Mine
      <4>4. shared.references \in Nat
        BY DEF AccessTypes, Shared!Lease
      <4>5. f[u] = 1 /\ f[Shared!By] = 1
        BY <3>1, <4>2, <4>3, <4>4
      <4>6. u = Shared!By
        BY <4>2, <4>3, <4>5
      <4> QED BY <2>1, <3>2, <4>6
    <3> QED BY <2>2, <3>2 DEF HeldIsShared
  <2> QED BY <2>4, <2>5
<1>14. CASE Shared!Crash
  BY <1>14 DEF Shared!Crash, HeldIsShared
<1> QED BY <1>1, <1>3, <1>4, <1>5, <1>6, <1>9, <1>10, <1>11, <1>12, <1>13, <1>14
           DEF Shared!Next, Shared!Inside

-----------------------------------------------------------------------------
(* A lease counts one holder more, or one less.                            *)
LEMMA CountOneMore ==
  ASSUME NEW S, NEW n \in Nat, NEW x, x \notin S, Injections(S, n) # {}
  PROVE  Injections(S \cup {x}, n + 1) # {}
<1>1. PICK f \in [S -> 1..n] : \A y, z \in S : f[y] = f[z] => y = z
  BY DEF Injections
<1> DEFINE g == [y \in S \cup {x} |-> IF y = x THEN n + 1 ELSE f[y]]
<1>2. g \in [S \cup {x} -> 1..(n + 1)]
  BY <1>1
<1>3. ASSUME NEW y \in S \cup {x}, NEW z \in S \cup {x}, g[y] = g[z] PROVE y = z
  <2>1. \A v \in S : f[v] # n + 1
    BY <1>1
  <2> QED BY <1>1, <1>3, <2>1
<1> QED BY <1>2, <1>3 DEF Injections

LEMMA CountOneLess ==
  ASSUME NEW S, NEW n \in Nat \ {0}, NEW x \in S, Injections(S, n) # {}
  PROVE  Injections(S \ {x}, n - 1) # {}
<1>1. PICK f \in [S -> 1..n] : \A y, z \in S : f[y] = f[z] => y = z
  BY DEF Injections
<1> DEFINE g == [y \in S \ {x} |-> IF f[y] = n THEN f[x] ELSE f[y]]
<1>2. ASSUME NEW y \in S \ {x} PROVE g[y] \in 1..(n - 1)
  <2>1. f[y] \in 1..n /\ f[x] \in 1..n /\ f[y] # f[x]
    BY <1>1
  <2> QED BY <2>1
<1>3. g \in [S \ {x} -> 1..(n - 1)]
  BY <1>2
<1>4. ASSUME NEW y \in S \ {x}, NEW z \in S \ {x}, g[y] = g[z] PROVE y = z
  <2>1. f[y] # f[x] /\ f[z] # f[x]
    BY <1>1
  <2> QED BY <1>1, <1>4, <2>1
<1> QED BY <1>3, <1>4 DEF Injections

LEMMA CountStep == ASSUME Shared!Assumption, AInv, [Shared!Next]_Shared!vars PROVE HoldersCounted'
<1> USE DEF AInv
<1> DEFINE Used == \A u \in User : user[u].at \in {"holding", "releasing"} => user[u].id \in used
           Counts == shared # Shared!NoLease /\ ~shared.cleanupFailed /\ awaits.call # "cleanup" =>
                       Injections(Holders(shared.id), shared.references) # {}
<1>0. Used /\ Counts /\ (Used' /\ Counts' => HoldersCounted')
  BY DEF HoldersCounted
<1> HIDE DEF Counts
<1>1. ASSUME shared' = Shared!NoLease \/ shared'.cleanupFailed \/ awaits'.call = "cleanup" PROVE Counts'
  BY <1>1 DEF Counts
<1>2. ASSUME \A a : Holders(a)' = Holders(a), shared'.id = shared.id,
             shared' # Shared!NoLease => shared # Shared!NoLease,
             shared'.cleanupFailed = shared.cleanupFailed, shared'.references = shared.references,
             awaits.call # "cleanup" \/ awaits' = awaits
      PROVE  Counts'
  BY <1>0, <1>2 DEF Counts
<1>3. [at |-> "idle", id |-> None] \in UserStates
  BY DEF UserStates
<1>4. CASE UNCHANGED Shared!vars
  <2>1. \A a : Holders(a)' = Holders(a)
    BY <1>4 DEF Shared!vars, Holders
  <2> QED BY <1>0, <1>2, <1>4, <2>1 DEF Shared!vars
<1>5. ASSUME NEW u \in User, Shared!Call(u) \/ Shared!Release(u) \/ Shared!Elapse(u) PROVE HoldersCounted'
  <2>1. \A v \in User : user'[v] = user[v] \/ (v = u /\ user'[v].at \notin {"holding", "releasing"} /\ Shared!Call(u))
          \/ (v = u /\ user[v].at = "holding" /\ user'[v].at = "releasing" /\ user'[v].id = user[v].id)
    BY <1>5 DEF Shared!Call, Shared!Release, Shared!Elapse, AccessTypes, UserStates
  <2>2. Shared!Call(u) => user[u].at = "idle"
    BY DEF Shared!Call
  <2>3. \A a : Holders(a)' = Holders(a)
    BY <2>1, <2>2 DEF Holders
  <2>4. UNCHANGED <<shared, awaits, used>>
    BY <1>5 DEF Shared!Call, Shared!Release, Shared!Elapse
  <2>5. Used'
    BY <1>0, <2>1, <2>4
  <2> QED BY <1>0, <1>2, <2>3, <2>4, <2>5
<1>6. CASE Shared!Fire
  <2>1. /\ shared'.id = shared.id /\ shared'.cleanupFailed = shared.cleanupFailed
        /\ shared'.references = shared.references /\ shared # Shared!NoLease
    BY <1>6 DEF Shared!Fire, AccessTypes, Shared!Lease, Shared!NoLease
  <2>2. UNCHANGED <<user, used, awaits>>
    BY <1>6 DEF Shared!Fire
  <2>3. \A a : Holders(a)' = Holders(a)
    BY <2>2 DEF Holders
  <2> QED BY <1>0, <1>2, <2>1, <2>2, <2>3
<1>7. CASE Shared!Share
  <2>1. queue # <<>> /\ Shared!By \in User /\ user[Shared!By].at = "waiting"
          /\ shared # Shared!NoLease /\ ~shared.cleanupFailed
        /\ shared.id \in used /\ shared.id \in Access /\ awaits = Shared!Nothing
    <3>1. queue # <<>> /\ queue[1].op = "acquire" /\ shared # Shared!NoLease
            /\ ~Shared!Abandoned /\ awaits = Shared!Nothing
      BY <1>7 DEF Shared!Share, Shared!Runs
    <3> QED BY <3>1, Inside1, LeaseHasId
               DEF Shared!By, QueueFits, OperationFits, Shared!Abandoned, OneIsKnown
  <2>2. shared'.id = shared.id /\ shared'.references = shared.references + 1 /\ shared.references \in Nat
    BY <1>7 DEF Shared!Share, AccessTypes, Shared!Lease
  <2>3. user' = [user EXCEPT ![Shared!By] = [at |-> "holding", id |-> shared.id]] /\ used' = used
        /\ [at |-> "holding", id |-> shared.id] \in UserStates
    BY <1>7, <2>1 DEF Shared!Share, Shared!Holds, UserStates
  <2>4. Shared!By \notin Holders(shared.id)
    BY <2>1 DEF Holders
  <2>5. \A a : a = shared.id => Holders(a)' = Holders(a) \cup {Shared!By}
    BY <2>1, <2>3 DEF Holders, AccessTypes
  <2>6. Injections(Holders(shared.id) \cup {Shared!By}, shared.references + 1) # {}
    BY <1>0, <2>1, <2>2, <2>4, CountOneMore DEF Counts, Shared!Nothing
  <2>7. Holders(shared.id)' = Holders(shared.id) \cup {Shared!By}
    BY <2>2, <2>5 DEF Holders
  <2>8. Counts'
    BY <2>2, <2>6, <2>7 DEF Counts, Injections
  <2>9. Used'
    BY <1>0, <2>1, <2>3 DEF AccessTypes
  <2> QED BY <1>0, <2>8, <2>9
<1>8. CASE Shared!Begin
  <2>1. UNCHANGED <<shared, user, used>> /\ awaits = Shared!Nothing
    BY <1>8 DEF Shared!Begin, Shared!Runs
  <2>2. \A a : Holders(a)' = Holders(a)
    BY <2>1 DEF Holders
  <2> QED BY <1>0, <1>2, <2>1, <2>2 DEF Shared!Nothing
<1>9. CASE Shared!Created
  <2>1. queue # <<>> /\ Shared!By \in User /\ shared = Shared!NoLease /\ Shared!New \in Access /\ Shared!New \notin used
    <3>1. queue # <<>> /\ queue[1].op = "acquire" /\ shared = Shared!NoLease
      BY <1>9 DEF Shared!Created, AwaitsFit
    <3> QED BY <1>9, <3>1, Inside1, NewIsNew DEF Shared!Created, Shared!By, QueueFits, OperationFits
  <2>2. used' = used \cup {Shared!New}
    BY <1>9 DEF Shared!Created
  <2>3. CASE shared' = shared /\ user' = user
    BY <1>0, <1>1, <2>1, <2>2, <2>3
  <2>4. CASE ~(shared' = shared /\ user' = user)
    <3>1. /\ shared' = [id |-> Shared!New, references |-> 1, cleanupFailed |-> FALSE, timer |-> TRUE]
          /\ user' = [user EXCEPT ![Shared!By] = [at |-> "holding", id |-> Shared!New]]
      BY <1>9, <2>4 DEF Shared!Created, Shared!Holds
    <3>2. \A u \in User : user'[u].at \in {"holding", "releasing"} /\ user'[u].id = Shared!New => u = Shared!By
      BY <1>0, <2>1, <3>1 DEF AccessTypes
    <3>3. Holders(shared.id)' \subseteq {Shared!By}
      BY <3>1, <3>2 DEF Holders
    <3>4. [u \in Holders(shared.id)' |-> 1] \in Injections(Holders(shared.id), shared.references)'
      BY <3>1, <3>3 DEF Injections
    <3>5. Counts'
      BY <3>4 DEF Counts
    <3>6. Used'
      BY <1>0, <2>1, <2>2, <3>1 DEF AccessTypes
    <3> QED BY <1>0, <3>5, <3>6
  <2> QED BY <2>3, <2>4
<1>10. ASSUME Shared!By \in User, user' = user \/ Shared!Idles(Shared!By), used \subseteq used' PROVE Used'
  BY <1>0, <1>10 DEF Shared!Idles, AccessTypes
<1>11. CASE Shared!NotCreated \/ Shared!Discarded
  <2>1. Shared!By \in User /\ shared' = Shared!NoLease
    <3>1. queue # <<>> /\ queue[1].op = "acquire" /\ shared = Shared!NoLease /\ shared' = shared
      BY <1>11 DEF Shared!NotCreated, Shared!Discarded, AwaitsFit
    <3> QED BY <3>1, Inside1 DEF Shared!By, QueueFits, OperationFits
  <2>2. Shared!Idles(Shared!By) /\ used \subseteq used'
    BY <1>11 DEF Shared!NotCreated, Shared!Discarded
  <2> QED BY <1>0, <1>1, <1>10, <2>1, <2>2
<1>12. CASE Shared!CleanedUp \/ Shared!CleanupFails
  <2>1. queue # <<>> /\ used' = used /\ (shared' = Shared!NoLease \/ shared'.cleanupFailed)
    BY <1>12 DEF Shared!CleanedUp, Shared!CleanupFails, AwaitsFit, AccessTypes, Shared!Lease
  <2>2. user' = user \/ (Shared!By \in User /\ Shared!Idles(Shared!By))
    BY <1>12, <2>1, Inside1 DEF Shared!CleanedUp, Shared!CleanupFails, Shared!By, QueueFits,
         OperationFits, Shared!Operation
  <2>3. Used'
    BY <1>0, <1>10, <2>1, <2>2
  <2> QED BY <1>0, <1>1, <2>1, <2>3
<1>13. CASE Shared!Reconcile
  <2>1. UNCHANGED <<user, used>> /\ awaits = Shared!Nothing
    BY <1>13 DEF Shared!Reconcile, Shared!Runs
  <2>2. \A a : Holders(a)' = Holders(a)
    BY <2>1 DEF Holders
  <2>3. \/ shared' = shared
        \/ shared' = [shared EXCEPT !.timer = TRUE] /\ Shared!Mine
        \/ awaits'.call = "cleanup"
    BY <1>13 DEF Shared!Reconcile, Shared!Await
  <2>4. ASSUME shared' = [shared EXCEPT !.timer = TRUE], Shared!Mine
        PROVE /\ shared'.id = shared.id /\ shared'.cleanupFailed = shared.cleanupFailed
              /\ shared'.references = shared.references /\ shared # Shared!NoLease
    <3>1. queue[1].id \in Access
      <4>1. queue # <<>> /\ queue[1].op = "reconcile"
        BY <1>13 DEF Shared!Reconcile, Shared!Runs
      <4> QED BY <4>1, Inside1 DEF QueueFits, OperationFits
    <3> QED BY <2>4, <3>1 DEF Shared!Mine, Shared!Assumption, AccessTypes, Shared!Lease,
                 Shared!NoLease
  <2>5. Counts'
    BY <1>1, <1>2, <2>1, <2>2, <2>3, <2>4 DEF Shared!Nothing
  <2> QED BY <1>0, <2>1, <2>5
<1>14. CASE Shared!ReleaseReference
  <2>1. queue # <<>> /\ Shared!By \in User /\ user[Shared!By] = [at |-> "releasing", id |-> queue[1].id]
        /\ queue[1].id \in Access /\ awaits = Shared!Nothing
    <3>1. queue # <<>> /\ queue[1].op = "release" /\ awaits = Shared!Nothing
      BY <1>14 DEF Shared!ReleaseReference, Shared!Runs
    <3> QED BY <3>1, Inside1 DEF Shared!By, QueueFits, OperationFits
  <2>2. user' = user \/ Shared!Idles(Shared!By)
    BY <1>14 DEF Shared!ReleaseReference
  <2>3. Used'
    BY <1>10, <1>14, <2>1, <2>2 DEF Shared!ReleaseReference
  <2>4. CASE awaits'.call = "cleanup"
    BY <1>0, <1>1, <2>3, <2>4
  <2>5. CASE ~Shared!Mine /\ shared' = shared /\ Shared!Idles(Shared!By)
    <3>1. \A a : a = shared.id => Holders(a)' = Holders(a)
      BY <2>1, <2>5 DEF Shared!Idles, Shared!Mine, Holders, AccessTypes
    <3>2. Holders(shared.id)' = Holders(shared.id)
      BY <2>5, <3>1 DEF Holders
    <3>3. Injections(Holders(shared.id), shared.references)' = Injections(Holders(shared.id), shared.references)
      BY <2>5, <3>2 DEF Injections
    <3>4. Counts'
      BY <1>0, <2>1, <2>5, <3>3 DEF Counts, Shared!Nothing
    <3> QED BY <1>0, <2>3, <3>4
  <2>6. CASE Shared!Mine /\ ~(awaits'.call = "cleanup") /\ Shared!Idles(Shared!By)
    <3>1. shared.references \in Nat \ {0} /\ shared # Shared!NoLease
          /\ shared' = [shared EXCEPT !.references = shared.references - 1]
      <4>1. shared.references \in Nat /\ shared # Shared!NoLease
        BY <2>1, <2>6 DEF Shared!Mine, Shared!NoLease, AccessTypes, Shared!Lease, Shared!Assumption
      <4> QED BY <1>14, <2>6, <4>1 DEF Shared!ReleaseReference, Shared!Await
    <3>2. shared'.id = shared.id /\ shared'.references = shared.references - 1
          /\ shared'.cleanupFailed = shared.cleanupFailed
      BY <3>1 DEF AccessTypes, Shared!Lease
    <3>3. Shared!By \in Holders(shared.id)
      BY <2>1, <2>6 DEF Shared!Mine, Holders
    <3>4. \A a : Holders(a)' = Holders(a) \ {Shared!By}
      BY <2>1, <2>6 DEF Shared!Idles, Holders, AccessTypes
    <3>5. Holders(shared.id)' = Holders(shared.id) \ {Shared!By}
      BY <3>2, <3>4 DEF Holders
    <3>6. ASSUME ~shared.cleanupFailed
          PROVE  Injections(Holders(shared.id) \ {Shared!By}, shared.references - 1) # {}
      BY <1>0, <2>1, <3>1, <3>3, <3>6, CountOneLess DEF Counts, Shared!Nothing
    <3>7. Counts'
      BY <3>2, <3>5, <3>6 DEF Counts, Injections
    <3> QED BY <1>0, <2>3, <3>7
  <2> QED BY <1>14, <2>4, <2>5, <2>6 DEF Shared!ReleaseReference, Shared!Await
<1>15. CASE Shared!Crash
  BY <1>15 DEF Shared!Crash, HoldersCounted
<1> QED BY <1>4, <1>5, <1>6, <1>7, <1>8, <1>9, <1>11, <1>12, <1>13, <1>14, <1>15
           DEF Shared!Next, Shared!Inside

-----------------------------------------------------------------------------
LEMMA AccessStep == Shared!Assumption /\ AInv /\ [Shared!Next]_Shared!vars => AInv'
BY TypesStep, QueueStep, KnownStep, CountStep, HeldStep, TimerStep DEF AInv

LEMMA AccessInvHolds == ASSUME Shared!Assumption, AInv PROVE Shared!HolderHasAccess
        /\ Shared!OneAccess /\ Shared!NeverStranded
<1> USE LeaseHasId DEF AInv
<1>1. Shared!HolderHasAccess
  BY DEF Shared!HolderHasAccess, HeldIsShared, HoldersCounted, OneIsKnown, AccessTypes
<1>2. Shared!OneAccess
  BY DEF Shared!OneAccess, OneIsKnown, AwaitsFit, AccessTypes
<1>3. Shared!NeverStranded
  BY DEF Shared!NeverStranded, TimerIsSet, AccessTypes
<1> QED BY <1>1, <1>2, <1>3

(* The callers of the coordinator take steps only while "access" moves;    *)
(* the rest leaves all of its state alone.                                 *)
LEMMA AccessInvariance == MCSpec => [](Shared!Assumption /\ AInv)
<1>1. Shared!Assumption
  BY AccessAssumption
<1>2. MCInit => AInv
  BY AccessInit DEF MCInit
<1>3. [MCNext]_<<part, vars, accesses, busy, quiet>> => [Shared!Next]_Shared!vars
  BY DEF MCNext, accesses, Shared!vars
<1> QED BY <1>1, <1>2, <1>3, AccessStep, PTL DEF MCSpec

(* Who was given an access has it while its time lasts, whoever else       *)
(* releases, and the process has one access at a time: the lock and the    *)
(* reference count of the coordinator do what they are for.                *)
THEOREM AccessesHold == MCSpec => []AccessHolds
<1>1. Shared!Assumption /\ AInv => AccessHolds
  BY AccessInvHolds DEF AccessHolds
<1> QED BY <1>1, AccessInvariance, PTL

(* A registered lease has a timer, or a handler or a cleanup on its way:   *)
(* no access waits for a release that may never come.                      *)
THEOREM LeasesAreNeverStranded == MCSpec => []Shared!NeverStranded
<1>1. Shared!Assumption /\ AInv => Shared!NeverStranded
  BY AccessInvHolds
<1> QED BY <1>1, AccessInvariance, PTL

-----------------------------------------------------------------------------
(***************************************************************************)
(* Maintenance, in both environments.                                      *)
(***************************************************************************)
USE DEF Busy!Workload, Quiet!Workload

(* The steps of a chain, to enter maintenance or to leave it.              *)
Steps(on, ops) == [do : ops, on : on, noop : BOOLEAN, blocked : BOOLEAN]
EnterStep ==
  Steps(Busy!Workload, {"suspend"})
  \cup Steps({"environment"}, {"edgeEnable", "verifyEnter"} \cup (IF Database THEN {"fence"} ELSE {}))
ExitStep ==
  Steps(Busy!Workload, {"resume"}) \cup Steps({"environment"}, {"unfence", "edgeDisable", "verifyExit"})

LEMMA Chained ==
  ASSUME NEW S, NEW first \in S, NEW final \in S, NEW each \in Seq(S), NEW maybe \in Seq(S)
  PROVE  /\ <<first>> \o each \o maybe \o <<final>> \in Seq(S)
         /\ maybe \o each \o <<first, final>> \in Seq(S)
<1>1. <<first>> \in Seq(S) /\ <<final>> \in Seq(S) /\ <<first, final>> \in Seq(S)
  OBVIOUS
<1> QED BY <1>1

LEMMA FirstOfChain ==
  ASSUME NEW S, NEW s \in S, NEW t \in Seq(S), NEW u \in Seq(S)
  PROVE  <<s>> \o t \o u # <<>> /\ Head(<<s>> \o t \o u) = s
<1>1. <<s>> \o t \in Seq(S) /\ Len(<<s>> \o t) >= 1 /\ (<<s>> \o t)[1] = s
  OBVIOUS
<1>2. \A v \in Seq(S) : Len(v) >= 1 => v \o u # <<>> /\ Head(v \o u) = v[1]
  OBVIOUS
<1> HIDE DEF Steps
<1> QED BY <1>1, <1>2

LEMMA OnePerPlace ==
  ASSUME NEW S, NEW n \in Nat, NEW e \in [1..n -> S]
  PROVE  e \in Seq(S) /\ Len(e) = n
OBVIOUS

(* Skipping noops leaves the end of a chain, from its first real step.     *)
LEMMA Skipped ==
  ASSUME NEW S, NEW s \in Seq(S)
  PROVE  /\ Busy!SkipNoops(s) \in Seq(S)
         /\ s # <<>> /\ ~Head(s).noop => Busy!SkipNoops(s) # <<>> /\ Head(Busy!SkipNoops(s)) = Head(s)
<1> DEFINE real == {i \in 1..Len(s) : ~s[i].noop}
           least == CHOOSE i \in real : \A j \in real : i <= j
<1>0. real \subseteq 1..Len(s) /\ Len(s) \in Nat
  OBVIOUS
<1>1. Busy!SkipNoops(s) = IF real = {} THEN <<>> ELSE SubSeq(s, least, Len(s))
  BY DEF Busy!SkipNoops
<1>2. s # <<>> /\ ~Head(s).noop => 1 \in real
  OBVIOUS
<1>3. ASSUME real # {} PROVE least \in real /\ \A j \in real : least <= j
  <2> HIDE DEF real
  <2> DEFINE Less == OpToRel(<, Nat)
  <2>1. IsWellFoundedOn(Less, Nat)
    BY NatLessThanWellFounded
  <2>2. real \subseteq Nat
    BY <1>0
  <2> HIDE DEF Less
  <2>3. PICK k \in real : \A y \in real : <<y, k>> \notin Less
    BY <1>3, <2>1, <2>2, WFMin
  <2>4. \A y \in real : ~(y < k)
    BY <2>2, <2>3 DEF Less, OpToRel
  <2>5. \A y \in real : k <= y
    BY <2>2, <2>4
  <2> QED BY <2>5
<1> HIDE DEF real, least
<1>4. \A i \in 1..Len(s) : SubSeq(s, i, Len(s)) \in Seq(S)
  OBVIOUS
<1>5. Busy!SkipNoops(s) \in Seq(S)
  <2>1. <<>> \in Seq(S)
    OBVIOUS
  <2> QED BY <1>0, <1>1, <1>3, <1>4, <2>1
<1>6. ASSUME s # <<>>, ~Head(s).noop PROVE Busy!SkipNoops(s) # <<>> /\ Head(Busy!SkipNoops(s)) = Head(s)
  <2>1. least = 1
    <3>1. 1 \in real /\ least \in real /\ least <= 1
      BY <1>2, <1>3, <1>6
    <3>2. least \in 1..Len(s)
      BY <1>0, <3>1
    <3> QED BY <3>1, <3>2
  <2>2. SubSeq(s, 1, Len(s)) = s
    OBVIOUS
  <2> QED BY <1>1, <1>2, <1>6, <2>1, <2>2
<1> QED BY <1>5, <1>6

Bindings ==
  [state : {"none", "entering", "active", "exiting"}, edge : Nat,
   snapshots : [Busy!Workload -> {"none", "running"}]]

(* Bindings keep their snapshots when they are saved.                      *)
LEMMA StateSaved ==
  ASSUME NEW b \in Bindings, NEW s \in {"none", "entering", "active", "exiting"}, NEW c, c = [b EXCEPT !.state = s]
  PROVE  c \in Bindings /\ c.snapshots = b.snapshots /\ c.edge = b.edge /\ c.state = s
BY DEF Bindings

LEMMA EdgeSaved ==
  ASSUME NEW b \in Bindings, NEW i \in Nat
  PROVE  /\ [b EXCEPT !.edge = i] \in Bindings /\ [b EXCEPT !.edge = i].snapshots = b.snapshots
         /\ [b EXCEPT !.edge = i].edge = i
BY DEF Bindings

LEMMA SameSkip == \A s : Quiet!SkipNoops(s) = Busy!SkipNoops(s)
BY DEF Quiet!SkipNoops, Busy!SkipNoops

-----------------------------------------------------------------------------
(* A chain is made of its steps, and the way out begins with the fence.    *)
LEMMA BusyEnterChainFits == ASSUME Busy!Assumption, fenced \in BOOLEAN PROVE Busy!EnterChain \in Seq(EnterStep)
<1> DEFINE first == Busy!OnEnvironment("edgeEnable", Busy!Edge = "active", Busy!Edge = "unknown")
           each == [i \in 1..Len(Order) |-> Busy!Step("suspend", Order[i], Order[i] \notin running, FALSE)]
           fence == Busy!OnEnvironment("fence", fenced, FALSE)
           final == Busy!OnEnvironment("verifyEnter", Busy!Active /\ binding.state = "active", FALSE)
<1>1. first \in EnterStep
  BY DEF Busy!OnEnvironment, Busy!Step, EnterStep, Steps
<1>2. final \in EnterStep
  BY DEF Busy!OnEnvironment, Busy!Step, EnterStep, Steps
<1>3. each \in Seq(EnterStep)
  <2>1. Len(Order) \in Nat /\ \A i \in 1..Len(Order) : Order[i] \in Busy!Workload
    BY DEF Busy!Assumption
  <2>2. each \in [1..Len(Order) -> EnterStep]
    BY <2>1 DEF Busy!Step, EnterStep, Steps
  <2> HIDE DEF each
  <2> QED BY <2>1, <2>2, OnePerPlace
<1>4. Busy!IfDatabase(fence) \in Seq(EnterStep)
  <2>1. Database => fence \in EnterStep
    BY DEF Busy!OnEnvironment, Busy!Step, EnterStep, Steps
  <2> HIDE DEF fence
  <2> QED BY <2>1 DEF Busy!IfDatabase
<1>5. Busy!EnterChain = <<first>> \o each \o Busy!IfDatabase(fence) \o <<final>>
  BY DEF Busy!EnterChain, Busy!ForEach
<1> HIDE DEF first, each, fence, final
<1> QED BY <1>1, <1>2, <1>3, <1>4, <1>5, Chained

LEMMA BusyExitChainFits ==
  ASSUME Busy!Assumption, fenced \in BOOLEAN
  PROVE  /\ Busy!ExitChain \in Seq(ExitStep)
         /\ Database =>
              Busy!ExitChain # <<>> /\ Head(Busy!ExitChain).do = "unfence" /\ Head(Busy!ExitChain).noop = ~fenced
<1> DEFINE unfence == Busy!OnEnvironment("unfence", ~fenced, FALSE)
           each == [i \in 1..Len(Busy!Backwards) |->
                     Busy!Step("resume", Busy!Backwards[i], Busy!RestoredOne(Busy!Backwards[i]),
                          Busy!Snapshot(Busy!Backwards[i]) = "none")]
           disable == Busy!OnEnvironment("edgeDisable", Busy!Edge = "inactive", binding.edge = 0)
           verify == Busy!OnEnvironment("verifyExit", FALSE, FALSE)
<1>1. unfence \in ExitStep /\ unfence.do = "unfence" /\ unfence.noop = ~fenced
  BY DEF Busy!OnEnvironment, Busy!Step, ExitStep, Steps
<1>2. disable \in ExitStep
  BY DEF Busy!OnEnvironment, Busy!Step, ExitStep, Steps
<1>3. verify \in ExitStep
  BY DEF Busy!OnEnvironment, Busy!Step, ExitStep, Steps
<1>4. each \in Seq(ExitStep)
  <2>1. Len(Order) \in Nat /\ Busy!Backwards \in [1..Len(Order) -> Busy!Workload]
    BY DEF Busy!Assumption, Busy!Backwards
  <2>2. Len(Busy!Backwards) = Len(Order)
    BY <2>1, OnePerPlace
  <2>3. each \in [1..Len(Order) -> ExitStep]
    BY <2>1, <2>2 DEF Busy!Step, ExitStep, Steps, Busy!RestoredOne
  <2> HIDE DEF each
  <2> QED BY <2>1, <2>3, OnePerPlace
<1>5. Busy!ExitChain = Busy!IfDatabase(unfence) \o each \o <<disable, verify>>
  BY DEF Busy!ExitChain, Busy!ForEach
<1> HIDE DEF unfence, each, disable, verify
<1>6. Busy!IfDatabase(unfence) \in Seq(ExitStep) /\ (Database => Busy!IfDatabase(unfence) = <<unfence>>)
  BY <1>1 DEF Busy!IfDatabase
<1>7. Busy!ExitChain \in Seq(ExitStep)
  BY <1>2, <1>3, <1>4, <1>5, <1>6, Chained
<1>8. <<disable, verify>> \in Seq(ExitStep)
  BY <1>2, <1>3
<1>9. ASSUME Database PROVE Busy!ExitChain # <<>> /\ Head(Busy!ExitChain) = unfence
  <2>1. Busy!ExitChain = <<unfence>> \o each \o <<disable, verify>>
    BY <1>5, <1>6, <1>9
  <2> QED BY <1>1, <1>4, <1>8, <2>1, FirstOfChain
<1> QED BY <1>1, <1>7, <1>9

(* What is planned goes one way, and a fenced database is unfenced first   *)
(* on the way out.                                                         *)
LEMMA BusyChainFits ==
  ASSUME Busy!Assumption, fenced \in BOOLEAN, fenced => Database
  PROVE  \/ Busy!SkipNoops(Busy!Chain) \in Seq(EnterStep)
         \/ /\ Busy!SkipNoops(Busy!Chain) \in Seq(ExitStep)
            /\ fenced => Busy!SkipNoops(Busy!Chain) # <<>> /\ Head(Busy!SkipNoops(Busy!Chain)).do = "unfence"
<1>1. Busy!Chain = Busy!EnterChain \/ Busy!Chain = Busy!ExitChain \/ Busy!Chain = <<>>
  BY DEF Busy!Chain
<1>2. <<>> \in Seq(EnterStep)
  OBVIOUS
<1> QED BY <1>1, <1>2, BusyEnterChainFits, BusyExitChainFits, Skipped

(* The apply goes one way; the fence closes behind stopped workloads and   *)
(* opens before anything else.                                             *)
BusyOneWay ==
  /\ fenced \in BOOLEAN /\ (fenced => Database)
  /\ \/ todo \in Seq(EnterStep)
     \/ todo \in Seq(ExitStep) /\ (todo # <<>> /\ fenced => Head(todo).do = "unfence")
  /\ Busy!Doing("unfence", "save") => ~fenced
  /\ todo = <<>> => place = "check"

LEMMA BusyHeadFits ==
  ASSUME BusyOneWay, todo # <<>>
  PROVE  /\ Head(todo) \in EnterStep \/ Head(todo) \in ExitStep
         /\ Head(todo).do \in {"suspend", "resume"} => Head(todo).on \in Busy!Workload
         /\ Head(todo).do = "fence" => Database /\ todo \in Seq(EnterStep)
         /\ Head(todo).do \in {"resume", "unfence", "edgeDisable", "verifyExit"} => todo \notin Seq(EnterStep)
<1>1. \A S : todo \in Seq(S) => Head(todo) \in S
  OBVIOUS
<1> QED BY <1>1 DEF BusyOneWay, EnterStep, ExitStep, Steps

(* A step may leave the chain, go on to what remains of it, or stop.       *)
LEMMA BusyOneWayStays ==
  ASSUME BusyOneWay, todo' = todo \/ todo' = <<>>, fenced' = fenced,
         todo' = todo => place' # "save" \/ place' = place, todo' = <<>> => place' = "check"
  PROVE  BusyOneWay'
<1>1. <<>> \in Seq(EnterStep)
  OBVIOUS
<1> QED BY <1>1 DEF BusyOneWay, Busy!Doing

LEMMA BusyOneWayProceeds ==
  ASSUME BusyOneWay, Busy!Succeed, todo # <<>>, fenced' = fenced, fenced => Head(todo).do # "unfence"
  PROVE  BusyOneWay'
<1>1. \A S : todo \in Seq(S) => Busy!SkipNoops(Tail(todo)) \in Seq(S)
  <2>1. \A S : todo \in Seq(S) => Tail(todo) \in Seq(S)
    OBVIOUS
  <2> QED BY <2>1, Skipped
<1>2. CASE todo \in Seq(EnterStep)
  BY <1>1, <1>2 DEF BusyOneWay, Busy!Succeed, Busy!Doing
<1>3. CASE todo \in Seq(ExitStep) /\ ~fenced
  BY <1>1, <1>3 DEF BusyOneWay, Busy!Succeed, Busy!Doing
<1> QED BY <1>2, <1>3 DEF BusyOneWay

LEMMA BusyOneWayStep == ASSUME Busy!Assumption, BusyOneWay, [Busy!Next]_Busy!vars PROVE BusyOneWay'
<1> USE DEF Busy!provider, Busy!apply
<1>0. todo = <<>> => place = "check"
  BY DEF BusyOneWay
<1>1. CASE UNCHANGED Busy!vars \/ Busy!Flip \/ Busy!MarkerAppears \/ \E w \in Busy!Workload : Busy!Drift(w)
  BY <1>0, <1>1, BusyOneWayStays DEF Busy!vars, Busy!Flip, Busy!MarkerAppears, Busy!Drift
<1>2. CASE Busy!StartApply
  <2>1. todo' = Busy!SkipNoops(Busy!Chain) /\ fenced' = fenced /\ place' = place /\ todo = <<>> /\ todo' # <<>>
    BY <1>2 DEF Busy!StartApply
  <2>2. \/ todo' \in Seq(EnterStep)
        \/ todo' \in Seq(ExitStep) /\ (fenced => Head(todo').do = "unfence")
    BY <2>1, BusyChainFits DEF BusyOneWay
  <2> QED BY <2>1, <2>2 DEF BusyOneWay, Busy!Doing
<1>3. CASE Busy!Refuse \/ Busy!Fault \/ Busy!Crash
  <2>1. Busy!Stop /\ fenced' = fenced
    BY <1>3 DEF Busy!Refuse, Busy!Fault, Busy!Crash
  <2> QED BY <2>1, BusyOneWayStays DEF Busy!Stop
<1>4. CASE Busy!CreateRoute \/ Busy!RemoveRoute \/ Busy!Resume
  <2>1. todo # <<>> /\ fenced' = fenced
    BY <1>4 DEF Busy!CreateRoute, Busy!RemoveRoute, Busy!Resume, Busy!Doing, Busy!Attempt
  <2>2. Busy!Stop \/ (Busy!Proceed("save") /\ Head(todo).do # "unfence")
    BY <1>4 DEF Busy!CreateRoute, Busy!RemoveRoute, Busy!Resume, Busy!Doing, Busy!Attempt
  <2>3. CASE Busy!Stop
    BY <2>1, <2>3, BusyOneWayStays DEF Busy!Stop
  <2>4. CASE Busy!Proceed("save") /\ Head(todo).do # "unfence"
    BY <2>1, <2>4 DEF Busy!Proceed, BusyOneWay, Busy!Doing
  <2> QED BY <2>2, <2>3, <2>4
<1>5. CASE Busy!SaveRoute \/ Busy!CheckExit \/ Busy!CheckSuspend \/ Busy!CheckResume
        \/ Busy!CheckFence("fence") \/ Busy!CheckFence("unfence")
  <2>1. todo # <<>> /\ fenced' = fenced
    BY <1>5 DEF Busy!SaveRoute, Busy!CheckExit, Busy!CheckSuspend, Busy!CheckResume,
         Busy!CheckFence, Busy!Doing
  <2>2. Busy!Stop \/ Busy!Proceed("act") \/ Busy!Proceed("confirm")
    BY <1>5 DEF Busy!SaveRoute, Busy!CheckExit, Busy!CheckSuspend, Busy!CheckResume, Busy!CheckFence
  <2> QED BY <2>1, <2>2, BusyOneWayStays DEF Busy!Proceed, Busy!Stop
<1>6. CASE Busy!ConfirmRoute \/ Busy!ForgetRoute \/ Busy!SaveResumed \/ Busy!VerifyEnter \/ Busy!VerifyExit
  BY <1>6, BusyOneWayStays, BusyOneWayProceeds
     DEF Busy!ConfirmRoute, Busy!ForgetRoute, Busy!SaveResumed, Busy!VerifyEnter,
       Busy!VerifyExit, Busy!Doing, Busy!Stop
<1>7. CASE Busy!Suspend
  BY <1>7, BusyOneWayStays, BusyOneWayProceeds DEF Busy!Suspend, Busy!Attempt, Busy!Doing, Busy!Stop
<1>8. ASSUME NEW op \in {"fence", "unfence"}, NEW state, Busy!SaveFence(op, state) PROVE BusyOneWay'
  BY <1>8, BusyOneWayProceeds DEF Busy!SaveFence, BusyOneWay, Busy!Doing
<1>9. ASSUME NEW op \in {"fence", "unfence"}, Busy!SetFence(op, op = "fence") PROVE BusyOneWay'
  <2>1. todo # <<>> /\ Head(todo).do = op /\ place = "act"
    BY <1>9 DEF Busy!SetFence, Busy!Doing
  <2>2. CASE todo' = <<>>
    <3>1. <<>> \in Seq(EnterStep)
      OBVIOUS
    <3>2. fenced' = (op = "fence") \/ fenced' = fenced
      BY <1>9 DEF Busy!SetFence, Busy!Attempt
    <3>3. (fenced' => Database) /\ fenced' \in BOOLEAN
      <4>1. CASE op = "fence"
        BY <2>1, <3>2, <4>1, BusyHeadFits DEF BusyOneWay
      <4>2. CASE op = "unfence"
        <5>1. (op = "fence") = FALSE
          BY <4>2
        <5>2. fenced' = FALSE \/ fenced' = fenced
          BY <3>2, <5>1
        <5>3. fenced \in BOOLEAN /\ (fenced => Database)
          BY DEF BusyOneWay
        <5>4. CASE fenced' = fenced
          BY <5>3, <5>4
        <5>5. CASE fenced' = FALSE
          BY <5>5
        <5> QED BY <5>2, <5>4, <5>5
      <4> QED BY <4>1, <4>2
    <3>4. place' = "check"
      BY <1>9, <2>1, <2>2 DEF Busy!SetFence, Busy!Attempt, Busy!Proceed, Busy!Stop
    <3> QED BY <2>2, <3>1, <3>3, <3>4 DEF BusyOneWay, Busy!Doing
  <2>3. CASE todo' = todo
    <3>1. fenced' = (op = "fence")
      BY <1>9, <2>1, <2>3 DEF Busy!SetFence, Busy!Attempt, Busy!Stop
    <3> QED BY <2>1, <2>3, <3>1, BusyHeadFits DEF BusyOneWay, Busy!Doing
  <2> QED BY <1>9, <2>2, <2>3 DEF Busy!SetFence, Busy!Attempt, Busy!Proceed, Busy!Stop
<1> QED BY <1>1, <1>2, <1>3, <1>4, <1>5, <1>6, <1>7, <1>8, <1>9
           DEF Busy!Next, Busy!Handle, Busy!Fence

(* There is one route at most, the one created last.                       *)
RouteIsLast == lastRoute \in Nat /\ route \in {0, lastRoute}

(* No snapshot says that a workload was stopped: the first suspension      *)
(* takes them all, while all are running.                                  *)
SnapshotsRun ==
  /\ binding \in Bindings
  /\ Busy!Doing("suspend", "act") => \A w \in Busy!Workload : Busy!Snapshot(w) = "running"

(* What Hypervibe stopped is stopped.                                      *)
MineAreStopped == mine \cup running \subseteq Busy!Workload /\ mine \cap running = {}

(* Workloads are stopped and the database is fenced behind the edge, which *)
(* is removed when neither is so.                                          *)
EdgeFirst ==
  /\ Busy!Doing("suspend", "act") \/ Busy!Doing("fence", "act") => route # 0
  /\ Busy!Doing("edgeDisable", "act") => mine = {} /\ ~fenced

OutageInv ==
  /\ RouteIsLast /\ SnapshotsRun /\ MineAreStopped /\ EdgeFirst
  /\ Busy!RestorationIsDurable /\ Busy!EdgeCoversOutage

-----------------------------------------------------------------------------
LEMMA BusyInit == Busy!Init => BusyOneWay /\ OutageInv
<1> SUFFICES ASSUME Busy!Init PROVE BusyOneWay /\ OutageInv
  OBVIOUS
<1>1. Busy!NoBinding \in Bindings
  BY DEF Busy!NoBinding, Bindings
<1>2. <<>> \in Seq(EnterStep)
  OBVIOUS
<1> QED BY <1>1, <1>2 DEF Busy!Init, BusyOneWay, OutageInv, RouteIsLast, SnapshotsRun,
             MineAreStopped, EdgeFirst,
       Busy!RestorationIsDurable, Busy!EdgeCoversOutage, Busy!Doing

(* All workloads run when the exit is verified.                            *)
LEMMA RestoredRuns == ASSUME OutageInv, Busy!Restored PROVE Busy!Workload \subseteq running /\ mine = {}
<1>1. \A w \in Busy!Workload : binding.snapshots[w] \in {"none", "running"}
  BY DEF OutageInv, SnapshotsRun, Bindings
<1>2. Busy!Workload \subseteq running
  BY <1>1 DEF Busy!Restored, Busy!RestoredOne, Busy!Snapshot
<1> QED BY <1>2 DEF OutageInv, MineAreStopped

(* Handlers that look, save or stop change nothing at the provider.        *)
LEMMA BusyFrame ==
  ASSUME OutageInv, UNCHANGED <<Busy!provider, mine>>,
         \/ binding' = binding
         \/ binding' \in Bindings /\ (binding'.snapshots = binding.snapshots \/ mine = {}),
         place' # "act"
  PROVE  OutageInv'
<1> USE DEF OutageInv, Busy!provider
<1>1. RouteIsLast' /\ MineAreStopped' /\ Busy!EdgeCoversOutage'
  BY DEF RouteIsLast, MineAreStopped, Busy!EdgeCoversOutage
<1>2. SnapshotsRun' /\ EdgeFirst'
  BY DEF SnapshotsRun, EdgeFirst, Busy!Doing
<1>3. Busy!RestorationIsDurable'
  BY DEF Busy!RestorationIsDurable, Busy!Snapshot
<1> QED BY <1>1, <1>2, <1>3

LEMMA BusyStep == ASSUME BusyOneWay, OutageInv, [Busy!Next]_Busy!vars PROVE OutageInv'
<1> USE DEF OutageInv, Busy!provider, Busy!apply, Busy!history
<1>1. CASE UNCHANGED Busy!vars
  BY <1>1 DEF Busy!vars, RouteIsLast, SnapshotsRun, MineAreStopped, EdgeFirst,
              Busy!RestorationIsDurable, Busy!EdgeCoversOutage, Busy!Doing, Busy!Snapshot
<1>2. CASE Busy!StartApply
  BY <1>2, BusyFrame DEF Busy!StartApply, BusyOneWay
<1>3. CASE Busy!Refuse \/ Busy!Fault \/ Busy!Crash
  BY <1>3, BusyFrame DEF Busy!Refuse, Busy!Fault, Busy!Crash, Busy!Stop
<1>4. CASE Busy!CreateRoute
  <2>1. todo' = <<>> => place' = "check"
    BY <1>4 DEF Busy!CreateRoute, Busy!Doing, Busy!Attempt, Busy!Proceed, Busy!Stop
  <2>2. place' # "act" /\ UNCHANGED <<binding, mine, before>>
    BY <1>4 DEF Busy!CreateRoute, Busy!Attempt, Busy!Proceed, Busy!Stop
  <2>3. CASE UNCHANGED Busy!provider
    BY <2>1, <2>2, <2>3, BusyFrame
  <2>4. CASE ~ UNCHANGED Busy!provider
    <3>1. lastRoute' = (IF route = 0 THEN lastRoute + 1 ELSE lastRoute) /\ route' = lastRoute'
          /\ UNCHANGED <<running, fenced>>
      BY <1>4, <2>4 DEF Busy!CreateRoute, Busy!Attempt
    <3>2. lastRoute' \in Nat /\ route' = lastRoute' /\ route' # 0
      BY <3>1 DEF RouteIsLast
    <3> QED BY <2>1, <2>2, <3>1, <3>2 DEF RouteIsLast, SnapshotsRun, MineAreStopped, EdgeFirst,
              Busy!RestorationIsDurable, Busy!EdgeCoversOutage, Busy!Doing, Busy!Snapshot
  <2> QED BY <2>3, <2>4
<1>5. CASE Busy!SaveRoute
  <2>1. route \in Nat /\ binding \in Bindings
    BY DEF RouteIsLast, SnapshotsRun
  <2>2. binding' \in Bindings /\ binding'.snapshots = binding.snapshots
    <3> DEFINE b == [binding EXCEPT !.edge = route]
    <3>1. b \in Bindings /\ b.snapshots = binding.snapshots
      BY <2>1, EdgeSaved
    <3>2. binding' = [b EXCEPT !.state = "entering"]
      BY <1>5 DEF Busy!SaveRoute, Busy!Save
    <3> HIDE DEF b
    <3> QED BY <3>1, <3>2, StateSaved
  <2> QED BY <1>5, <2>2, BusyFrame DEF Busy!SaveRoute, Busy!Doing, Busy!Proceed
<1>6. CASE Busy!ConfirmRoute
  BY <1>6, BusyFrame DEF Busy!ConfirmRoute, Busy!Succeed, Busy!Stop
<1>7. CASE Busy!CheckExit
  <2>1. CASE Busy!Stop
    BY <1>7, <2>1, BusyFrame DEF Busy!CheckExit, Busy!Stop
  <2>2. CASE ~Busy!Stop
    <3>1. Busy!Restored /\ ~fenced /\ place' = "act" /\ todo' = todo /\ todo # <<>> /\ Head(todo).do = "edgeDisable"
          /\ UNCHANGED <<Busy!provider, binding, Busy!history>>
      BY <1>7, <2>2 DEF Busy!CheckExit, Busy!Proceed, Busy!Doing
    <3>2. mine = {}
      BY <3>1, RestoredRuns
    <3> QED BY <3>1, <3>2 DEF RouteIsLast, SnapshotsRun, MineAreStopped, EdgeFirst,
              Busy!RestorationIsDurable, Busy!EdgeCoversOutage, Busy!Doing, Busy!Snapshot
  <2> QED BY <2>1, <2>2
<1>8. CASE Busy!RemoveRoute
  <2>1. mine = {} /\ ~fenced
    BY <1>8 DEF Busy!RemoveRoute, Busy!Doing, EdgeFirst, Busy!Doing
  <2>2. (todo' = <<>> => place' = "check") /\ place' # "act" /\ UNCHANGED <<binding, mine>>
    BY <1>8 DEF Busy!RemoveRoute, Busy!Doing, Busy!Attempt, Busy!Proceed, Busy!Stop
  <2>3. route' \in {0, route} /\ UNCHANGED <<running, fenced, lastRoute>>
    BY <1>8 DEF Busy!RemoveRoute, Busy!Attempt
  <2> QED BY <2>1, <2>2, <2>3 DEF RouteIsLast, SnapshotsRun, MineAreStopped, EdgeFirst,
            Busy!RestorationIsDurable, Busy!EdgeCoversOutage, Busy!Doing, Busy!Snapshot
<1>9. CASE Busy!ForgetRoute
  <2>1. binding \in Bindings
    BY DEF SnapshotsRun
  <2>2. binding' \in Bindings /\ binding'.snapshots = binding.snapshots
    <3> DEFINE b == [binding EXCEPT !.edge = 0]
    <3>1. b \in Bindings /\ b.snapshots = binding.snapshots
      BY <2>1, EdgeSaved
    <3>2. binding' = [b EXCEPT !.state = "exiting"]
      BY <1>9 DEF Busy!ForgetRoute, Busy!Save
    <3> HIDE DEF b
    <3> QED BY <3>1, <3>2, StateSaved
  <2> QED BY <1>9, <2>2, BusyFrame DEF Busy!ForgetRoute, Busy!Succeed
<1>10. CASE Busy!CheckSuspend
  <2>1. CASE Busy!Stop
    <3>1. binding' = binding \/ Busy!Suspendable(Busy!On)
      BY <1>10 DEF Busy!CheckSuspend
    <3>2. Busy!Suspendable(Busy!On) => place' = "act"
      BY <1>10 DEF Busy!CheckSuspend, Busy!Proceed
    <3> QED BY <1>10, <2>1, <3>1, <3>2, BusyFrame DEF Busy!CheckSuspend, Busy!Stop
  <2>2. CASE ~Busy!Stop
    <3>1. /\ binding' = [[binding EXCEPT !.snapshots = Busy!Snapshots] EXCEPT !.state = "entering"]
          /\ Busy!Edge = "active" /\ \A x \in Busy!Workload : Busy!Snapshot(x) = "none" => x \in running
          /\ place' = "act" /\ todo' = todo /\ todo # <<>> /\ Head(todo).do = "suspend"
          /\ UNCHANGED <<Busy!provider, Busy!history>>
      BY <1>10, <2>2 DEF Busy!CheckSuspend, Busy!Suspendable, Busy!Proceed, Busy!Doing, Busy!Save
    <3>2. binding \in Bindings
      BY DEF SnapshotsRun
    <3>3. Busy!Snapshots = [w \in Busy!Workload |-> "running"]
      BY <3>1, <3>2 DEF Busy!Snapshots, Busy!Snapshot, Bindings
    <3>4. binding' \in Bindings /\ binding'.snapshots = [w \in Busy!Workload |-> "running"]
      BY <3>1, <3>2, <3>3 DEF Bindings
    <3>5. route # 0
      BY <3>1 DEF Busy!Edge
    <3>6. SnapshotsRun' /\ Busy!RestorationIsDurable'
      BY <3>1, <3>4 DEF SnapshotsRun, Busy!RestorationIsDurable, MineAreStopped, Busy!Snapshot
    <3> QED BY <3>1, <3>5, <3>6 DEF RouteIsLast, MineAreStopped, EdgeFirst,
                 Busy!EdgeCoversOutage, Busy!Doing
  <2> QED BY <2>1, <2>2
<1>11. CASE Busy!Suspend
  <2>1. route # 0 /\ \A w \in Busy!Workload : Busy!Snapshot(w) = "running"
    BY <1>11 DEF Busy!Suspend, Busy!Doing, EdgeFirst, SnapshotsRun, Busy!Doing
  <2>2. place' = "check" /\ UNCHANGED <<binding, route, fenced, lastRoute>>
    BY <1>11 DEF Busy!Suspend, Busy!Attempt, Busy!Succeed, Busy!Stop
  <2>3. \/ UNCHANGED <<running, mine>>
        \/ running' = running \ {Busy!On} /\ mine' = mine \cup (running \cap {Busy!On})
    BY <1>11 DEF Busy!Suspend, Busy!Attempt
  <2>4. MineAreStopped' /\ Busy!RestorationIsDurable'
    BY <2>1, <2>2, <2>3 DEF MineAreStopped, Busy!RestorationIsDurable, Busy!Snapshot
  <2> QED BY <2>1, <2>2, <2>4 DEF RouteIsLast, SnapshotsRun, EdgeFirst, Busy!EdgeCoversOutage,
               Busy!Doing, Busy!Snapshot
<1>12. CASE Busy!CheckResume
  BY <1>12 DEF Busy!CheckResume, Busy!Proceed, Busy!Stop, Busy!Doing, RouteIsLast, SnapshotsRun,
       MineAreStopped, EdgeFirst,
            Busy!RestorationIsDurable, Busy!EdgeCoversOutage, Busy!Doing, Busy!Snapshot
<1>13. CASE Busy!Resume
  <2>1. (todo' = <<>> => place' = "check") /\ place' # "act" /\ UNCHANGED <<binding, route, fenced, lastRoute>>
    BY <1>13 DEF Busy!Resume, Busy!Doing, Busy!Attempt, Busy!Proceed, Busy!Stop
  <2>2. UNCHANGED <<running, mine>> \/ (running' \in {running, running \cup {Busy!On}} /\ mine' = mine \ running')
    BY <1>13 DEF Busy!Resume, Busy!Attempt
  <2>3. Busy!On \in Busy!Workload
    BY <1>13, BusyHeadFits DEF Busy!Resume, Busy!Doing, Busy!On
  <2>4. MineAreStopped' /\ Busy!RestorationIsDurable' /\ mine' \subseteq mine
    BY <2>1, <2>2, <2>3 DEF MineAreStopped, Busy!RestorationIsDurable, Busy!Snapshot
  <2> QED BY <2>1, <2>4 DEF RouteIsLast, SnapshotsRun, EdgeFirst, Busy!EdgeCoversOutage,
               Busy!Doing, Busy!Snapshot
<1>14. CASE Busy!SaveResumed
  <2>1. binding \in Bindings
    BY DEF SnapshotsRun
  <2>2. binding' \in Bindings /\ binding'.snapshots = binding.snapshots
    BY <1>14, <2>1, StateSaved DEF Busy!SaveResumed, Busy!Save
  <2> QED BY <1>14, <2>2, BusyFrame DEF Busy!SaveResumed, Busy!Succeed
<1>15. CASE Busy!Fence
  <2>1. ASSUME NEW op \in {"fence", "unfence"}, Busy!CheckFence(op) PROVE OutageInv'
    <3>1. CASE Busy!Stop
      BY <2>1, <3>1, BusyFrame DEF Busy!CheckFence, Busy!Stop
    <3>2. CASE ~Busy!Stop
      <4>1. place' = "act" /\ todo' = todo /\ todo # <<>> /\ Head(todo).do = op /\ Busy!Edge = "active"
            /\ UNCHANGED <<Busy!provider, binding, Busy!history>>
        BY <2>1, <3>2 DEF Busy!CheckFence, Busy!Fenceable, Busy!Proceed, Busy!Doing
      <4>2. route # 0
        BY <4>1 DEF Busy!Edge
      <4> QED BY <4>1, <4>2 DEF RouteIsLast, SnapshotsRun, MineAreStopped, EdgeFirst,
                Busy!RestorationIsDurable, Busy!EdgeCoversOutage, Busy!Doing, Busy!Snapshot
    <3> QED BY <3>1, <3>2
  <2>2. ASSUME NEW op \in {"fence", "unfence"}, Busy!SetFence(op, op = "fence") PROVE OutageInv'
    <3>1. (todo' = <<>> => place' = "check") /\ place' # "act" /\ UNCHANGED <<binding, route, running, mine, lastRoute>>
      BY <2>2 DEF Busy!SetFence, Busy!Doing, Busy!Attempt, Busy!Proceed, Busy!Stop
    <3>2. op = "fence" => route # 0
      BY <2>2 DEF Busy!SetFence, Busy!Doing, EdgeFirst, Busy!Doing
    <3>3. fenced' = fenced \/ (fenced' <=> op = "fence")
      BY <2>2 DEF Busy!SetFence, Busy!Attempt
    <3> QED BY <3>1, <3>2, <3>3 DEF RouteIsLast, SnapshotsRun, MineAreStopped, EdgeFirst,
              Busy!RestorationIsDurable, Busy!EdgeCoversOutage, Busy!Doing, Busy!Snapshot
  <2>3. ASSUME NEW op, NEW s \in {"entering", "exiting"}, Busy!SaveFence(op, s) PROVE OutageInv'
    <3>1. binding \in Bindings
      BY DEF SnapshotsRun
    <3>2. binding' \in Bindings /\ binding'.snapshots = binding.snapshots
      BY <2>3, <3>1, StateSaved DEF Busy!SaveFence, Busy!Save
    <3> QED BY <2>3, <3>2, BusyFrame DEF Busy!SaveFence, Busy!Succeed
  <2>4. \/ \E op \in {"fence", "unfence"} : Busy!CheckFence(op)
        \/ \E op \in {"fence", "unfence"} : Busy!SetFence(op, op = "fence")
        \/ Busy!SaveFence("fence", "entering") \/ Busy!SaveFence("unfence", "exiting")
    BY <1>15 DEF Busy!Fence
  <2> QED BY <2>1, <2>2, <2>3, <2>4
<1>16. CASE Busy!VerifyEnter
  <2>1. binding \in Bindings
    BY DEF SnapshotsRun
  <2>2. binding' = binding \/ (binding' \in Bindings /\ binding'.snapshots = binding.snapshots)
    BY <1>16, <2>1, StateSaved DEF Busy!VerifyEnter, Busy!Save
  <2> QED BY <1>16, <2>2, BusyFrame DEF Busy!VerifyEnter, Busy!Succeed, Busy!Stop
<1>17. CASE Busy!VerifyExit
  <2>1. Busy!NoBinding \in Bindings
    BY DEF Busy!NoBinding, Bindings
  <2>2. binding' = binding \/ (binding' \in Bindings /\ mine = {})
    BY <1>17, <2>1, RestoredRuns DEF Busy!VerifyExit, Busy!Inactive
  <2> QED BY <1>17, <2>2, BusyFrame DEF Busy!VerifyExit, Busy!Succeed, Busy!Stop
<1>18. CASE Busy!Flip \/ Busy!MarkerAppears
  BY <1>18 DEF Busy!Flip, Busy!MarkerAppears, RouteIsLast, SnapshotsRun, MineAreStopped, EdgeFirst,
              Busy!RestorationIsDurable, Busy!EdgeCoversOutage, Busy!Doing, Busy!Snapshot
<1>19. ASSUME NEW w \in Busy!Workload, Busy!Drift(w) PROVE OutageInv'
  <2>1. mine' = mine \ {w} /\ running' \in {running \ {w}, running \cup {w}}
        /\ UNCHANGED <<route, fenced, lastRoute, binding, Busy!apply>>
    BY <1>19 DEF Busy!Drift
  <2> QED BY <2>1 DEF RouteIsLast, SnapshotsRun, MineAreStopped, EdgeFirst,
            Busy!RestorationIsDurable, Busy!EdgeCoversOutage, Busy!Doing, Busy!Snapshot
<1> QED BY <1>1, <1>2, <1>3, <1>4, <1>5, <1>6, <1>7, <1>8, <1>9, <1>10, <1>11, <1>12, <1>13, <1>14,
           <1>15, <1>16, <1>17, <1>18, <1>19 DEF Busy!Next, Busy!Handle

-----------------------------------------------------------------------------
(* A chain is made of its steps, and the way out begins with the fence.    *)
LEMMA QuietEnterChainFits == ASSUME Quiet!Assumption, shut \in BOOLEAN PROVE Quiet!EnterChain \in Seq(EnterStep)
<1> DEFINE first == Quiet!OnEnvironment("edgeEnable", Quiet!Edge = "active", Quiet!Edge = "unknown")
           each == [i \in 1..Len(Order) |-> Quiet!Step("suspend", Order[i], Order[i] \notin up, FALSE)]
           fence == Quiet!OnEnvironment("fence", shut, FALSE)
           final == Quiet!OnEnvironment("verifyEnter", Quiet!Active /\ bound.state = "active", FALSE)
<1>1. first \in EnterStep
  BY DEF Quiet!OnEnvironment, Quiet!Step, EnterStep, Steps
<1>2. final \in EnterStep
  BY DEF Quiet!OnEnvironment, Quiet!Step, EnterStep, Steps
<1>3. each \in Seq(EnterStep)
  <2>1. Len(Order) \in Nat /\ \A i \in 1..Len(Order) : Order[i] \in Quiet!Workload
    BY DEF Quiet!Assumption
  <2>2. each \in [1..Len(Order) -> EnterStep]
    BY <2>1 DEF Quiet!Step, EnterStep, Steps
  <2> HIDE DEF each
  <2> QED BY <2>1, <2>2, OnePerPlace
<1>4. Quiet!IfDatabase(fence) \in Seq(EnterStep)
  <2>1. Database => fence \in EnterStep
    BY DEF Quiet!OnEnvironment, Quiet!Step, EnterStep, Steps
  <2> HIDE DEF fence
  <2> QED BY <2>1 DEF Quiet!IfDatabase
<1>5. Quiet!EnterChain = <<first>> \o each \o Quiet!IfDatabase(fence) \o <<final>>
  BY DEF Quiet!EnterChain, Quiet!ForEach
<1> HIDE DEF first, each, fence, final
<1> QED BY <1>1, <1>2, <1>3, <1>4, <1>5, Chained

LEMMA QuietExitChainFits ==
  ASSUME Quiet!Assumption, shut \in BOOLEAN
  PROVE  /\ Quiet!ExitChain \in Seq(ExitStep)
         /\ Database =>
              Quiet!ExitChain # <<>> /\ Head(Quiet!ExitChain).do = "unfence" /\ Head(Quiet!ExitChain).noop = ~shut
<1> DEFINE unfence == Quiet!OnEnvironment("unfence", ~shut, FALSE)
           each == [i \in 1..Len(Quiet!Backwards) |->
                     Quiet!Step("resume", Quiet!Backwards[i], Quiet!RestoredOne(Quiet!Backwards[i]),
                          Quiet!Snapshot(Quiet!Backwards[i]) = "none")]
           disable == Quiet!OnEnvironment("edgeDisable", Quiet!Edge = "inactive", bound.edge = 0)
           verify == Quiet!OnEnvironment("verifyExit", FALSE, FALSE)
<1>1. unfence \in ExitStep /\ unfence.do = "unfence" /\ unfence.noop = ~shut
  BY DEF Quiet!OnEnvironment, Quiet!Step, ExitStep, Steps
<1>2. disable \in ExitStep
  BY DEF Quiet!OnEnvironment, Quiet!Step, ExitStep, Steps
<1>3. verify \in ExitStep
  BY DEF Quiet!OnEnvironment, Quiet!Step, ExitStep, Steps
<1>4. each \in Seq(ExitStep)
  <2>1. Len(Order) \in Nat /\ Quiet!Backwards \in [1..Len(Order) -> Quiet!Workload]
    BY DEF Quiet!Assumption, Quiet!Backwards
  <2>2. Len(Quiet!Backwards) = Len(Order)
    BY <2>1, OnePerPlace
  <2>3. each \in [1..Len(Order) -> ExitStep]
    BY <2>1, <2>2 DEF Quiet!Step, ExitStep, Steps, Quiet!RestoredOne
  <2> HIDE DEF each
  <2> QED BY <2>1, <2>3, OnePerPlace
<1>5. Quiet!ExitChain = Quiet!IfDatabase(unfence) \o each \o <<disable, verify>>
  BY DEF Quiet!ExitChain, Quiet!ForEach
<1> HIDE DEF unfence, each, disable, verify
<1>6. Quiet!IfDatabase(unfence) \in Seq(ExitStep) /\ (Database => Quiet!IfDatabase(unfence) = <<unfence>>)
  BY <1>1 DEF Quiet!IfDatabase
<1>7. Quiet!ExitChain \in Seq(ExitStep)
  BY <1>2, <1>3, <1>4, <1>5, <1>6, Chained
<1>8. <<disable, verify>> \in Seq(ExitStep)
  BY <1>2, <1>3
<1>9. ASSUME Database PROVE Quiet!ExitChain # <<>> /\ Head(Quiet!ExitChain) = unfence
  <2>1. Quiet!ExitChain = <<unfence>> \o each \o <<disable, verify>>
    BY <1>5, <1>6, <1>9
  <2> QED BY <1>1, <1>4, <1>8, <2>1, FirstOfChain
<1> QED BY <1>1, <1>7, <1>9

(* What is planned goes one way, and a fenced database is unfenced first   *)
(* on the way out.                                                         *)
LEMMA QuietChainFits ==
  ASSUME Quiet!Assumption, shut \in BOOLEAN, shut => Database
  PROVE  \/ Quiet!SkipNoops(Quiet!Chain) \in Seq(EnterStep)
         \/ /\ Quiet!SkipNoops(Quiet!Chain) \in Seq(ExitStep)
            /\ shut => Quiet!SkipNoops(Quiet!Chain) # <<>> /\ Head(Quiet!SkipNoops(Quiet!Chain)).do = "unfence"
<1>1. Quiet!Chain = Quiet!EnterChain \/ Quiet!Chain = Quiet!ExitChain \/ Quiet!Chain = <<>>
  BY DEF Quiet!Chain
<1>2. <<>> \in Seq(EnterStep)
  OBVIOUS
<1> QED BY <1>1, <1>2, QuietEnterChainFits, QuietExitChainFits, Skipped, SameSkip

(* The apply goes one way; the fence closes behind stopped workloads and   *)
(* opens before anything else.                                             *)
QuietOneWay ==
  /\ shut \in BOOLEAN /\ (shut => Database)
  /\ \/ left \in Seq(EnterStep)
     \/ left \in Seq(ExitStep) /\ (left # <<>> /\ shut => Head(left).do = "unfence")
  /\ Quiet!Doing("unfence", "save") => ~shut
  /\ left = <<>> => step = "check"

LEMMA QuietHeadFits ==
  ASSUME QuietOneWay, left # <<>>
  PROVE  /\ Head(left) \in EnterStep \/ Head(left) \in ExitStep
         /\ Head(left).do \in {"suspend", "resume"} => Head(left).on \in Quiet!Workload
         /\ Head(left).do = "fence" => Database /\ left \in Seq(EnterStep)
         /\ Head(left).do \in {"resume", "unfence", "edgeDisable", "verifyExit"} => left \notin Seq(EnterStep)
<1>1. \A S : left \in Seq(S) => Head(left) \in S
  OBVIOUS
<1> QED BY <1>1 DEF QuietOneWay, EnterStep, ExitStep, Steps

(* A step may leave the chain, go on to what remains of it, or stop.       *)
LEMMA QuietOneWayStays ==
  ASSUME QuietOneWay, left' = left \/ left' = <<>>, shut' = shut,
         left' = left => step' # "save" \/ step' = step, left' = <<>> => step' = "check"
  PROVE  QuietOneWay'
<1>1. <<>> \in Seq(EnterStep)
  OBVIOUS
<1> QED BY <1>1 DEF QuietOneWay, Quiet!Doing

LEMMA QuietOneWayProceeds ==
  ASSUME QuietOneWay, Quiet!Succeed, left # <<>>, shut' = shut, shut => Head(left).do # "unfence"
  PROVE  QuietOneWay'
<1>1. \A S : left \in Seq(S) => Quiet!SkipNoops(Tail(left)) \in Seq(S)
  <2>1. \A S : left \in Seq(S) => Tail(left) \in Seq(S)
    OBVIOUS
  <2> QED BY <2>1, Skipped, SameSkip
<1>2. CASE left \in Seq(EnterStep)
  BY <1>1, <1>2 DEF QuietOneWay, Quiet!Succeed, Quiet!Doing
<1>3. CASE left \in Seq(ExitStep) /\ ~shut
  BY <1>1, <1>3 DEF QuietOneWay, Quiet!Succeed, Quiet!Doing
<1> QED BY <1>2, <1>3 DEF QuietOneWay

LEMMA QuietOneWayStep == ASSUME Quiet!Assumption, QuietOneWay, [Quiet!Next]_Quiet!vars PROVE QuietOneWay'
<1> USE DEF Quiet!provider, Quiet!apply
<1>0. left = <<>> => step = "check"
  BY DEF QuietOneWay
<1>1. CASE UNCHANGED Quiet!vars \/ Quiet!Flip \/ Quiet!MarkerAppears \/ \E w \in Quiet!Workload : Quiet!Drift(w)
  BY <1>0, <1>1, QuietOneWayStays DEF Quiet!vars, Quiet!Flip, Quiet!MarkerAppears, Quiet!Drift
<1>2. CASE Quiet!StartApply
  <2>1. left' = Quiet!SkipNoops(Quiet!Chain) /\ shut' = shut /\ step' = step /\ left = <<>> /\ left' # <<>>
    BY <1>2 DEF Quiet!StartApply
  <2>2. \/ left' \in Seq(EnterStep)
        \/ left' \in Seq(ExitStep) /\ (shut => Head(left').do = "unfence")
    BY <2>1, QuietChainFits DEF QuietOneWay
  <2> QED BY <2>1, <2>2 DEF QuietOneWay, Quiet!Doing
<1>3. CASE Quiet!Refuse \/ Quiet!Fault \/ Quiet!Crash
  <2>1. Quiet!Stop /\ shut' = shut
    BY <1>3 DEF Quiet!Refuse, Quiet!Fault, Quiet!Crash
  <2> QED BY <2>1, QuietOneWayStays DEF Quiet!Stop
<1>4. CASE Quiet!CreateRoute \/ Quiet!RemoveRoute \/ Quiet!Resume
  <2>1. left # <<>> /\ shut' = shut
    BY <1>4 DEF Quiet!CreateRoute, Quiet!RemoveRoute, Quiet!Resume, Quiet!Doing, Quiet!Attempt
  <2>2. Quiet!Stop \/ (Quiet!Proceed("save") /\ Head(left).do # "unfence")
    BY <1>4 DEF Quiet!CreateRoute, Quiet!RemoveRoute, Quiet!Resume, Quiet!Doing, Quiet!Attempt
  <2>3. CASE Quiet!Stop
    BY <2>1, <2>3, QuietOneWayStays DEF Quiet!Stop
  <2>4. CASE Quiet!Proceed("save") /\ Head(left).do # "unfence"
    BY <2>1, <2>4 DEF Quiet!Proceed, QuietOneWay, Quiet!Doing
  <2> QED BY <2>2, <2>3, <2>4
<1>5. CASE Quiet!SaveRoute \/ Quiet!CheckExit \/ Quiet!CheckSuspend \/ Quiet!CheckResume
        \/ Quiet!CheckFence("fence") \/ Quiet!CheckFence("unfence")
  <2>1. left # <<>> /\ shut' = shut
    BY <1>5 DEF Quiet!SaveRoute, Quiet!CheckExit, Quiet!CheckSuspend, Quiet!CheckResume,
         Quiet!CheckFence, Quiet!Doing
  <2>2. Quiet!Stop \/ Quiet!Proceed("act") \/ Quiet!Proceed("confirm")
    BY <1>5 DEF Quiet!SaveRoute, Quiet!CheckExit, Quiet!CheckSuspend, Quiet!CheckResume,
         Quiet!CheckFence
  <2> QED BY <2>1, <2>2, QuietOneWayStays DEF Quiet!Proceed, Quiet!Stop
<1>6. CASE Quiet!ConfirmRoute \/ Quiet!ForgetRoute \/ Quiet!SaveResumed \/ Quiet!VerifyEnter \/ Quiet!VerifyExit
  BY <1>6, QuietOneWayStays, QuietOneWayProceeds
     DEF Quiet!ConfirmRoute, Quiet!ForgetRoute, Quiet!SaveResumed, Quiet!VerifyEnter,
       Quiet!VerifyExit, Quiet!Doing, Quiet!Stop
<1>7. CASE Quiet!Suspend
  BY <1>7, QuietOneWayStays, QuietOneWayProceeds
     DEF Quiet!Suspend, Quiet!Attempt, Quiet!Doing, Quiet!Stop
<1>8. ASSUME NEW op \in {"fence", "unfence"}, NEW state, Quiet!SaveFence(op, state) PROVE QuietOneWay'
  BY <1>8, QuietOneWayProceeds DEF Quiet!SaveFence, QuietOneWay, Quiet!Doing
<1>9. ASSUME NEW op \in {"fence", "unfence"}, Quiet!SetFence(op, op = "fence") PROVE QuietOneWay'
  <2>1. left # <<>> /\ Head(left).do = op /\ step = "act"
    BY <1>9 DEF Quiet!SetFence, Quiet!Doing
  <2>2. CASE left' = <<>>
    <3>1. <<>> \in Seq(EnterStep)
      OBVIOUS
    <3>2. shut' = (op = "fence") \/ shut' = shut
      BY <1>9 DEF Quiet!SetFence, Quiet!Attempt
    <3>3. (shut' => Database) /\ shut' \in BOOLEAN
      <4>1. CASE op = "fence"
        BY <2>1, <3>2, <4>1, QuietHeadFits DEF QuietOneWay
      <4>2. CASE op = "unfence"
        <5>1. (op = "fence") = FALSE
          BY <4>2
        <5>2. shut' = FALSE \/ shut' = shut
          BY <3>2, <5>1
        <5>3. shut \in BOOLEAN /\ (shut => Database)
          BY DEF QuietOneWay
        <5>4. CASE shut' = shut
          BY <5>3, <5>4
        <5>5. CASE shut' = FALSE
          BY <5>5
        <5> QED BY <5>2, <5>4, <5>5
      <4> QED BY <4>1, <4>2
    <3>4. step' = "check"
      BY <1>9, <2>1, <2>2 DEF Quiet!SetFence, Quiet!Attempt, Quiet!Proceed, Quiet!Stop
    <3> QED BY <2>2, <3>1, <3>3, <3>4 DEF QuietOneWay, Quiet!Doing
  <2>3. CASE left' = left
    <3>1. shut' = (op = "fence")
      BY <1>9, <2>1, <2>3 DEF Quiet!SetFence, Quiet!Attempt, Quiet!Stop
    <3> QED BY <2>1, <2>3, <3>1, QuietHeadFits DEF QuietOneWay, Quiet!Doing
  <2> QED BY <1>9, <2>2, <2>3 DEF Quiet!SetFence, Quiet!Attempt, Quiet!Proceed, Quiet!Stop
<1> QED BY <1>1, <1>2, <1>3, <1>4, <1>5, <1>6, <1>7, <1>8, <1>9
           DEF Quiet!Next, Quiet!Handle, Quiet!Fence

-----------------------------------------------------------------------------
(* The edge is the one the binding names, once its id is saved.            *)
RouteIsBound ==
  /\ {edge, last} \subseteq Nat /\ (edge \in {0, bound.edge} \/ Quiet!Doing("edgeEnable", "save"))
  /\ Quiet!Doing("edgeDisable", "save") => edge = 0

(* Where nobody else stops a workload, what is stopped has a snapshot, and *)
(* all have one from the first suspension on.                              *)
StoppedAreSnapshot ==
  /\ bound \in Bindings
  /\ \A w \in Quiet!Workload \ up : Quiet!Snapshot(w) # "none"
  /\ Quiet!Doing("suspend", "act") \/ bound.state = "active" => \A w \in Quiet!Workload : Quiet!Snapshot(w) # "none"

(* The fence closes when nothing runs.                                     *)
FenceIsQuiet == Quiet!Doing("fence", "act") \/ shut => up = {}

UndisturbedInv == RouteIsBound /\ StoppedAreSnapshot /\ FenceIsQuiet /\ moves = 0

LEMMA QuietInit == ASSUME Quiet!Init PROVE QuietOneWay /\ UndisturbedInv
<1>1. Quiet!NoBinding \in Bindings
  BY DEF Quiet!NoBinding, Bindings
<1>2. <<>> \in Seq(EnterStep)
  OBVIOUS
<1>3. up = Quiet!Workload
  BY DEF Quiet!Init
<1>4. QuietOneWay /\ RouteIsBound
  <2>1. shut = FALSE /\ left = <<>> /\ step = "check" /\ edge = 0 /\ last = 0
    BY DEF Quiet!Init
  <2>2. QuietOneWay
    BY <1>2, <2>1 DEF QuietOneWay, Quiet!Doing
  <2>3. {edge, last} \subseteq Nat
    BY <2>1
  <2> QED BY <2>1, <2>2, <2>3 DEF RouteIsBound, Quiet!Doing
<1>5. StoppedAreSnapshot /\ FenceIsQuiet
  BY <1>1, <1>3 DEF Quiet!Init, StoppedAreSnapshot, FenceIsQuiet, Quiet!Doing, Quiet!NoBinding
<1> QED BY <1>4, <1>5 DEF Quiet!Init, UndisturbedInv

(* Handlers that look, save or stop change nothing at the provider.        *)
LEMMA QuietFrame ==
  ASSUME UndisturbedInv, UNCHANGED <<Quiet!provider, moves>>, bound' = bound,
         step' \notin {"act", "save"} \/ UNCHANGED <<left, step>>, ~Quiet!Doing("edgeEnable", "save")
  PROVE  UndisturbedInv'
<1> USE DEF UndisturbedInv, Quiet!provider
<1>1. RouteIsBound'
  BY DEF RouteIsBound, Quiet!Doing
<1>2. StoppedAreSnapshot'
  BY DEF StoppedAreSnapshot, Quiet!Doing, Quiet!Snapshot
<1>3. FenceIsQuiet'
  BY DEF FenceIsQuiet, Quiet!Doing
<1> QED BY <1>1, <1>2, <1>3

(* All workloads run when the exit is verified.                            *)
LEMMA QuietRestored == ASSUME UndisturbedInv, Quiet!Restored PROVE Quiet!Workload \subseteq up
<1>1. \A w \in Quiet!Workload : bound.snapshots[w] \in {"none", "running"}
  BY DEF UndisturbedInv, StoppedAreSnapshot, Bindings
<1> QED BY <1>1 DEF Quiet!Restored, Quiet!RestoredOne, Quiet!Snapshot

(* A handler that ends by saving a state other than "active".              *)
LEMMA QuietSave ==
  ASSUME UndisturbedInv, UNCHANGED <<Quiet!provider, moves>>, NEW s \in {"entering", "exiting"},
         bound' = [bound EXCEPT !.state = s], step' \in {"check", "confirm"}, ~Quiet!Doing("edgeEnable", "save")
  PROVE  UndisturbedInv'
<1> USE DEF UndisturbedInv, Quiet!provider
<1>1. bound' \in Bindings /\ bound'.snapshots = bound.snapshots /\ bound'.edge = bound.edge /\ bound'.state = s
  BY StateSaved DEF StoppedAreSnapshot
<1>2. RouteIsBound'
  BY <1>1 DEF RouteIsBound, Quiet!Doing
<1>3. StoppedAreSnapshot'
  BY <1>1 DEF StoppedAreSnapshot, Quiet!Doing, Quiet!Snapshot
<1>4. FenceIsQuiet'
  BY DEF FenceIsQuiet, Quiet!Doing
<1> QED BY <1>2, <1>3, <1>4

LEMMA QuietStep == ASSUME Quiet!Assumption, QuietOneWay, UndisturbedInv, [Quiet!Next]_Quiet!vars PROVE UndisturbedInv'
<1> USE DEF UndisturbedInv, Quiet!provider, Quiet!apply
<1>0. bound \in Bindings
  BY DEF StoppedAreSnapshot
<1>1. CASE UNCHANGED Quiet!vars \/ Quiet!Flip \/ Quiet!MarkerAppears
  BY <1>1 DEF Quiet!vars, Quiet!counters, Quiet!Flip, Quiet!MarkerAppears, RouteIsBound,
       StoppedAreSnapshot, FenceIsQuiet, Quiet!Doing, Quiet!Snapshot
<1>2. CASE Quiet!StartApply
  <2>1. left = <<>> /\ step = "check" /\ step' = "check"
    BY <1>2 DEF Quiet!StartApply, QuietOneWay
  <2> QED BY <1>2, <2>1, QuietFrame DEF Quiet!StartApply, Quiet!Doing, Quiet!counters
<1>3. CASE Quiet!Refuse \/ Quiet!Fault \/ Quiet!Crash
  <2>1. Quiet!Stop /\ UNCHANGED <<Quiet!provider, moves, bound>>
    BY <1>3 DEF Quiet!Refuse, Quiet!Fault, Quiet!Crash, Quiet!counters
  <2>2. ~Quiet!Doing("edgeEnable", "save")
    BY <1>3 DEF Quiet!Refuse, Quiet!Fault, Quiet!Crash, Quiet!Doing
  <2> QED BY <2>1, <2>2, QuietFrame DEF Quiet!Stop
<1>4. CASE Quiet!CreateRoute
  <2>1. left # <<>> /\ step = "check" /\ ~Quiet!Doing("edgeEnable", "save") /\ moves' = moves /\ bound' = bound
    BY <1>4 DEF Quiet!CreateRoute, Quiet!Doing
  <2>2. CASE Quiet!Stop /\ UNCHANGED Quiet!provider
    BY <2>1, <2>2, QuietFrame DEF Quiet!Stop
  <2>3. CASE ~(Quiet!Stop /\ UNCHANGED Quiet!provider)
    <3>1. /\ last' = (IF edge = 0 THEN last + 1 ELSE last)
          /\ edge' = last' /\ UNCHANGED <<up, shut>> /\ Quiet!Proceed("save") /\ Head(left).do = "edgeEnable"
          /\ ~Head(left).blocked
      BY <1>4, <2>3 DEF Quiet!CreateRoute, Quiet!Attempt, Quiet!Doing
    <3>2. Quiet!Doing("edgeEnable", "save")'
      BY <2>1, <3>1 DEF Quiet!Doing, Quiet!Proceed
    <3>3. RouteIsBound'
      <4>1. {edge', last'} \subseteq Nat
        BY <3>1 DEF RouteIsBound
      <4>2. ~Quiet!Doing("edgeDisable", "save")'
        BY <3>1 DEF Quiet!Doing, Quiet!Proceed
      <4> QED BY <3>2, <4>1, <4>2 DEF RouteIsBound
    <3> QED BY <2>1, <3>1, <3>2, <3>3 DEF StoppedAreSnapshot, FenceIsQuiet, Quiet!Doing,
                 Quiet!Snapshot, Quiet!Proceed
  <2> QED BY <2>2, <2>3
<1>5. CASE Quiet!SaveRoute
  <2> DEFINE b == [bound EXCEPT !.edge = edge]
  <2>1. b \in Bindings /\ b.snapshots = bound.snapshots /\ b.edge = edge
    BY <1>0, EdgeSaved DEF RouteIsBound
  <2>2. bound' = [b EXCEPT !.state = "entering"] /\ step' = "confirm" /\ UNCHANGED <<Quiet!provider, moves>>
    BY <1>5 DEF Quiet!SaveRoute, Quiet!Save, Quiet!Proceed, Quiet!counters
  <2> HIDE DEF b
  <2>3. bound' \in Bindings /\ bound'.snapshots = bound.snapshots /\ bound'.edge = edge
        /\ bound'.state = "entering"
    BY <2>1, <2>2, StateSaved
  <2> QED BY <2>2, <2>3 DEF RouteIsBound, StoppedAreSnapshot, FenceIsQuiet, Quiet!Doing,
               Quiet!Snapshot
<1>6. CASE Quiet!ConfirmRoute
  BY <1>6, QuietFrame DEF Quiet!ConfirmRoute, Quiet!Doing, Quiet!Succeed, Quiet!Stop, Quiet!counters
<1>7. CASE Quiet!CheckExit
  <2>1. ~Quiet!Doing("edgeEnable", "save") /\ UNCHANGED <<Quiet!provider, moves, bound>>
          /\ (Quiet!Stop \/ Quiet!Proceed("act"))
        /\ Head(left).do = "edgeDisable"
    BY <1>7 DEF Quiet!CheckExit, Quiet!Doing, Quiet!counters
  <2>2. CASE Quiet!Stop
    BY <2>1, <2>2, QuietFrame DEF Quiet!Stop
  <2>3. CASE Quiet!Proceed("act")
    BY <2>1, <2>3 DEF Quiet!Proceed, RouteIsBound, StoppedAreSnapshot, FenceIsQuiet, Quiet!Doing,
         Quiet!Snapshot
  <2> QED BY <2>1, <2>2, <2>3
<1>8. CASE Quiet!RemoveRoute
  <2>1. edge \in {0, bound.edge} /\ UNCHANGED <<up, shut, last, bound, moves>>
        /\ Head(left).do = "edgeDisable"
    BY <1>8 DEF Quiet!RemoveRoute, Quiet!Doing, RouteIsBound, Quiet!Attempt
  <2>2. step' \in {"check", "save"} /\ edge' \in {0, edge} /\ (step' = "save" => edge' = 0 /\ left' = left)
    BY <1>8, <2>1 DEF Quiet!RemoveRoute, Quiet!Attempt, Quiet!Proceed, Quiet!Stop
  <2> QED BY <2>1, <2>2 DEF RouteIsBound, StoppedAreSnapshot, FenceIsQuiet, Quiet!Doing,
               Quiet!Snapshot
<1>9. CASE Quiet!ForgetRoute
  <2> DEFINE b == [bound EXCEPT !.edge = 0]
  <2>1. b \in Bindings /\ b.snapshots = bound.snapshots /\ b.edge = 0
    BY <1>0, EdgeSaved
  <2>2. bound' = [b EXCEPT !.state = "exiting"] /\ step' = "check" /\ UNCHANGED <<Quiet!provider, moves>> /\ edge = 0
    BY <1>9 DEF Quiet!ForgetRoute, Quiet!Save, Quiet!Succeed, Quiet!counters, RouteIsBound
  <2> HIDE DEF b
  <2>3. bound' \in Bindings /\ bound'.snapshots = bound.snapshots /\ bound'.state = "exiting"
    BY <2>1, <2>2, StateSaved
  <2> QED BY <2>2, <2>3 DEF RouteIsBound, StoppedAreSnapshot, FenceIsQuiet, Quiet!Doing,
               Quiet!Snapshot
<1>10. CASE Quiet!CheckSuspend
  <2>1. ~Quiet!Doing("edgeEnable", "save") /\ UNCHANGED <<Quiet!provider, moves>> /\ Head(left).do = "suspend"
    BY <1>10 DEF Quiet!CheckSuspend, Quiet!Doing, Quiet!counters
  <2>2. CASE Quiet!Stop /\ bound' = bound
    BY <2>1, <2>2, QuietFrame DEF Quiet!Stop
  <2>3. CASE ~(Quiet!Stop /\ bound' = bound)
    <3>1. /\ bound' = [[bound EXCEPT !.snapshots = Quiet!Snapshots] EXCEPT !.state = "entering"]
          /\ \A x \in Quiet!Workload : Quiet!Snapshot(x) = "none" => x \in up
          /\ Quiet!Proceed("act")
      BY <1>10, <2>3 DEF Quiet!CheckSuspend, Quiet!Suspendable, Quiet!Save
    <3>2. Quiet!Snapshots = [w \in Quiet!Workload |-> "running"]
      BY <1>0, <3>1 DEF Quiet!Snapshots, Quiet!Snapshot, Bindings
    <3>3. /\ bound' \in Bindings /\ bound'.snapshots = [w \in Quiet!Workload |-> "running"]
          /\ bound'.edge = bound.edge
      BY <1>0, <3>1, <3>2 DEF Bindings
    <3> QED BY <2>1, <3>1, <3>3 DEF RouteIsBound, StoppedAreSnapshot, FenceIsQuiet, Quiet!Doing,
                 Quiet!Snapshot, Quiet!Proceed
  <2> QED BY <2>2, <2>3
<1>11. CASE Quiet!Suspend
  <2>1. step' = "check" /\ UNCHANGED <<bound, edge, shut, last, moves>> /\ ~Quiet!Doing("edgeEnable", "save")
        /\ up' \subseteq up /\ Quiet!Doing("suspend", "act")
    BY <1>11 DEF Quiet!Suspend, Quiet!Attempt, Quiet!Succeed, Quiet!Stop, Quiet!Doing
  <2>2. \A w \in Quiet!Workload : Quiet!Snapshot(w) # "none"
    BY <2>1 DEF StoppedAreSnapshot
  <2> QED BY <2>1, <2>2 DEF RouteIsBound, StoppedAreSnapshot, FenceIsQuiet, Quiet!Doing,
               Quiet!Snapshot
<1>12. CASE Quiet!CheckResume
  <2>1. ~Quiet!Doing("edgeEnable", "save") /\ UNCHANGED <<Quiet!provider, moves, bound>>
          /\ (Quiet!Stop \/ Quiet!Proceed("act"))
        /\ Head(left).do = "resume"
    BY <1>12 DEF Quiet!CheckResume, Quiet!Doing, Quiet!counters
  <2>2. CASE Quiet!Stop
    BY <2>1, <2>2, QuietFrame DEF Quiet!Stop
  <2>3. CASE Quiet!Proceed("act")
    BY <2>1, <2>3 DEF Quiet!Proceed, RouteIsBound, StoppedAreSnapshot, FenceIsQuiet, Quiet!Doing,
         Quiet!Snapshot
  <2> QED BY <2>1, <2>2, <2>3
<1>13. CASE Quiet!Resume
  <2>1. step' \in {"check", "save"} /\ UNCHANGED <<bound, edge, shut, last, moves>> /\ (step' = "save" => left' = left)
        /\ up \subseteq up' /\ left # <<>> /\ Head(left).do = "resume"
    BY <1>13 DEF Quiet!Resume, Quiet!Attempt, Quiet!Proceed, Quiet!Stop, Quiet!Doing
  <2>2. ~shut
    BY <2>1, QuietHeadFits DEF QuietOneWay
  <2> QED BY <2>1, <2>2 DEF RouteIsBound, StoppedAreSnapshot, FenceIsQuiet, Quiet!Doing,
               Quiet!Snapshot
<1>14. CASE Quiet!SaveResumed
  BY <1>14, QuietSave DEF Quiet!SaveResumed, Quiet!Save, Quiet!Doing, Quiet!Succeed, Quiet!counters
<1>15. ASSUME NEW op \in {"fence", "unfence"}, Quiet!CheckFence(op) PROVE UndisturbedInv'
  <2>1. ~Quiet!Doing("edgeEnable", "save") /\ UNCHANGED <<Quiet!provider, moves, bound>>
          /\ (Quiet!Stop \/ (up = {} /\ Quiet!Proceed("act")))
        /\ Head(left).do = op
    BY <1>15 DEF Quiet!CheckFence, Quiet!Fenceable, Quiet!Doing, Quiet!counters
  <2>2. CASE Quiet!Stop
    BY <2>1, <2>2, QuietFrame DEF Quiet!Stop
  <2>3. CASE up = {} /\ Quiet!Proceed("act")
    BY <2>1, <2>3 DEF Quiet!Proceed, RouteIsBound, StoppedAreSnapshot, FenceIsQuiet, Quiet!Doing,
         Quiet!Snapshot
  <2> QED BY <2>1, <2>2, <2>3
<1>16. ASSUME NEW op \in {"fence", "unfence"}, Quiet!SetFence(op, op = "fence") PROVE UndisturbedInv'
  <2>1. step' \in {"check", "save"} /\ UNCHANGED <<bound, edge, up, last, moves>> /\ (step' = "save" => left' = left)
        /\ left # <<>> /\ Head(left).do = op /\ ~Quiet!Doing("edgeEnable", "save")
    BY <1>16 DEF Quiet!SetFence, Quiet!Attempt, Quiet!Proceed, Quiet!Stop, Quiet!Doing
  <2>2. op = "fence" => up = {}
    BY <1>16 DEF Quiet!SetFence, FenceIsQuiet
  <2>3. shut' = shut \/ (shut' <=> op = "fence")
    BY <1>16 DEF Quiet!SetFence, Quiet!Attempt
  <2> QED BY <2>1, <2>2, <2>3 DEF RouteIsBound, StoppedAreSnapshot, FenceIsQuiet, Quiet!Doing,
               Quiet!Snapshot
<1>17. ASSUME NEW op \in {"fence", "unfence"}, NEW s \in {"entering", "exiting"}, Quiet!SaveFence(op, s) PROVE UndisturbedInv'
  BY <1>17, QuietSave DEF Quiet!SaveFence, Quiet!Save, Quiet!Doing, Quiet!Succeed, Quiet!counters
<1>18. CASE Quiet!VerifyEnter
  <2>1. ~Quiet!Doing("edgeEnable", "save") /\ UNCHANGED <<Quiet!provider, moves>> /\ step' = "check"
    BY <1>18 DEF Quiet!VerifyEnter, Quiet!Doing, Quiet!Succeed, Quiet!Stop, Quiet!counters
  <2>2. CASE bound' = bound
    BY <2>1, <2>2, QuietFrame
  <2>3. CASE bound' # bound
    <3>1. bound' = [bound EXCEPT !.state = "active"] /\ up = {}
      BY <1>18, <2>3 DEF Quiet!VerifyEnter, Quiet!Save, Quiet!Active
    <3>2. bound' \in Bindings /\ bound'.snapshots = bound.snapshots /\ bound'.edge = bound.edge
      BY <1>0, <3>1, StateSaved
    <3> QED BY <2>1, <3>1, <3>2 DEF RouteIsBound, StoppedAreSnapshot, FenceIsQuiet, Quiet!Doing,
                 Quiet!Snapshot
  <2> QED BY <2>2, <2>3
<1>19. CASE Quiet!VerifyExit
  <2>1. ~Quiet!Doing("edgeEnable", "save") /\ UNCHANGED <<Quiet!provider, moves>> /\ step' = "check"
    BY <1>19 DEF Quiet!VerifyExit, Quiet!Doing, Quiet!Succeed, Quiet!Stop, Quiet!counters
  <2>2. CASE bound' = bound
    BY <2>1, <2>2, QuietFrame
  <2>3. CASE bound' # bound
    <3>1. bound' = Quiet!NoBinding /\ Quiet!Inactive
      BY <1>19, <2>3 DEF Quiet!VerifyExit
    <3>2. edge = 0 /\ Quiet!Workload \subseteq up
      BY <3>1, QuietRestored DEF Quiet!Inactive, Quiet!Edge
    <3>3. Quiet!NoBinding \in Bindings /\ Quiet!NoBinding.state = "none"
      BY DEF Quiet!NoBinding, Bindings
    <3> QED BY <2>1, <3>1, <3>2, <3>3 DEF RouteIsBound, StoppedAreSnapshot, FenceIsQuiet,
                 Quiet!Doing, Quiet!Snapshot
  <2> QED BY <2>2, <2>3
<1>20. ASSUME NEW w \in Quiet!Workload, Quiet!Drift(w) PROVE FALSE
  BY <1>20 DEF Quiet!Drift
<1> QED BY <1>1, <1>2, <1>3, <1>4, <1>5, <1>6, <1>7, <1>8, <1>9, <1>10, <1>11, <1>12, <1>13, <1>14,
           <1>15, <1>16, <1>17, <1>18, <1>19, <1>20 DEF Quiet!Next, Quiet!Handle, Quiet!Fence

LEMMA QuietIsSafe == QuietOneWay /\ UndisturbedInv => Quiet!FencedMeansQuiet /\ Quiet!ActiveIsReversible
BY DEF UndisturbedInv, RouteIsBound, StoppedAreSnapshot, FenceIsQuiet, Quiet!FencedMeansQuiet,
     Quiet!ActiveIsReversible

(* Maintenance takes steps only where it moves; and in a busy environment, *)
(* workloads that were stopped before are part of its own.                 *)
LEMMA BusyInvariance == MCSpec => [](BusyOneWay /\ OutageInv)
<1>1. Busy!Assumption
  BY MaintenanceAssumption
<1>2. MCInit => BusyOneWay /\ OutageInv
  BY BusyInit DEF MCInit
<1>3. [MCNext]_<<part, vars, accesses, busy, quiet>> => [Busy!Next]_Busy!vars
  BY DEF MCNext, busy, Busy!vars, Busy!provider, Busy!apply, Busy!history, Busy!counters
<1> QED BY <1>1, <1>2, <1>3, BusyOneWayStep, BusyStep, PTL DEF MCSpec

LEMMA QuietInvariance == MCSpec => [](QuietOneWay /\ UndisturbedInv)
<1>1. Quiet!Assumption
  BY MaintenanceAssumption
<1>2. MCInit => QuietOneWay /\ UndisturbedInv
  BY QuietInit DEF MCInit
<1>3. [MCNext]_<<part, vars, accesses, busy, quiet>> => [Quiet!Next]_Quiet!vars
  BY DEF MCNext, quiet, Quiet!vars, Quiet!provider, Quiet!apply, Quiet!history, Quiet!counters
<1> QED BY <1>1, <1>2, <1>3, QuietOneWayStep, QuietStep, PTL DEF MCSpec

(* Wherever an apply dies, a workload Hypervibe stopped has a snapshot     *)
(* that says to start it, and the edge answers while anything is down; and *)
(* where nobody interferes, the database refuses writes only while nothing *)
(* runs, and active maintenance can be left.                               *)
THEOREM MaintenanceHolds == MCSpec => []MaintenanceIsSafe
<1>1. OutageInv => Busy!RestorationIsDurable /\ Busy!EdgeCoversOutage
  BY DEF OutageInv
<1>2. OutageInv /\ QuietOneWay /\ UndisturbedInv => MaintenanceIsSafe
  BY <1>1, QuietIsSafe DEF MaintenanceIsSafe
<1> QED BY <1>2, BusyInvariance, QuietInvariance, PTL
=============================================================================
