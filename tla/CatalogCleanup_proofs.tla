----------------------- MODULE CatalogCleanup_proofs -----------------------
(***************************************************************************)
(* Theorems about CatalogCleanup for every set of operations, attempts,    *)
(* undos and societies: what the collector may take, and when.             *)
(*                                                                         *)
(* Every step of the composition is a step of CatalogApply or none, so its *)
(* invariants hold here too.  On top of them: a collector deletes only     *)
(* after it has swapped the pointer and found the operations it had listed *)
(* closed, and closed operations stay closed.                              *)
(***************************************************************************)
EXTENDS CatalogCleanup, CatalogPublication_proofs

(***************************************************************************)
(* What any step of the control plane keeps.                               *)
(***************************************************************************)

\* An attempt that owns its operation keeps it.
LEMMA OwnersStay ==
  ASSUME TypeOK, [Next]_vars, NEW b \in Attempts, pc[b] \in Owned
  PROVE  pc'[b] \in Owned /\ target'[b] = target[b]
<1> USE DEF TypeOK
<1>1. ASSUME NEW a \in Attempts, NEW op \in Operations, Start(a, op)
      PROVE  pc'[b] \in Owned /\ target'[b] = target[b]
  BY <1>1 DEF Start, Before, GoTo, Owned, Working
<1>2. ASSUME NEW a \in Attempts, Load(a) \/ Create(a) \/ Claim(a)
      PROVE  pc'[b] \in Owned /\ target'[b] = target[b]
  BY <1>2 DEF Load, Create, Claim, Before, Leave, GoTo, Owned, Working
<1>3. ASSUME NEW a \in Attempts, Recover(a) \/ PrepareGeneration(a) \/ PublishGeneration(a)
      PROVE  pc'[b] \in Owned /\ target'[b] = target[b]
  BY <1>3 DEF Recover, PrepareGeneration, PublishGeneration, GoTo, Owned, Working
<1>4. ASSUME NEW a \in Attempts, NEW new, NEW step \in Owned,
             Save(a, new, step), UNCHANGED target
      PROVE  pc'[b] \in Owned /\ target'[b] = target[b]
  BY <1>4 DEF Save, GoTo, Owned
<1>5. {"collect", "prepare", "publish", "release"} \subseteq Owned
  BY DEF Owned, Working
<1>6. ASSUME NEW a \in Attempts, NEW s \in Societies, NEW entry \in {a, Kept},
             CollectSociety(a, s, entry)
      PROVE  pc'[b] \in Owned /\ target'[b] = target[b]
  BY <1>4, <1>5, <1>6 DEF CollectSociety
<1>7. ASSUME NEW a \in Attempts,
             SaveCandidate(a) \/ SaveGeneration(a) \/ ClosePublished(a) \/ CloseStale(a)
      PROVE  pc'[b] \in Owned /\ target'[b] = target[b]
  BY <1>4, <1>5, <1>7 DEF SaveCandidate, SaveGeneration, ClosePublished, CloseStale
<1>8. ASSUME NEW a \in Attempts, Release(a) \/ Fail(a) \/ Crash(a)
      PROVE  pc'[b] \in Owned /\ target'[b] = target[b]
  BY <1>8 DEF Release, Fail, Crash, Before, Leave, End, GoTo, Owned, Working
<1>9. ASSUME NEW op \in Operations, LeaseExpires(op)
      PROVE  pc'[b] \in Owned /\ target'[b] = target[b]
  BY <1>9 DEF LeaseExpires, attemptVars
<1>10. ASSUME NEW u \in Undos, Undo(u)
       PROVE  pc'[b] \in Owned /\ target'[b] = target[b]
  BY <1>10 DEF Undo, UndoRead, UndoSwap, UndoFail, attemptVars
<1>11. CASE UNCHANGED vars
  BY <1>11 DEF vars, attemptVars
<1> QED
  BY <1>1, <1>2, <1>3, <1>6, <1>7, <1>8, <1>9, <1>10, <1>11 DEF Next, Step

\* The history only grows, an undo reads the pointer once, and only an attempt
\* that is about to prepare its generation writes a roster, its own.
LEMMA StoreStays ==
  ASSUME TypeOK, Steps, PointersArePast, [Next]_vars
  PROVE  /\ history' = history \/ \E g \in Attempts : history' = Append(history, g)
         /\ \A u \in Undos : upc[u] # "idle" => upc'[u] # "idle" /\ seen'[u] = seen[u]
         /\ \A b \in Attempts : rosters'[b] = rosters[b] \/ pc[b] = "prepare"
<1> USE DEF TypeOK
<1>1. ASSUME NEW a \in Attempts, Step(a)
      PROVE  /\ history' = history \/ \E g \in Attempts : history' = Append(history, g)
             /\ UNCHANGED undoVars
             /\ \A b \in Attempts : rosters'[b] = rosters[b] \/ pc[b] = "prepare"
  <2>1. CASE PublishGeneration(a)
    <3>1. local[a].generation \in Attempts
      BY <2>1 DEF PublishGeneration, Before, Steps, StepFacts, Record
    <3> QED
      BY <2>1, <3>1 DEF PublishGeneration
  <2>2. CASE PrepareGeneration(a)
    BY <2>2 DEF PrepareGeneration, Before
  <2>3. CASE Load(a) \/ Create(a) \/ Claim(a) \/ Recover(a) \/ Release(a)
    BY <2>3 DEF Load, Create, Claim, Recover, Release, storeVars
  <2>4. CASE SaveCandidate(a) \/ SaveGeneration(a) \/ ClosePublished(a) \/ CloseStale(a)
    BY <2>4 DEF SaveCandidate, SaveGeneration, ClosePublished, CloseStale
  <2>5. ASSUME NEW s \in Societies, NEW entry \in {a, Kept}, CollectSociety(a, s, entry)
        PROVE  UNCHANGED <<history, undoVars, rosters>>
    BY <2>5 DEF CollectSociety
  <2> QED
    BY <1>1, <2>1, <2>2, <2>3, <2>4, <2>5 DEF Step
<1>2. ASSUME NEW a \in Attempts,
             Fail(a) \/ Crash(a) \/ \E op \in Operations : Start(a, op)
      PROVE  UNCHANGED <<history, undoVars, rosters>>
  BY <1>2 DEF Fail, Crash, Start, storeVars
<1>3. ASSUME NEW op \in Operations, LeaseExpires(op)
      PROVE  UNCHANGED <<history, undoVars, rosters>>
  BY <1>3 DEF LeaseExpires
<1>4. ASSUME NEW u \in Undos, Undo(u)
      PROVE  /\ history' = history \/ \E g \in Attempts : history' = Append(history, g)
             /\ \A w \in Undos : upc[w] # "idle" => upc'[w] # "idle" /\ seen'[w] = seen[w]
             /\ rosters' = rosters
  <2>1. UndoSwap(u) => seen[u].previous \in Attempts
    BY DEF UndoSwap, PointersArePast, Pointer
  <2> QED
    BY <1>4, <2>1 DEF Undo, UndoRead, UndoSwap, UndoFail, storeVars
<1>5. CASE UNCHANGED vars
  BY <1>5 DEF vars, storeVars, undoVars
<1> QED
  BY <1>1, <1>2, <1>3, <1>4, <1>5 DEF Next, undoVars

\* So what was served stays as it was, and what was closed stays closed.
LEMMA ServedStaysPut ==
  ASSUME DInv, [Next]_vars
  PROVE  /\ Len(history) \in Nat /\ Len(history') \in Nat
         /\ Len(history) <= Len(history')
         /\ Len(history') <= Len(history) + 1
         /\ \A i \in 1 .. Len(history) :
              history'[i] = history[i] /\ rosters'[history[i]] = rosters[history[i]]
<1>1. history \in Seq(Attempts) /\ Len(history) \in Nat
  BY DEF DInv, IInv, TypeOK
<1>2. history' = history \/ \E g \in Attempts : history' = Append(history, g)
  BY StoreStays DEF DInv, IInv, Consistent
<1>3. ASSUME NEW i \in 1 .. Len(history)
      PROVE  rosters'[history[i]] = rosters[history[i]]
  <2>1. history[i] \in Attempts /\ pc[history[i]] \in Settled
    BY HistoryIsSettled DEF DInv, IInv, Consistent
  <2> QED
    BY <2>1, StoreStays DEF DInv, IInv, Consistent, Settled
<1> QED
  BY <1>1, <1>2, <1>3, HistoryGrows

LEMMA ClosedStays ==
  ASSUME DInv, [Next]_vars, NEW op \in Operations, Closed(op)
  PROVE  Closed(op)'
BY NextProgress DEF Closed, ProgressKept

(***************************************************************************)
(* The objects.                                                            *)
(***************************************************************************)

\* The types the steps of the collector rely on.
CTyped == CTypeOK /\ gpc \in [Undos -> Phases]

\* A generation that a record names was built, and what its roster pins was
\* written by the attempts that collected it or pinned before.
LEMMA NamedPins ==
  ASSUME DInv, NEW op \in Operations, Named(op), record[op].generation # None
  PROVE  /\ record[op].generation \in built
         /\ Pins(rosters[record[op].generation]) \subseteq written
<1>1. rosters[record[op].generation] = Candidate(op, record[op])
  BY DEF DInv, Data, RecordData, IInv, Consistent, Generations, GenerationFacts
<1>2. \A s \in Societies : Candidate(op, record[op])[s] # None =>
        <<Candidate(op, record[op])[s], s>> \in written
  BY NoneAssumption DEF Candidate, Named
<1> QED
  BY <1>1, <1>2 DEF Pins, Named

\* Every generation in the history is named by a record.
AllNamed == \A op \in Operations : Named(op)
ServedWritten ==
  \A i \in 1 .. Len(history) :
    /\ history[i] \in Attempts /\ history[i] \in built
    /\ Pins(rosters[history[i]]) \subseteq written

LEMMA ServedPins == DInv /\ AllNamed => ServedWritten
<1> SUFFICES ASSUME DInv, AllNamed, NEW i \in 1 .. Len(history)
             PROVE  /\ history[i] \in Attempts /\ history[i] \in built
                    /\ Pins(rosters[history[i]]) \subseteq written
  BY DEF ServedWritten
<1>1. /\ history[i] \in Attempts /\ target[history[i]] \in Operations
      /\ record[target[history[i]]].generation = history[i]
  BY HistoryIsSettled DEF DInv, IInv, Consistent
<1> QED
  BY <1>1, NamedPins, NoneAssumption DEF AllNamed

\* What a collector retains was served: the generations before and at the
\* revision its undo has read.
LEMMA RetainedServed ==
  ASSUME DInv, NEW u \in Undos, Collector(u), gpc[u] \in Deleting \cup {"list", "check"}
  PROVE  LET n == seen[u].revision IN
         /\ n \in 2 .. Len(history) - 1
         /\ seen[u].current = history[n] /\ seen[u].previous = history[n - 1]
         /\ history[n + 1] = history[n - 1]
         /\ Retained(u) = {history[n], history[n + 1]}
<1>1. Past(seen[u]) /\ Len(history) \in Nat
  BY DEF DInv, IInv, TypeOK, Consistent, PointersArePast
<1>2. /\ seen[u].previous # None /\ seen[u].revision < Len(history)
      /\ history[seen[u].revision + 1] = seen[u].previous
  BY DEF Collector
<1> QED
  BY <1>1, <1>2 DEF Past, PointerAt, Retained

\* The retained rosters are those the collector has read.
LEMMA RetainedStay ==
  ASSUME DInv, [Next]_vars, NEW u \in Undos, Collector(u),
         gpc[u] \in Deleting \cup {"list", "check"}
  PROVE  /\ upc'[u] # "idle" /\ seen'[u] = seen[u]
         /\ Retained(u)' = Retained(u)
         /\ \A g \in Retained(u) : rosters'[g] = rosters[g]
         /\ seen[u].revision < Len(history')
         /\ history'[seen[u].revision + 1] = seen[u].previous
<1>1. upc[u] # "idle"
  BY DEF Collector, Deleting
<1>2. upc'[u] # "idle" /\ seen'[u] = seen[u]
  BY <1>1, StoreStays DEF DInv, IInv, Consistent
<1>3. /\ Len(history) \in Nat /\ Len(history') \in Nat
      /\ Len(history) <= Len(history')
      /\ \A i \in 1 .. Len(history) :
           history'[i] = history[i] /\ rosters'[history[i]] = rosters[history[i]]
  BY ServedStaysPut
<1> DEFINE n == seen[u].revision
<1>4. /\ n \in 2 .. Len(history) - 1
      /\ seen[u].previous = history[n + 1] /\ Retained(u) = {history[n], history[n + 1]}
  BY RetainedServed
<1>5. n \in 1 .. Len(history) /\ n + 1 \in 1 .. Len(history) /\ n < Len(history')
  BY <1>3, <1>4
<1>6. Retained(u)' = Retained(u)
  BY <1>2 DEF Retained
<1> QED
  BY <1>2, <1>3, <1>4, <1>5, <1>6

\* A step that changes nothing of the collectors keeps what is said of them.
LEMMA CollectorStays ==
  ASSUME DInv, [Next]_vars, NEW u \in Undos, Collector(u), CTyped,
         UNCHANGED cleanupEnabled, gpc'[u] = gpc[u], checked'[u] = checked[u],
         keep'[u] = keep[u], doomed'[u] = doomed[u]
  PROVE  Collector(u)'
<1>1. gpc[u] # "validate" => upc'[u] # "idle"
  BY StoreStays DEF DInv, IInv, Consistent, Collector
<1>2. CASE gpc[u] \in Deleting \cup {"list", "check"}
  <2>1. /\ seen'[u] = seen[u] /\ Retained(u)' = Retained(u)
        /\ \A g \in Retained(u) : rosters'[g] = rosters[g]
        /\ seen[u].revision < Len(history')
        /\ history'[seen[u].revision + 1] = seen[u].previous
    BY <1>2, RetainedStay
  <2>2. gpc[u] \in Deleting =>
          /\ \A op \in checked[u] : Closed(op)'
          /\ UNION {Pins(rosters[g]) : g \in Retained(u)}'
               = UNION {Pins(rosters[g]) : g \in Retained(u)}
    <3>1. checked[u] \subseteq Operations
      BY DEF CTyped, CTypeOK
    <3>2. gpc[u] \in Deleting => \A op \in checked[u] : Closed(op)'
      BY <3>1, ClosedStays DEF Collector
    <3>3. \A g \in Retained(u) : Pins(rosters[g])' = Pins(rosters[g])
      BY <2>1 DEF Pins
    <3> QED
      BY <2>1, <3>2, <3>3
  <2> QED
    BY <1>1, <1>2, <2>1, <2>2 DEF Collector
<1>3. CASE gpc[u] \notin Deleting \cup {"list", "check"}
  BY <1>1, <1>3 DEF Collector, Deleting
<1> QED
  BY <1>2, <1>3

\* A collection that may have deleted something works from the pointer it has
\* read, for good.
LEMMA CollectingStays ==
  ASSUME DInv, [Next]_vars, NEW u \in Undos, Collector(u), Collecting(u)
  PROVE  seen'[u] = seen[u]
BY StoreStays DEF DInv, IInv, Consistent, Collector, Collecting

\* The two generations at the end of the history after a step that deletes
\* nothing: one that comes to be served is complete, or a collection that
\* works from an earlier pointer may have taken something of it.
LEMMA ServedGrows ==
  ASSUME CInv, [Next]_vars,
         snapshots \subseteq snapshots', rosterKeys \subseteq rosterKeys',
         bundles \subseteq bundles',
         \A u \in Undos : Collecting(u) => Collecting(u)',
         \/ history' = history
         \/ Complete(history[Len(history)])'
         \/ \E u \in Undos : Collecting(u)' /\ seen'[u].revision + 1 < Len(history')
  PROVE  ServedIsSpared'
<1> USE DEF CInv
<1>1. /\ Len(history) \in Nat /\ Len(history') \in Nat
      /\ Len(history) <= Len(history') /\ Len(history') <= Len(history) + 1
      /\ \A i \in 1 .. Len(history) :
           history'[i] = history[i] /\ rosters'[history[i]] = rosters[history[i]]
  BY ServedStaysPut
<1>2. ASSUME NEW i \in {Len(history) - 1, Len(history)} \ {-1, 0},
             ~Complete(history[i])'
      PROVE  \E u \in Undos : Collecting(u)' /\ seen'[u].revision + 1 < i
  <2>1. i \in 1 .. Len(history)
    BY <1>1
  <2>2. ~Complete(history[i])
    BY <1>1, <1>2, <2>1 DEF Complete, Intact, Pins
  <2>3. PICK u \in Undos : Collecting(u) /\ seen[u].revision + 1 < i
    BY <2>2 DEF ServedIsSpared
  <2> QED
    BY <2>3, CollectingStays
<1>3. CASE history' = history
  BY <1>2, <1>3 DEF ServedIsSpared
<1>4. CASE history' # history
  <2>1. Len(history') = Len(history) + 1
    BY <1>1, <1>4, StoreStays, HistoryGrows DEF DInv, IInv, TypeOK, Consistent
  <2>2. ASSUME NEW i \in {Len(history') - 1, Len(history')} \ {-1, 0},
               ~Complete(history[i])'
        PROVE  \E u \in Undos : Collecting(u)' /\ seen'[u].revision + 1 < i
    <3>1. CASE i = Len(history')
      <4>1. ~Complete(history[Len(history)])'
        BY <2>2, <3>1
      <4> QED
        BY <1>4, <3>1, <4>1
    <3>2. CASE i = Len(history)
      BY <1>1, <1>2, <2>1, <2>2, <3>2
    <3> QED
      BY <1>1, <2>1, <3>1, <3>2
  <2> QED
    BY <2>2 DEF ServedIsSpared
<1> QED
  BY <1>3, <1>4

\* An unfinished operation after a step that deletes nothing and makes every
\* new object of it there.
LEMMA OwnGrows ==
  ASSUME CInv, [Next]_vars, UNCHANGED gcVars,
         snapshots \subseteq snapshots', rosterKeys \subseteq rosterKeys',
         bundles \subseteq bundles',
         \A k \in written' : k \in written \/ k \in snapshots',
         \A b \in built' : b \in built \/ (b \in rosterKeys' /\ b \in bundles'),
         NEW op \in Operations
  PROVE  OwnSpared(op)'
<1> USE DEF CInv
<1>1. OwnSpared(op) /\ TypeOK
  BY DEF DInv, IInv
<1>2. CASE Closed(op)
  BY <1>2, ClosedStays DEF OwnSpared
<1>3. CASE \E u \in Undos : Collecting(u) /\ op \notin checked[u]
  BY <1>3 DEF OwnSpared, Collecting, gcVars
<1>4. CASE OwnPresent(op)
  <2>1. ASSUME NEW k \in written', target'[k[1]] = op PROVE k \in snapshots'
    <3>1. CASE k \in written
      <4>1. k[1] \in Attempts /\ pc[k[1]] \in Owned
        BY <3>1 DEF CTypeOK, Snapshot, Authored
      <4>2. target[k[1]] = op
        BY <1>1, <2>1, <4>1, OwnersStay
      <4> QED
        BY <1>4, <3>1, <4>2 DEF OwnPresent
    <3> QED
      BY <3>1
  <2>2. ASSUME NEW b \in built', target'[b] = op PROVE b \in rosterKeys' /\ b \in bundles'
    <3>1. CASE b \in built
      <4>1. b \in Attempts /\ pc[b] \in Owned
        BY <3>1 DEF CTypeOK, Authored
      <4>2. target[b] = op
        BY <1>1, <2>2, <4>1, OwnersStay
      <4> QED
        BY <1>4, <3>1, <4>2 DEF OwnPresent, Intact
    <3> QED
      BY <3>1
  <2> QED
    BY <2>1, <2>2 DEF OwnSpared, OwnPresent, Intact
<1> QED
  BY <1>1, <1>2, <1>3, <1>4 DEF OwnSpared

\* A step of apply, or of the clock.
LEMMA GrowingStep ==
  ASSUME CInv, [Next]_vars, UNCHANGED gcVars,
         snapshots \subseteq snapshots', rosterKeys \subseteq rosterKeys',
         bundles \subseteq bundles',
         \A k \in written' : k \in written \/ k \in snapshots',
         \A b \in built' : b \in built \/ (b \in rosterKeys' /\ b \in bundles'),
         CTyped', AllNamed', Authored'
  PROVE  CInv'
<1> USE DEF CInv
<1>1. DInv'
  BY NextData
<1>2. /\ Len(history) \in Nat /\ Len(history') \in Nat
      /\ Len(history) <= Len(history') /\ Len(history') <= Len(history) + 1
  BY ServedStaysPut
<1>3. \A u \in Undos : Collector(u)'
  BY CollectorStays DEF CTyped, gcVars
<1>4. \A u \in Undos : Collecting(u)' <=> Collecting(u)
  BY DEF Collecting, gcVars
<1>5. \A u \in Undos : Collecting(u) => seen'[u] = seen[u]
  BY CollectingStays
<1>6. CASE written \subseteq snapshots /\ built \subseteq rosterKeys \cap bundles
  <2>1. written' \subseteq snapshots' /\ built' \subseteq rosterKeys' \cap bundles'
    BY <1>6
  <2>2. ServedWritten'
    BY <1>1, ServedPins, PTL
  <2>3. history' = history \/ Complete(history[Len(history)])'
    <3> SUFFICES ASSUME history' # history PROVE Complete(history[Len(history)])'
      OBVIOUS
    <3>1. Len(history') \in 1 .. Len(history')
      BY <1>2, StoreStays, HistoryGrows DEF DInv, IInv, TypeOK, Consistent
    <3> QED
      BY <2>1, <2>2, <3>1 DEF ServedWritten, Complete, Intact, Pins
  <2>4. ServedIsSpared'
    BY <1>4, <2>3, ServedGrows
  <2>5. NothingMissing'
    BY <2>1 DEF NothingMissing
  <2> QED
    BY <1>1, <1>3, <2>4, <2>5, OwnGrows DEF CTyped, AllNamed
<1>7. CASE \E u \in Undos :
             cleanupEnabled /\ Collecting(u) /\ seen[u].revision < Len(history)
  <2>1. PICK u \in Undos :
          cleanupEnabled /\ Collecting(u) /\ seen[u].revision < Len(history)
    BY <1>7
  <2>2. seen'[u] = seen[u] /\ seen[u].revision \in Nat
    BY <1>5, <2>1 DEF DInv, IInv, TypeOK, Pointer
  <2>3. history' = history \/ seen'[u].revision + 1 < Len(history')
    BY <1>2, <2>1, <2>2, StoreStays, HistoryGrows DEF DInv, IInv, TypeOK, Consistent
  <2>4. ServedIsSpared'
    BY <1>4, <2>1, <2>3, ServedGrows
  <2>5. NothingMissing'
    BY <1>2, <1>4, <2>1, <2>2 DEF NothingMissing, gcVars
  <2> QED
    BY <1>1, <1>3, <2>4, <2>5, OwnGrows DEF CTyped, AllNamed
<1> QED
  BY <1>6, <1>7 DEF NothingMissing

(***************************************************************************)
(* apply.                                                                  *)
(***************************************************************************)

\* What a record names stays named.
LEMMA NamedStays ==
  ASSUME AllNamed, record' = record, written \subseteq written', built \subseteq built'
  PROVE  AllNamed'
BY DEF AllNamed, Named

\* A write onto the record its author holds a copy of.
LEMMA WriteNamed ==
  ASSUME CInv, NEW a \in Attempts, target[a] \in Operations, CopyAgrees(a),
         NEW new \in Record, UNCHANGED progressVars,
         \/ record' = record
         \/ /\ record[target[a]].revision = local[a].revision
            /\ record' = [record EXCEPT ![target[a]] =
                            [new EXCEPT !.revision = local[a].revision + 1]],
         new.roster = local[a].roster,
         \A s \in Societies : \/ new.work[s] = local[a].work[s]
                              \/ new.work[s] \notin Attempts
                              \/ <<new.work[s], s>> \in written,
         new.generation = local[a].generation \/ new.generation \in built
  PROVE  AllNamed'
<1> DEFINE op == target[a]
           saved == [new EXCEPT !.revision = local[a].revision + 1]
<1> USE DEF CInv
<1>1. record \in [Operations -> Record]
  BY DEF DInv, IInv, TypeOK
<1>2. CASE record' = record
  BY <1>2, NamedStays DEF AllNamed, progressVars
<1>3. CASE /\ record[op].revision = local[a].revision
           /\ record' = [record EXCEPT ![op] = saved]
  <2>1. record[op] = local[a] /\ Named(op)
    BY <1>3 DEF CopyAgrees
  <2>2. /\ saved.roster = new.roster /\ saved.work = new.work
        /\ saved.generation = new.generation
    BY DEF Record
  <2> HIDE DEF saved
  <2>3. /\ record'[op] = saved
        /\ \A other \in Operations \ {op} : record'[other] = record[other]
    BY <1>1, <1>3
  <2>4. ASSUME NEW other \in Operations \ {op} PROVE Named(other)'
    BY <2>3 DEF Named, progressVars
  <2>5. ASSUME NEW other, other = op PROVE Named(other)'
    <3>1. \A s \in Societies : saved.work[s] \in Attempts => <<saved.work[s], s>> \in written
      BY <2>1, <2>2 DEF Named
    <3>2. \A s \in Societies : saved.roster[s] # None => <<saved.roster[s], s>> \in written
      BY <2>1, <2>2 DEF Named
    <3>3. saved.generation # None => saved.generation \in built
      BY <2>1, <2>2 DEF Named
    <3>4. record'[other] = saved
      BY <2>3, <2>5
    <3> QED
      BY <3>1, <3>2, <3>3, <3>4 DEF Named, progressVars
  <2> QED
    BY <2>4, <2>5 DEF AllNamed
<1> QED
  BY <1>2, <1>3

LEMMA CreateNamed ==
  ASSUME CInv, NEW a \in Attempts, Create(a), UNCHANGED progressVars
  PROVE  AllNamed'
<1> USE DEF CInv
<1>1. /\ target[a] \in Operations /\ CopyFacts(a) /\ CopyData(a) /\ pc[a] = "create"
      /\ Past(local[a].base) /\ record \in [Operations -> Record] /\ None \notin Attempts
  BY NoneAssumption
  DEF Create, Before, DInv, IInv, TypeOK, Consistent, Copies, CopyFacts, Data,
      PointersArePast
<1>2. \A s \in Societies : local[a].roster[s] # None => <<local[a].roster[s], s>> \in written
  <2>1. CASE local[a].base.current = None
    BY <1>1, <2>1 DEF CopyData, RosterAt, EmptyRoster
  <2>2. CASE local[a].base.current # None
    <3> DEFINE n == local[a].base.revision
    <3>1. n \in 1 .. Len(history) /\ local[a].base.current = history[n]
      <4>1. Len(history) \in Nat
        BY DEF DInv, IInv, TypeOK
      <4> QED
        BY <1>1, <2>2, <4>1 DEF Past, PointerAt
    <3>2. Pins(rosters[history[n]]) \subseteq written
      BY <3>1, ServedPins DEF AllNamed, ServedWritten
    <3> QED
      BY <1>1, <2>2, <3>1, <3>2 DEF CopyData, RosterAt, Pins
  <2> QED
    BY <2>1, <2>2
<1>3. CASE record' = [record EXCEPT ![target[a]] = local[a]]
  <2>1. ASSUME NEW op \in Operations, op # target[a] PROVE Named(op)'
    BY <1>1, <1>3, <2>1 DEF Named, progressVars
  <2>2. ASSUME NEW op \in Operations, op = target[a] PROVE Named(op)'
    <3>1. record'[op] = local[a]
      BY <1>1, <1>3, <2>2
    <3>2. /\ \A s \in Societies : local[a].work[s] \notin Attempts
          /\ local[a].generation = None
      BY <1>1 DEF CopyFacts, CopyData
    <3> QED
      BY <1>2, <3>1, <3>2 DEF Named, progressVars
  <2> QED
    BY <2>1, <2>2 DEF AllNamed
<1>4. CASE record' = record
  BY <1>4, NamedStays DEF AllNamed, progressVars
<1> QED
  BY <1>3, <1>4 DEF Create

\* Whatever an attempt does but write objects, its record names only objects
\* that it or an earlier attempt has written.
LEMMA StepNamed ==
  ASSUME CInv, NEW a \in Attempts, UNCHANGED progressVars,
         \/ Create(a) \/ Claim(a)
         \/ \E s \in Societies, entry \in {a, Kept} :
              CollectSociety(a, s, entry) /\ (entry = a => <<a, s>> \in written)
         \/ SaveCandidate(a) \/ SaveGeneration(a)
         \/ ClosePublished(a) \/ CloseStale(a) \/ Release(a)
  PROVE  AllNamed'
<1> DEFINE mine == local[a]
<1> USE DEF CInv
<1>1. /\ mine \in Record /\ CopyFacts(a) /\ AllNamed
      /\ record \in [Operations -> Record]
      /\ None \notin Attempts /\ Kept \notin Attempts
  BY NoneAssumption DEF DInv, IInv, TypeOK, Consistent, Copies, AllNamed
<1>2. ASSUME pc[a] \in {"claim"} \cup Working
      PROVE  target[a] \in Operations /\ CopyAgrees(a)
  BY <1>1, <1>2 DEF CopyFacts, Working
<1>3. ASSUME NEW new \in Record, NEW step, Save(a, new, step), pc[a] \in Working,
             new.roster = mine.roster,
             \A s \in Societies : \/ new.work[s] = mine.work[s]
                                  \/ new.work[s] \notin Attempts
                                  \/ <<new.work[s], s>> \in written,
             new.generation = mine.generation \/ new.generation \in built
      PROVE  AllNamed'
  BY <1>2, <1>3, WriteNamed DEF Save
<1>4. CASE Create(a)
  BY <1>4, CreateNamed
<1>5. CASE Claim(a)
  <2> DEFINE new == [mine EXCEPT !.lease = a]
  <2>1. /\ new \in Record /\ new.roster = mine.roster /\ new.work = mine.work
        /\ new.generation = mine.generation
    BY <1>1 DEF Record
  <2>2. [mine EXCEPT !.lease = a, !.revision = @ + 1]
          = [new EXCEPT !.revision = mine.revision + 1]
    BY <1>1 DEF Record
  <2>3. \/ record' = record
        \/ /\ record[target[a]].revision = mine.revision
           /\ record' = [record EXCEPT ![target[a]] =
                           [new EXCEPT !.revision = mine.revision + 1]]
    BY <1>5, <2>2 DEF Claim
  <2> HIDE DEF new
  <2> QED
    BY <1>2, <1>5, <2>1, <2>3, WriteNamed DEF Claim, Before
<1>6. ASSUME NEW s \in Societies, NEW entry \in {a, Kept}, CollectSociety(a, s, entry),
             entry = a => <<a, s>> \in written
      PROVE  AllNamed'
  <2> DEFINE W == [mine.work EXCEPT ![s] = entry]
             new == [mine EXCEPT !.work[s] = entry]
  <2>1. new = [mine EXCEPT !.work = W]
    OBVIOUS
  <2>2. Save(a, new, "collect") /\ pc[a] \in Working
    BY <1>6 DEF CollectSociety, Before, Working
  <2>3. mine.work \in [Societies -> Attempts \cup {None, Kept}]
    BY <1>1 DEF Record
  <2>4. /\ W \in [Societies -> Attempts \cup {None, Kept}]
        /\ \A t \in Societies : W[t] = mine.work[t] \/ (t = s /\ W[t] = entry)
    BY <2>3
  <2> HIDE DEF new, W
  <2>5. /\ new \in Record /\ new.roster = mine.roster /\ new.work = W
        /\ new.generation = mine.generation
    BY <1>1, <2>1, <2>4 DEF Record
  <2> QED
    BY <1>1, <1>3, <1>6, <2>2, <2>4, <2>5
<1>7. CASE SaveCandidate(a)
  <2> DEFINE made == Candidate(target[a], mine)
             new == [mine EXCEPT !.candidate = made]
  <2>1. made \in Roster
    BY <1>1 DEF Candidate, Record, Roster
  <2>2. Save(a, new, "prepare") /\ pc[a] \in Working
    BY <1>7 DEF SaveCandidate, Before, Working
  <2> HIDE DEF made
  <2>3. /\ new \in Record /\ new.roster = mine.roster /\ new.work = mine.work
        /\ new.generation = mine.generation
    BY <1>1, <2>1 DEF Record
  <2> QED
    BY <1>3, <2>2, <2>3
<1>8. CASE SaveGeneration(a)
  <2> DEFINE new == [mine EXCEPT !.generation = a]
  <2>1. Save(a, new, "publish") /\ pc[a] \in Working /\ pc[a] = "save"
    BY <1>8 DEF SaveGeneration, Before, Working
  <2>2. /\ new \in Record /\ new.roster = mine.roster /\ new.work = mine.work
        /\ new.generation = a /\ a \in built
    BY <1>1, <2>1 DEF Record, Authored
  <2> QED
    BY <1>3, <2>1, <2>2
<1>9. ASSUME NEW result \in {"published", "stale"}, pc[a] \in Working,
             Save(a, [mine EXCEPT !.outcome = result], "release")
      PROVE  AllNamed'
  <2> DEFINE new == [mine EXCEPT !.outcome = result]
  <2>1. /\ new \in Record /\ new.roster = mine.roster /\ new.work = mine.work
        /\ new.generation = mine.generation
    BY <1>1 DEF Record, Outcomes
  <2> QED
    BY <1>3, <1>9, <2>1
<1>10. CASE ClosePublished(a) \/ CloseStale(a)
  BY <1>9, <1>10 DEF ClosePublished, CloseStale, Before, Working
<1>11. CASE Release(a)
  <2>1. ASSUME NEW op \in Operations PROVE Named(op)'
    <3>1. /\ record'[op].work = record[op].work /\ record'[op].roster = record[op].roster
          /\ record'[op].generation = record[op].generation
      BY <1>1, <1>11 DEF Release, Record
    <3> QED
      BY <3>1 DEF Named, progressVars
  <2> QED
    BY <2>1 DEF AllNamed
<1> QED
  BY <1>4, <1>5, <1>6, <1>7, <1>8, <1>10, <1>11

\* A step after which an attempt stands at "save" only if it has built.
LEMMA AuthorsStay ==
  ASSUME CInv, [Next]_vars, UNCHANGED progressVars,
         \A b \in Attempts : pc'[b] = "save" => pc[b] = "save" \/ b \in built
  PROVE  Authored'
<1> USE DEF CInv
<1>1. ASSUME NEW b \in Attempts, pc[b] \in Owned PROVE pc'[b] \in Owned
  BY <1>1, OwnersStay DEF DInv, IInv
<1>2. (\A k \in written : k[1] \in Attempts) /\ built \subseteq Attempts
  BY DEF CTypeOK, Snapshot
<1> QED
  BY <1>1, <1>2 DEF Authored, progressVars

\* Of the steps of CatalogApply only the preparation leads to "save".
LEMMA OnlyPreparationSaves ==
  ASSUME TypeOK, NEW a \in Attempts, NEW b \in Attempts, pc'[b] = "save", pc[b] # "save",
         \/ \E op \in Operations : Start(a, op)
         \/ Load(a) \/ Create(a) \/ Claim(a) \/ Recover(a)
         \/ \E s \in Societies, entry \in {a, Kept} : CollectSociety(a, s, entry)
         \/ SaveCandidate(a) \/ SaveGeneration(a) \/ PublishGeneration(a)
         \/ ClosePublished(a) \/ CloseStale(a) \/ Release(a) \/ Fail(a) \/ Crash(a)
  PROVE  FALSE
<1> USE DEF TypeOK
<1>1. ASSUME NEW op \in Operations, Start(a, op) PROVE FALSE
  BY <1>1 DEF Start, GoTo
<1>2. CASE Load(a) \/ Create(a) \/ Claim(a)
  BY <1>2 DEF Load, Create, Claim, Leave, GoTo
<1>3. CASE Recover(a) \/ PublishGeneration(a)
  BY <1>3 DEF Recover, PublishGeneration, GoTo
<1>4. ASSUME NEW new, NEW step, step # "save", Save(a, new, step) PROVE FALSE
  BY <1>4 DEF Save, GoTo
<1>5. CASE \/ \E s \in Societies, entry \in {a, Kept} : CollectSociety(a, s, entry)
           \/ SaveCandidate(a) \/ SaveGeneration(a) \/ ClosePublished(a) \/ CloseStale(a)
  BY <1>4, <1>5
  DEF CollectSociety, SaveCandidate, SaveGeneration, ClosePublished, CloseStale
<1>6. CASE Release(a) \/ Fail(a) \/ Crash(a)
  BY <1>6 DEF Release, Fail, Crash, End, Leave, GoTo
<1> QED
  BY <1>1, <1>2, <1>3, <1>5, <1>6

\* A step that touches no object.
LEMMA QuietStep ==
  ASSUME CInv, [Next]_vars, UNCHANGED <<objectVars, progressVars, gcVars>>, AllNamed',
         \A b \in Attempts : pc'[b] = "save" => pc[b] = "save" \/ b \in built
  PROVE  CInv'
<1>1. Authored'
  BY AuthorsStay
<1>2. DInv'
  BY NextData DEF CInv
<1>3. CTyped'
  BY <1>2 DEF CInv, CTyped, CTypeOK, DInv, IInv, objectVars, progressVars, gcVars
<1> QED
  BY <1>1, <1>3, GrowingStep DEF objectVars, progressVars

LEMMA ApplyKeeps ==
  ASSUME CInv, NEW a \in Attempts, CApply(a) \/ CFail(a)
  PROVE  CInv'
<1>1. CInv /\ AllNamed /\ TypeOK /\ DInv
  BY DEF CInv, AllNamed, DInv, IInv
<1>2. CASE \E s \in Societies : WriteSnapshot(a, s)
  <2> PICK s \in Societies : WriteSnapshot(a, s)
    BY <1>2
  <2>1. /\ UNCHANGED <<vars, rosterKeys, bundles, built, gcVars>> /\ pc[a] = "collect"
        /\ snapshots' = snapshots \cup {<<a, s>>} /\ written' = written \cup {<<a, s>>}
    BY DEF WriteSnapshot, Before
  <2>2. <<a, s>> \in Snapshot /\ <<a, s>>[1] = a
    BY DEF Snapshot
  <2>3. DInv' /\ AllNamed'
    BY <1>1, <2>1, NextData, NamedStays DEF vars, storeVars
  <2>4. CTyped'
    BY <2>1, <2>2, <2>3 DEF CInv, CTyped, CTypeOK, DInv, IInv, gcVars
  <2>5. Authored'
    BY <2>1, <2>2 DEF CInv, Authored, vars, attemptVars, Owned, Working
  <2> QED
    BY <2>1, <2>3, <2>4, <2>5, GrowingStep
<1>3. ASSUME NEW s \in Societies, NEW entry \in {a, Kept}, CCollectSociety(a, s, entry)
      PROVE  CInv'
  <2>1. [Next]_vars
    BY <1>3 DEF CCollectSociety, Next, Step
  <2>2. AllNamed'
    BY <1>1, <1>3, StepNamed DEF CCollectSociety
  <2> QED
    BY <1>1, <1>3, <2>1, <2>2, QuietStep, OnlyPreparationSaves DEF CCollectSociety
<1>4. CASE BuildBundle(a)
  <2>1. /\ UNCHANGED <<vars, snapshots, written, gcVars>> /\ pc[a] = "prepare"
        /\ rosterKeys' = rosterKeys \cup {a} /\ bundles' = bundles \cup {a}
        /\ built' = built \cup {a}
    BY <1>4 DEF BuildBundle, Before
  <2>2. DInv' /\ AllNamed'
    BY <1>1, <2>1, NextData, NamedStays DEF vars, storeVars
  <2>3. CTyped'
    BY <2>1, <2>2 DEF CInv, CTyped, CTypeOK, DInv, IInv, gcVars
  <2>4. Authored'
    BY <2>1 DEF CInv, Authored, vars, attemptVars, Owned, Working
  <2> QED
    BY <2>1, <2>2, <2>3, <2>4, GrowingStep
<1>5. CASE CPrepareGeneration(a)
  <2>1. /\ UNCHANGED <<snapshots, bundles, progressVars, gcVars>>
        /\ rosterKeys' = rosterKeys \cup {a} /\ PrepareGeneration(a)
        /\ local[a].candidate # EmptyRoster => a \in built
    BY <1>5 DEF CPrepareGeneration
  <2>2. [Next]_vars
    BY <2>1 DEF Next, Step
  <2>3. DInv' /\ AllNamed'
    BY <1>1, <2>1, <2>2, NextData, NamedStays DEF PrepareGeneration, progressVars
  <2>4. CTyped'
    BY <2>1, <2>3 DEF CInv, CTyped, CTypeOK, DInv, IInv, gcVars, progressVars
  <2>5. \A b \in Attempts : pc'[b] = "save" => pc[b] = "save" \/ b \in built
    BY <1>1, <2>1 DEF PrepareGeneration, GoTo, TypeOK
  <2>6. Authored'
    BY <2>1, <2>2, <2>5, AuthorsStay
  <2> QED
    BY <2>1, <2>2, <2>3, <2>4, <2>6, GrowingStep DEF progressVars
<1>6. CASE CLoad(a)
  <2>1. /\ UNCHANGED <<objectVars, progressVars, gcVars>> /\ Load(a)
        /\ record' = record
    BY <1>6 DEF CLoad, Load, storeVars
  <2>2. [Next]_vars
    BY <2>1 DEF Next, Step
  <2>3. AllNamed'
    BY <1>1, <2>1, NamedStays DEF progressVars
  <2> QED
    BY <1>1, <2>1, <2>2, <2>3, QuietStep, OnlyPreparationSaves
<1>7. CASE COther(a)
  <2>1. UNCHANGED <<objectVars, progressVars, gcVars>>
    BY <1>7 DEF COther
  <2>2. [Next]_vars
    BY <1>7 DEF COther, Next, Step
  <2>3. AllNamed'
    <3>1. ASSUME \/ \E op \in Operations : Start(a, op)
                 \/ Recover(a) \/ PublishGeneration(a)
          PROVE  record' = record
      BY <3>1 DEF Start, Recover, PublishGeneration, storeVars
    <3> QED
      BY <1>1, <1>7, <2>1, <3>1, NamedStays, StepNamed DEF COther, progressVars
  <2>4. \A b \in Attempts : pc'[b] = "save" => pc[b] = "save"
    BY <1>1, <1>7, OnlyPreparationSaves DEF COther
  <2> QED
    BY <1>1, <2>1, <2>2, <2>3, <2>4, QuietStep
<1>8. CASE CFail(a)
  <2>1. /\ UNCHANGED <<objectVars, progressVars, gcVars>> /\ record' = record
    BY <1>8 DEF CFail, Fail, Crash, storeVars
  <2>2. [Next]_vars
    BY <1>8 DEF CFail, Next
  <2>3. AllNamed'
    BY <1>1, <2>1, NamedStays DEF progressVars
  <2>4. \A b \in Attempts : pc'[b] = "save" => pc[b] = "save"
    BY <1>1, <1>8, OnlyPreparationSaves DEF CFail
  <2> QED
    BY <1>1, <2>1, <2>2, <2>3, <2>4, QuietStep
<1> QED
  BY <1>2, <1>3, <1>4, <1>5, <1>6, <1>7, <1>8 DEF CApply

(***************************************************************************)
(* undo and the collector.                                                 *)
(***************************************************************************)

\* A step that only moves the undo or collector u on, deleting nothing: it
\* keeps the operations that a collection under way has checked.
LEMMA CollectorMove ==
  ASSUME CInv, NEW u \in Undos, [Next]_vars,
         UNCHANGED <<record, attemptVars, rosters, objectVars, progressVars, cleanupEnabled>>,
         \A w \in Undos \ {u} : /\ gpc'[w] = gpc[w] /\ checked'[w] = checked[w]
                                /\ keep'[w] = keep[w] /\ doomed'[w] = doomed[w],
         Collecting(u) => Collecting(u)' /\ checked'[u] = checked[u],
         CTyped', Collector(u)',
         \/ history' = history
         \/ Complete(history[Len(history)])'
         \/ \E w \in Undos : Collecting(w)' /\ seen'[w].revision + 1 < Len(history')
  PROVE  CInv'
<1> USE DEF CInv
<1>1. DInv' /\ AllNamed'
  BY NextData, NamedStays DEF AllNamed, progressVars
<1>2. Authored'
  BY AuthorsStay DEF attemptVars
<1>3. \A w \in Undos : Collector(w)'
  BY CollectorStays DEF CTyped
<1>4. \A w \in Undos :
        Collecting(w) => Collecting(w)' /\ checked'[w] = checked[w] /\ seen'[w] = seen[w]
  BY CollectingStays DEF Collecting
<1>5. Len(history) \in Nat /\ Len(history') \in Nat /\ Len(history) <= Len(history')
  BY ServedStaysPut
<1>6. ServedIsSpared'
  BY <1>4, ServedGrows DEF objectVars
<1>7. NothingMissing'
  <2>1. \A w \in Undos : seen[w].revision \in Nat
    BY DEF DInv, IInv, TypeOK, Pointer
  <2> QED
    BY <1>4, <1>5, <2>1 DEF NothingMissing, objectVars, progressVars
<1>8. ASSUME NEW op \in Operations PROVE OwnSpared(op)'
  BY <1>4 DEF OwnSpared, OwnPresent, Intact, Closed, objectVars, progressVars, attemptVars
<1> QED
  BY <1>1, <1>2, <1>3, <1>6, <1>7, <1>8 DEF CTyped, AllNamed

LEMMA UndoKeeps ==
  ASSUME CInv, NEW u \in Undos,
         CUndoRead(u) \/ UndoValidate(u) \/ CUndoSwap(u) \/ CUndoFail(u)
  PROVE  CInv'
<1> USE DEF CInv
<1>1. /\ TypeOK /\ DInv /\ Collector(u) /\ CTyped
      /\ seen[u] \in Pointer /\ Len(history) \in Nat
  BY DEF DInv, IInv, TypeOK, CTyped
<1>2. [Next]_vars
  BY DEF CUndoRead, UndoValidate, CUndoSwap, CUndoFail, Next, Undo
<1>3. DInv'
  BY <1>2, NextData
<1>4. CASE CUndoRead(u)
  <2>1. UNCHANGED <<record, attemptVars, objectVars, progressVars, gcVars>>
    BY <1>4 DEF CUndoRead, UndoRead, storeVars
  <2>2. AllNamed'
    BY <2>1, NamedStays DEF AllNamed, progressVars
  <2> QED
    BY <1>2, <2>1, <2>2, QuietStep DEF attemptVars
<1>5. ASSUME NEW step \in Phases, gpc' = [gpc EXCEPT ![u] = step],
             UNCHANGED <<objectVars, progressVars, cleanupEnabled, checked, keep, doomed>>
      PROVE  /\ CTyped' /\ gpc'[u] = step
             /\ \A w \in Undos \ {u} : gpc'[w] = gpc[w]
  BY <1>1, <1>3, <1>5
  DEF CTyped, CTypeOK, DInv, IInv, objectVars, progressVars
<1>6. CASE UndoValidate(u)
  <2>1. /\ UNCHANGED <<vars, objectVars, progressVars, cleanupEnabled, checked, keep, doomed>>
        /\ gpc' = [gpc EXCEPT ![u] = "swap"] /\ upc[u] = "swap"
        /\ gpc[u] = "validate"
    BY <1>6 DEF UndoValidate
  <2>2. "swap" \in Phases
    BY DEF Phases
  <2>3. CTyped' /\ gpc'[u] = "swap" /\ \A w \in Undos \ {u} : gpc'[w] = gpc[w]
    BY <1>5, <2>1, <2>2
  <2>4. Collector(u)'
    BY <2>1, <2>3 DEF Collector, Deleting, vars, undoVars
  <2>5. ~Collecting(u)
    BY <2>1 DEF Collecting
  <2> QED
    BY <1>2, <2>1, <2>3, <2>4, <2>5, CollectorMove DEF vars, storeVars
<1>7. CASE CUndoFail(u)
  <2>1. /\ UNCHANGED <<objectVars, progressVars, cleanupEnabled, checked, keep, doomed>>
        /\ UNCHANGED <<storeVars, attemptVars, history>>
        /\ gpc' = [gpc EXCEPT ![u] = "done"] /\ upc'[u] = "done"
    BY <1>1, <1>7 DEF CUndoFail, UndoFail, TypeOK
  <2>2. "done" \in Phases
    BY DEF Phases
  <2>3. CTyped' /\ gpc'[u] = "done" /\ \A w \in Undos \ {u} : gpc'[w] = gpc[w]
    BY <1>5, <2>1, <2>2
  <2>4. Collector(u)'
    BY <2>1, <2>3 DEF Collector, Deleting
  <2>5. Collecting(u)'
    BY <2>3 DEF Collecting
  <2> QED
    BY <1>2, <2>1, <2>3, <2>4, <2>5, CollectorMove DEF storeVars
<1>8. CASE CUndoSwap(u)
  <2> DEFINE step == IF pointer = seen[u] /\ cleanupEnabled THEN "list" ELSE "done"
  <2>1. /\ UNCHANGED <<objectVars, progressVars, cleanupEnabled, checked, keep, doomed>>
        /\ UNCHANGED <<record, expired, rosters, attemptVars, seen>>
        /\ gpc' = [gpc EXCEPT ![u] = step] /\ gpc[u] = "swap"
        /\ upc[u] = "swap" /\ upc'[u] = "done"
    BY <1>1, <1>8 DEF CUndoSwap, UndoSwap, TypeOK
  <2>2. step \in Phases
    BY DEF Phases
  <2>3. CTyped' /\ gpc'[u] = step /\ \A w \in Undos \ {u} : gpc'[w] = gpc[w]
    BY <1>5, <2>1, <2>2
  <2>4. ~Collecting(u)
    BY <2>1 DEF Collecting
  <2>5. CASE pointer # seen[u]
    <3>1. history' = history /\ step = "done"
      BY <1>8, <2>5 DEF CUndoSwap, UndoSwap
    <3>2. Collector(u)'
      BY <2>1, <2>3, <3>1 DEF Collector, Deleting
    <3> HIDE DEF step
    <3> QED
      BY <1>2, <2>1, <2>3, <2>4, <3>1, <3>2, CollectorMove
  <2>6. CASE pointer = seen[u]
    <3> DEFINE g == seen[u].previous
    <3>1. history' = Append(history, g)
      BY <1>8, <2>6 DEF CUndoSwap, UndoSwap
    <3>2. g # None /\ g \in Attempts
      BY <1>1, <2>1
      DEF DInv, IInv, Consistent, PointersArePast, Pointer
    <3>3. /\ seen[u].revision = Len(history) /\ g = history[Len(history) - 1]
          /\ Len(history) - 1 \in 1 .. Len(history)
      BY <1>1, <2>6, <3>2
      DEF DInv, IInv, Consistent, PointerFollowsHistory, PointerAt
    <3>4. /\ Len(history') = Len(history) + 1 /\ history'[Len(history')] = g
      BY <1>1, <3>1, <3>2, HistoryGrows DEF TypeOK
    <3>5. Collector(u)'
      <4>1. gpc'[u] = "list" => cleanupEnabled'
        BY <2>1, <2>3
      <4>2. gpc'[u] \in {"list", "done"}
        BY <2>3
      <4>3. /\ seen'[u] = seen[u] /\ seen[u].revision < Len(history')
            /\ history'[seen[u].revision + 1] = seen[u].previous
        BY <1>1, <2>1, <3>3, <3>4
      <4> QED
        BY <2>1, <3>2, <4>1, <4>2, <4>3 DEF Collector, Deleting
    <3>6. CASE Complete(g)
      <4>1. Complete(history[Len(history)])'
        BY <2>1, <3>4, <3>6 DEF Complete, Intact, Pins, objectVars
      <4> HIDE DEF step, g
      <4> QED
        BY <1>2, <2>1, <2>3, <2>4, <3>5, <4>1, CollectorMove
    <3>7. CASE ~Complete(g)
      <4>1. PICK w \in Undos : Collecting(w) /\ seen[w].revision + 1 < Len(history) - 1
        BY <1>1, <3>3, <3>7 DEF ServedIsSpared
      <4>2. w # u
        BY <2>4, <4>1
      <4>3. Collecting(w)' /\ seen'[w].revision + 1 < Len(history')
        <5>1. seen[w].revision \in Nat
          BY <1>1 DEF TypeOK, Pointer
        <5> QED
          BY <1>1, <2>1, <2>3, <3>4, <4>1, <4>2, <5>1 DEF Collecting
      <4> HIDE DEF step, g
      <4> QED
        BY <1>2, <2>1, <2>3, <2>4, <3>5, <4>3, CollectorMove
    <3> QED
      BY <3>6, <3>7
  <2> QED
    BY <2>5, <2>6
<1> QED
  BY <1>4, <1>6, <1>7, <1>8

\* A step of the collector that deletes nothing.
LEMMA CollectionMove ==
  ASSUME CInv, NEW u \in Undos, NEW step \in Deleting \cup {"check", "done"},
         NEW keys \in SUBSET (Snapshot \cup Attempts), Goes(u, step, keys),
         UNCHANGED <<vars, objectVars, progressVars, cleanupEnabled>>,
         gpc[u] \in Deleting \cup {"list", "check"},
         \/ checked' = checked
         \/ /\ gpc[u] = "list" /\ step = "check"
            /\ \E ops \in SUBSET Operations : checked' = [checked EXCEPT ![u] = ops],
         \/ keep' = keep
         \/ /\ gpc[u] = "check"
            /\ \E pins \in SUBSET Snapshot : keep' = [keep EXCEPT ![u] = pins],
         gpc[u] \in Deleting => step \in Deleting \cup {"done"},
         step \in Deleting =>
           /\ \A op \in checked'[u] : Closed(op)
           /\ keep'[u] = UNION {Pins(rosters[g]) : g \in Retained(u)},
         step \in {"bundles", "rosters"} => keys \cap Retained(u) = {},
         step = "snapshots" => keys \cap keep'[u] = {}
  PROVE  CInv'
<1> USE DEF CInv
<1>1. /\ TypeOK /\ DInv /\ Collector(u) /\ CTyped /\ [Next]_vars
  BY DEF DInv, IInv, TypeOK, CTyped
<1>2. DInv'
  BY <1>1, NextData
<1>3. /\ gpc'[u] = step /\ doomed'[u] = keys
      /\ \A w \in Undos \ {u} : /\ gpc'[w] = gpc[w] /\ checked'[w] = checked[w]
                                /\ keep'[w] = keep[w] /\ doomed'[w] = doomed[w]
  BY <1>1 DEF Goes, CTyped, CTypeOK
<1>4. step \in Phases
  BY DEF Phases
<1>5. CTyped'
  <2>1. checked' \in [Undos -> SUBSET Operations]
    BY <1>1 DEF CTyped, CTypeOK
  <2>2. keep' \in [Undos -> SUBSET Snapshot]
    BY <1>1 DEF CTyped, CTypeOK
  <2>3. doomed' \in [Undos -> SUBSET (Snapshot \cup Attempts)]
    BY <1>1 DEF CTyped, CTypeOK, Goes
  <2>4. gpc' \in [Undos -> Phases]
    BY <1>1, <1>4 DEF CTyped, Goes
  <2> QED
    BY <1>1, <1>2, <2>1, <2>2, <2>3, <2>4
    DEF CTyped, CTypeOK, DInv, IInv, objectVars, progressVars
<1>6. Collector(u)'
  <2>1. UNCHANGED <<seen, upc, history, rosters, record>>
    BY DEF vars, storeVars, undoVars
  <2>2. /\ upc[u] # "idle" /\ cleanupEnabled /\ seen[u].previous # None
        /\ seen[u].revision < Len(history)
        /\ history[seen[u].revision + 1] = seen[u].previous
    BY <1>1 DEF Collector, Deleting
  <2>3. gpc'[u] \in Deleting =>
          /\ \A op \in checked'[u] : Closed(op)'
          /\ keep'[u] = UNION {Pins(rosters[g]) : g \in Retained(u)}'
    BY <1>3, <2>1 DEF Closed, Retained, Pins
  <2> QED
    BY <1>3, <2>1, <2>2, <2>3 DEF Collector, Retained
<1>7. Collecting(u) => Collecting(u)' /\ checked'[u] = checked[u]
  BY <1>3 DEF Collecting, Deleting
<1> QED
  BY <1>1, <1>3, <1>5, <1>6, <1>7, CollectorMove DEF vars, storeVars

\* Listing, checking, and going on to the next prefix.
LEMMA CollectionKeeps ==
  ASSUME CInv, NEW u \in Undos,
         GcList(u) \/ GcCheck(u) \/ GcStop(u) \/ GcListPrefix(u) \/ GcNextPrefix(u)
  PROVE  CInv'
<1>1. /\ TypeOK /\ Collector(u) /\ CTyped /\ DInv
      /\ UNCHANGED <<vars, objectVars, progressVars, cleanupEnabled>>
  BY DEF CInv, DInv, IInv, CTyped, GcList, GcCheck, GcStop, GcListPrefix, GcNextPrefix
<1>2. gpc[u] \in Phases
  BY <1>1 DEF CTyped
<1>3. {} \in SUBSET (Snapshot \cup Attempts)
  OBVIOUS
<1>4. CASE GcList(u)
  <2> DEFINE ops == {op \in Operations : record[op].outcome # "unopened"}
  <2>1. /\ Goes(u, "check", {}) /\ gpc[u] = "list" /\ keep' = keep
        /\ checked' = [checked EXCEPT ![u] = ops] /\ ops \in SUBSET Operations
    BY <1>4 DEF GcList
  <2>2. "check" \notin Deleting /\ "list" \notin Deleting
    BY DEF Deleting
  <2> QED
    BY <1>1, <1>3, <2>1, <2>2, CollectionMove
<1>5. CASE GcCheck(u)
  <2> DEFINE pins == UNION {Pins(rosters[g]) : g \in Retained(u)}
  <2>1. /\ Goes(u, "listBundles", {}) /\ gpc[u] = "check" /\ checked' = checked
        /\ keep' = [keep EXCEPT ![u] = pins] /\ Retained(u) \subseteq rosterKeys
        /\ \A op \in checked[u] : Closed(op)
    BY <1>5 DEF GcCheck
  <2>2. pins \in SUBSET Snapshot
    <3>1. Retained(u) \subseteq Attempts
      BY <1>1, <2>1 DEF CTyped, CTypeOK
    <3>2. \A g \in Attempts : Pins(rosters[g]) \subseteq Snapshot
      BY <1>1 DEF TypeOK, Roster, Pins, Snapshot
    <3> QED
      BY <3>1, <3>2
  <2>3. keep'[u] = pins
    BY <1>1, <2>1 DEF CTyped, CTypeOK
  <2>4. "listBundles" \in Deleting /\ "check" \notin Deleting
    BY DEF Deleting
  <2> HIDE DEF pins
  <2>5. keep'[u] = UNION {Pins(rosters[g]) : g \in Retained(u)}
    BY <2>3 DEF pins
  <2>6. \A op \in checked'[u] : Closed(op)
    BY <2>1
  <2> QED
    BY <1>1, <1>3, <2>1, <2>2, <2>4, <2>5, <2>6, CollectionMove
<1>6. CASE GcStop(u)
  <2>1. /\ Goes(u, "done", {}) /\ gpc[u] \in Deleting \cup {"list", "check"}
        /\ checked' = checked /\ keep' = keep
    BY <1>2, <1>6 DEF GcStop, Phases
  <2>2. "done" \notin Deleting
    BY DEF Deleting
  <2> QED
    BY <1>1, <1>3, <2>1, <2>2, CollectionMove
<1>7. ASSUME NEW step \in Deleting \cup {"done"},
             NEW keys \in SUBSET (Snapshot \cup Attempts), Goes(u, step, keys),
             gpc[u] \in Deleting, checked' = checked, keep' = keep,
             step \in {"bundles", "rosters"} => keys \cap Retained(u) = {},
             step = "snapshots" => keys \cap keep[u] = {}
      PROVE  CInv'
  <2>1. gpc[u] # "check" /\ gpc[u] # "list"
    BY <1>7 DEF Deleting
  <2>2. /\ \A op \in checked[u] : Closed(op)
        /\ keep[u] = UNION {Pins(rosters[g]) : g \in Retained(u)}
    BY <1>1, <1>7 DEF Collector
  <2> QED
    BY <1>1, <1>7, <2>1, <2>2, CollectionMove
<1>8. CASE GcListPrefix(u)
  <2>1. checked' = checked /\ keep' = keep
    BY <1>8 DEF GcListPrefix
  <2>2. /\ bundles \ Retained(u) \in SUBSET (Snapshot \cup Attempts)
        /\ rosterKeys \ Retained(u) \in SUBSET (Snapshot \cup Attempts)
        /\ snapshots \ keep[u] \in SUBSET (Snapshot \cup Attempts)
    BY <1>1 DEF CTyped, CTypeOK
  <2>3. CASE gpc[u] = "listBundles" /\ Goes(u, "bundles", bundles \ Retained(u))
    BY <1>7, <2>1, <2>2, <2>3 DEF Deleting
  <2>4. CASE gpc[u] = "listRosters" /\ Goes(u, "rosters", rosterKeys \ Retained(u))
    BY <1>7, <2>1, <2>2, <2>4 DEF Deleting
  <2>5. CASE gpc[u] = "listSnapshots" /\ Goes(u, "snapshots", snapshots \ keep[u])
    BY <1>7, <2>1, <2>2, <2>5 DEF Deleting
  <2> QED
    BY <1>8, <2>3, <2>4, <2>5 DEF GcListPrefix
<1>9. CASE GcNextPrefix(u)
  <2>1. checked' = checked /\ keep' = keep
    BY <1>9 DEF GcNextPrefix
  <2>2. /\ gpc[u] \in Deleting
        /\ \E step \in Deleting \cup {"done"} :
             Goes(u, step, {}) /\ step \notin {"bundles", "rosters", "snapshots"}
    BY <1>9 DEF GcNextPrefix, Deleting
  <2> QED
    BY <1>3, <1>7, <2>1, <2>2
<1> QED
  BY <1>4, <1>5, <1>6, <1>8, <1>9

\* One key deleted: none that the two generations at the end of the history
\* need when the collector's pointer is one of theirs, and none of an
\* unfinished operation that it has listed.
LEMMA DeletionKeeps ==
  ASSUME CInv, NEW u \in Undos, NEW k \in doomed[u], GcDelete(u, k)
  PROVE  CInv'
<1> USE DEF CInv
<1>1. /\ TypeOK /\ DInv /\ Collector(u) /\ CTyped /\ Len(history) \in Nat
      /\ seen[u].revision \in Nat
      /\ UNCHANGED <<vars, progressVars, cleanupEnabled, gpc, checked, keep>>
  BY DEF DInv, IInv, TypeOK, Pointer, CTyped, GcDelete
<1>2. UNCHANGED <<history, record, target, pc, seen, rosters>>
  BY <1>1 DEF vars, storeVars, attemptVars, undoVars
<1>3. /\ gpc[u] \in {"bundles", "rosters", "snapshots"}
      /\ snapshots' = IF gpc[u] = "snapshots" THEN snapshots \ {k} ELSE snapshots
      /\ rosterKeys' = IF gpc[u] = "rosters" THEN rosterKeys \ {k} ELSE rosterKeys
      /\ bundles' = IF gpc[u] = "bundles" THEN bundles \ {k} ELSE bundles
      /\ doomed' = [doomed EXCEPT ![u] = @ \ {k}]
  BY DEF GcDelete
<1>4. gpc[u] \in Deleting /\ Collecting(u)
  BY <1>3 DEF Deleting, Collecting
<1>5. DInv' /\ AllNamed'
  BY <1>1, <1>2, NextData, NamedStays DEF AllNamed, progressVars
<1>6. CTyped'
  <2>1. doomed' \in [Undos -> SUBSET (Snapshot \cup Attempts)]
    BY <1>1, <1>3 DEF CTyped, CTypeOK
  <2>2. snapshots' \subseteq snapshots /\ rosterKeys' \subseteq rosterKeys
          /\ bundles' \subseteq bundles
    BY <1>3
  <2> QED
    BY <1>1, <1>5, <2>1, <2>2
    DEF CTyped, CTypeOK, DInv, IInv, progressVars
<1>7. Authored'
  BY <1>1, <1>2 DEF Authored, progressVars
<1>8. ASSUME NEW w \in Undos PROVE Collector(w)'
  <2>1. CASE w # u
    BY <1>1, <1>3, <2>1, CollectorStays DEF CTyped, CTypeOK
  <2>2. CASE w = u
    <3>1. doomed'[u] \subseteq doomed[u]
      BY <1>1, <1>3 DEF CTyped, CTypeOK
    <3>2. UNCHANGED <<gpc, upc, seen, history, rosters, record, checked, keep>>
      BY <1>1 DEF vars, storeVars, undoVars
    <3> QED
      BY <1>1, <2>2, <3>1, <3>2 DEF Collector, Retained, Closed, Pins
  <2> QED
    BY <2>1, <2>2
<1>9. \A w \in Undos : Collecting(w)' <=> Collecting(w)
  BY <1>1 DEF Collecting
<1>10. NothingMissing'
  <2>1. cleanupEnabled /\ Collecting(u) /\ seen[u].revision < Len(history)
    BY <1>1, <1>4 DEF Collector
  <2> QED
    BY <1>1, <1>2, <1>9, <2>1 DEF NothingMissing
<1>11. ASSUME NEW op \in Operations PROVE OwnSpared(op)'
  <2>1. CASE op \in checked[u]
    <3>1. Closed(op)
      BY <1>1, <1>4, <2>1 DEF Collector
    <3> QED
      BY <1>2, <3>1 DEF OwnSpared, Closed
  <2>2. CASE op \notin checked[u]
    BY <1>1, <1>4, <1>9, <2>2 DEF OwnSpared
  <2> QED
    BY <2>1, <2>2
<1>12. ServedIsSpared'
  <2> SUFFICES ASSUME NEW i \in {Len(history) - 1, Len(history)} \ {-1, 0},
                      ~Complete(history[i])'
               PROVE  \E w \in Undos : Collecting(w)' /\ seen'[w].revision + 1 < i
    BY <1>2 DEF ServedIsSpared
  <2>1. i \in 1 .. Len(history)
    BY <1>1
  <2>2. CASE ~Complete(history[i])
    BY <1>2, <1>9, <2>2 DEF ServedIsSpared
  <2>3. CASE Complete(history[i])
    <3> DEFINE n == seen[u].revision
    <3>1. /\ n \in 2 .. Len(history) - 1
          /\ Retained(u) = {history[n], history[n + 1]}
      BY <1>1, <1>4, RetainedServed
    <3>2. i \in {n, n + 1} => history[i] \in Retained(u)
      BY <3>1
    <3>3. history[i] \notin Retained(u)
      <4> SUFFICES ASSUME history[i] \in Retained(u) PROVE FALSE
        OBVIOUS
      <4>1. gpc[u] \in {"bundles", "rosters"} => k # history[i]
        BY <1>1 DEF Collector
      <4>2. gpc[u] = "snapshots" => k \notin Pins(rosters[history[i]])
        BY <1>1, <1>4 DEF Collector
      <4>3. Complete(history[i])'
        BY <1>2, <1>3, <2>3, <4>1, <4>2 DEF Complete, Intact, Pins
      <4> QED
        BY <4>3
    <3>4. n + 1 < i
      BY <1>1, <2>1, <3>1, <3>2, <3>3
    <3> QED
      BY <1>2, <1>4, <1>9, <3>4
  <2> QED
    BY <2>2, <2>3
<1> QED
  BY <1>5, <1>6, <1>7, <1>8, <1>10, <1>11, <1>12 DEF CTyped, AllNamed

(***************************************************************************)
(* The composition.                                                        *)
(***************************************************************************)

LEMMA CInitKeeps == CInit => CInv
<1> SUFFICES ASSUME CInit PROVE CInv
  OBVIOUS
<1>1. Init /\ DInv
  BY InitConsistent, InitData DEF CInit, DInv
<1>2. CTypeOK /\ gpc \in [Undos -> Phases]
  BY <1>1 DEF CInit, CTypeOK, DInv, IInv, Phases
<1>3. ASSUME NEW op \in Operations PROVE Named(op) /\ OwnSpared(op)
  <2>1. record[op] = Unopened
    BY <1>1 DEF Init
  <2> QED
    BY <2>1, NoneAssumption
    DEF Named, Unopened, EmptyRoster, OwnSpared, OwnPresent, CInit
<1>4. Authored
  BY <1>1 DEF Authored, CInit, Init
<1>5. \A u \in Undos : Collector(u)
  BY DEF CInit, Collector, Deleting
<1>6. NothingMissing
  BY DEF CInit, NothingMissing
<1>7. ServedIsSpared
  <2>1. Len(history) = 0
    BY <1>1 DEF Init
  <2> QED
    BY <2>1 DEF ServedIsSpared
<1> QED
  BY <1>1, <1>2, <1>3, <1>4, <1>5, <1>6, <1>7 DEF CInv

\* Every step of the composition is one of the control plane, or none.
LEMMA CNextIsNext == [CNext]_cleanupVars => [Next]_vars
<1> SUFFICES ASSUME [CNext]_cleanupVars PROVE [Next]_vars
  OBVIOUS
<1>1. ASSUME NEW a \in Attempts, CApply(a) PROVE [Next]_vars
  BY <1>1
  DEF CApply, WriteSnapshot, CCollectSociety, BuildBundle, CPrepareGeneration,
      CLoad, COther, Next, Step
<1>2. ASSUME NEW a \in Attempts, CFail(a) PROVE [Next]_vars
  BY <1>2 DEF CFail, Next
<1>3. ASSUME NEW op \in Operations, CLeaseExpires(op) PROVE [Next]_vars
  BY <1>3 DEF CLeaseExpires, Next
<1>4. ASSUME NEW u \in Undos, CUndo(u) PROVE [Next]_vars
  BY <1>4
  DEF CUndo, CUndoRead, UndoValidate, CUndoSwap, CUndoFail, Collect, GcList,
      GcCheck, GcStop, GcListPrefix, GcDelete, GcNextPrefix, Next, Undo
<1>5. CASE UNCHANGED cleanupVars
  BY <1>5 DEF cleanupVars
<1> QED
  BY <1>1, <1>2, <1>3, <1>4, <1>5 DEF CNext

\* CInv is inductive.
LEMMA CNextKeeps == CInv /\ [CNext]_cleanupVars => CInv'
<1> SUFFICES ASSUME CInv, [CNext]_cleanupVars PROVE CInv'
  OBVIOUS
<1>1. ASSUME NEW a \in Attempts, CApply(a) \/ CFail(a) PROVE CInv'
  BY <1>1, ApplyKeeps
<1>2. ASSUME UNCHANGED <<objectVars, progressVars, gcVars, pc, record>> PROVE CInv'
  <2>1. AllNamed'
    BY <1>2, NamedStays DEF CInv, AllNamed, progressVars
  <2> QED
    BY <1>2, <2>1, CNextIsNext, QuietStep
<1>3. ASSUME NEW op \in Operations, CLeaseExpires(op) PROVE CInv'
  BY <1>2, <1>3 DEF CLeaseExpires, LeaseExpires, attemptVars
<1>4. ASSUME NEW u \in Undos, CUndo(u) PROVE CInv'
  BY <1>4, UndoKeeps, CollectionKeeps, DeletionKeeps DEF CUndo, Collect
<1>5. CASE UNCHANGED cleanupVars
  BY <1>2, <1>5 DEF cleanupVars, vars, storeVars, attemptVars
<1> QED
  BY <1>1, <1>3, <1>4, <1>5 DEF CNext

\* The objects and the collector change nothing of the control plane's own
\* state: what holds of every behaviour of CatalogApply holds here.
THEOREM CleanupIsApply == CSpec => Spec
<1>1. CInit => Init
  BY DEF CInit
<1> QED
  BY <1>1, CNextIsNext, PTL DEF CSpec, Spec

THEOREM CleanupInvariance == CSpec => []CInv
BY CInitKeeps, CNextKeeps, PTL DEF CSpec

\* Every state of the composition is well typed.
THEOREM CleanupTypesHold == CSpec => []CTypeOK
<1>1. CInv => CTypeOK
  BY DEF CInv
<1> QED
  BY <1>1, CleanupInvariance, PTL

\* Collections, however many, interleaved and interrupted, never take what the
\* served generation or the one before it is read from, unless that came to be
\* served after the pointer the collection works from.
THEOREM ServedIsSparedHolds == CSpec => []ServedIsSpared
<1>1. CInv => ServedIsSpared
  BY DEF CInv
<1> QED
  BY <1>1, CleanupInvariance, PTL

\* What an unfinished operation will be resumed from is taken only by a
\* collection that listed the operations before its record existed.
THEOREM UnfinishedIsSparedHolds == CSpec => []UnfinishedIsSpared
<1>1. ASSUME CInv PROVE UnfinishedIsSpared
  <2> SUFFICES ASSUME NEW op \in Operations, record[op].outcome = "open",
                      OwnPresent(op)
               PROVE  ClosurePresent(op)
    BY <1>1 DEF UnfinishedIsSpared, CInv, OwnSpared, Closed
  <2>1. Named(op) /\ RecordData(op) /\ GenerationFacts(op) /\ record[op] \in Record
    BY <1>1 DEF CInv, DInv, Data, IInv, TypeOK, Consistent, Generations
  <2>2. ASSUME NEW s \in Societies, record[op].work[s] \in Attempts
        PROVE  <<record[op].work[s], s>> \in snapshots
    <3> DEFINE k == <<record[op].work[s], s>>
    <3>1. k \in written /\ k[1] = record[op].work[s] /\ target[k[1]] = op
      BY <2>1, <2>2 DEF Named, RecordData
    <3> QED
      BY <3>1 DEF OwnPresent
  <2>3. record[op].generation # None => Intact(record[op].generation)
    BY <2>1 DEF Named, GenerationFacts, OwnPresent
  <2> QED
    BY <2>2, <2>3 DEF ClosurePresent, Closure
<1> QED
  BY <1>1, CleanupInvariance, PTL

\* With the collector off nothing that a record names or the pointer serves is
\* ever missing: every object is written before it is named.
THEOREM WrittenBeforeNamedHolds == CSpec => []WrittenBeforeNamed
<1>1. ASSUME CInv PROVE WrittenBeforeNamed
  <2> SUFFICES ASSUME ~cleanupEnabled
               PROVE  InFlightClosureIsProtected /\ ServedIsRetained
    BY DEF WrittenBeforeNamed
  <2>1. written \subseteq snapshots /\ built \subseteq rosterKeys \cap bundles
    BY <1>1 DEF CInv, NothingMissing
  <2>2. ASSUME NEW op \in Operations PROVE ClosurePresent(op)
    BY <1>1, <2>1 DEF CInv, Named, ClosurePresent, Closure, Intact
  <2>3. ASSUME NEW g \in Current \cup Previous PROVE Complete(g)
    <3>1. PICK i \in 1 .. Len(history) : g = history[i]
      <4>1. pointer = PointerAt(Len(history)) /\ Len(history) \in Nat
        BY <1>1
        DEF CInv, DInv, IInv, TypeOK, Consistent, PointerFollowsHistory
      <4> QED
        BY <4>1 DEF Current, Previous, PointerAt
    <3>2. ServedWritten
      BY <1>1, ServedPins DEF CInv, AllNamed
    <3> QED
      BY <2>1, <3>1, <3>2 DEF ServedWritten, Complete, Intact
  <2> QED
    BY <2>2, <2>3 DEF InFlightClosureIsProtected, ServedIsRetained
<1> QED
  BY <1>1, CleanupInvariance, PTL
=============================================================================
