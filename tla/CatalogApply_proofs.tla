------------------------ MODULE CatalogApply_proofs ------------------------
(***************************************************************************)
(* Theorems about CatalogApply for every set of operations, attempts,      *)
(* undos and societies.                                                    *)
(***************************************************************************)
EXTENDS CatalogApply, TLAPS

(***************************************************************************)
(* Type correctness.                                                       *)
(***************************************************************************)

\* The constants that stand for absent objects are well typed.
LEMMA UnopenedType ==
  /\ NoPointer \in Pointer
  /\ Unopened \in Record
BY DEF NoPointer, Pointer, Unopened, Record, EmptyRoster, Roster, Outcomes

\* save_operation keeps every record well typed when what it saves is.
LEMMA SaveType ==
  ASSUME TypeOK, NEW a \in Attempts, target[a] \in Operations,
         NEW new \in Record, NEW step \in PcStates, Save(a, new, step)
  PROVE  /\ record' \in [Operations -> Record]
         /\ expired' \in [Operations -> BOOLEAN]
         /\ local' \in [Attempts -> Record]
         /\ pc' \in [Attempts -> PcStates]
<1> DEFINE saved == [new EXCEPT !.revision = local[a].revision + 1]
<1>0. local[a] \in Record
  BY DEF TypeOK
<1>1. saved \in Record
  <2>1. local[a].revision + 1 \in Nat
    BY <1>0 DEF Record
  <2> QED
    BY <2>1 DEF Record
<1>2. "release" \in PcStates
  BY DEF PcStates
<1> QED
  BY <1>1, <1>2 DEF Save, TypeOK, GoTo

\* What attempt a's own steps preserve, one case per action.
LEMMA StepType ==
  ASSUME TypeOK, Copies, Steps, NEW a \in Attempts, Step(a)
  PROVE  TypeOK'
<1> USE UnopenedType
<1>1. local[a] \in Record /\ pointer \in Pointer
  BY DEF TypeOK
<1>2. pc[a] # "idle" => target[a] \in Operations
  BY DEF Copies, CopyFacts
<1>3. CASE Load(a)
  <2>1. RosterAt(pointer) \in Roster
    BY NoneAssumption DEF TypeOK, RosterAt, Pointer, EmptyRoster, Roster
  <2>2. NewRecord(pointer) \in Record
    BY <1>1, <2>1 DEF NewRecord, Record, Outcomes
  <2>3. record[target[a]] \in Record
    BY <1>2, <1>3 DEF Load, Before, TypeOK
  <2> QED
    BY <1>3, <2>2, <2>3
    DEF Load, TypeOK, GoTo, Leave, PcStates, storeVars, undoVars
<1>4. CASE Create(a)
  BY <1>1, <1>2, <1>4
  DEF Create, TypeOK, GoTo, Before, PcStates, undoVars
<1>5. CASE Claim(a)
  <2> DEFINE claimed == [local[a] EXCEPT !.lease = a, !.revision = @ + 1]
  <2>1. claimed \in Record
    <3>1. local[a].revision + 1 \in Nat
      BY <1>1 DEF Record
    <3> QED
      BY <1>1, <3>1 DEF Record
  <2> QED
    BY <1>2, <1>5, <2>1
    DEF Claim, TypeOK, GoTo, Before, Leave, PcStates, undoVars
<1>6. CASE Recover(a)
  BY <1>6 DEF Recover, TypeOK, GoTo, PcStates, storeVars, undoVars
<1>7. ASSUME NEW s \in Societies, NEW entry \in {a, Kept},
             CollectSociety(a, s, entry)
      PROVE  TypeOK'
  <2>1. [local[a] EXCEPT !.work[s] = entry] \in Record
    BY <1>1 DEF Record
  <2>2. "collect" \in PcStates
    BY DEF PcStates
  <2> QED
    BY <1>2, <1>7, <2>1, <2>2, SaveType
    DEF CollectSociety, Before, TypeOK, undoVars
<1>8. CASE SaveCandidate(a)
  <2>1. Candidate(target[a], local[a]) \in Roster
    BY <1>1 DEF Candidate, Record, Roster
  <2>2. [local[a] EXCEPT !.candidate = Candidate(target[a], local[a])] \in Record
    BY <1>1, <2>1 DEF Record
  <2>3. "prepare" \in PcStates
    BY DEF PcStates
  <2> QED
    BY <1>2, <1>8, <2>2, <2>3, SaveType
    DEF SaveCandidate, Before, TypeOK, undoVars
<1>9. CASE PrepareGeneration(a)
  <2>1. local[a].candidate \in Roster
    BY <1>1, <1>9 DEF PrepareGeneration, Before, Steps, StepFacts, Record
  <2> QED
    BY <1>9, <2>1
    DEF PrepareGeneration, TypeOK, GoTo, PcStates, undoVars
<1>10. CASE SaveGeneration(a)
  <2>1. [local[a] EXCEPT !.generation = a] \in Record
    BY <1>1 DEF Record
  <2>2. "publish" \in PcStates
    BY DEF PcStates
  <2> QED
    BY <1>2, <1>10, <2>1, <2>2, SaveType
    DEF SaveGeneration, Before, TypeOK, undoVars
<1>11. CASE PublishGeneration(a)
  <2> DEFINE mine == local[a]
  <2>1. mine.generation \in Attempts
    BY <1>1, <1>11 DEF PublishGeneration, Before, Steps, StepFacts, Record
  <2>2. /\ mine.base.revision + 1 \in Nat
        /\ mine.base.current \in Attempts \cup {None}
    BY <1>1 DEF Record, Pointer
  <2>3. [revision |-> mine.base.revision + 1,
         current  |-> mine.generation,
         previous |-> mine.base.current] \in Pointer
    BY <2>1, <2>2 DEF Pointer
  <2>4. Append(history, mine.generation) \in Seq(Attempts)
    BY <2>1 DEF TypeOK
  <2> QED
    BY <1>11, <2>3, <2>4
    DEF PublishGeneration, TypeOK, GoTo, PcStates, undoVars
<1>12. CASE ClosePublished(a)
  <2>1. [local[a] EXCEPT !.outcome = "published"] \in Record
    BY <1>1 DEF Record, Outcomes
  <2>2. "release" \in PcStates
    BY DEF PcStates
  <2> QED
    BY <1>2, <1>12, <2>1, <2>2, SaveType
    DEF ClosePublished, Before, TypeOK, undoVars
<1>13. CASE CloseStale(a)
  <2>1. [local[a] EXCEPT !.outcome = "stale"] \in Record
    BY <1>1 DEF Record, Outcomes
  <2>2. "release" \in PcStates
    BY DEF PcStates
  <2> QED
    BY <1>2, <1>13, <2>1, <2>2, SaveType
    DEF CloseStale, Before, TypeOK, undoVars
<1>14. CASE Release(a)
  <2>1. record[target[a]] \in Record
    BY <1>2, <1>14 DEF Release, Before, TypeOK
  <2>2. [record[target[a]] EXCEPT !.lease = None, !.revision = @ + 1] \in Record
    <3>1. record[target[a]].revision + 1 \in Nat
      BY <2>1 DEF Record
    <3> QED
      BY <2>1, <3>1 DEF Record
  <2> QED
    BY <1>2, <1>14, <2>2
    DEF Release, Before, End, TypeOK, PcStates, undoVars
<1> QED
  BY <1>3, <1>4, <1>5, <1>6, <1>7, <1>8, <1>9, <1>10, <1>11, <1>12, <1>13, <1>14
  DEF Step

\* Every step of the system keeps the types.
LEMMA NextType ==
  ASSUME TypeOK, Copies, Steps, PointersArePast, [Next]_vars
  PROVE  TypeOK'
<1> USE UnopenedType
<1>1. ASSUME NEW a \in Attempts, NEW op \in Operations, Start(a, op)
      PROVE  TypeOK'
  BY <1>1 DEF Start, TypeOK, GoTo, PcStates, storeVars, undoVars
<1>2. ASSUME NEW a \in Attempts, Step(a)
      PROVE  TypeOK'
  BY <1>2, StepType
<1>3. ASSUME NEW a \in Attempts, Fail(a)
      PROVE  TypeOK'
  BY <1>3 DEF Fail, TypeOK, GoTo, Leave, PcStates, storeVars, undoVars
<1>4. ASSUME NEW a \in Attempts, Crash(a)
      PROVE  TypeOK'
  BY <1>4 DEF Crash, TypeOK, End, PcStates, storeVars, undoVars
<1>5. ASSUME NEW op \in Operations, LeaseExpires(op)
      PROVE  TypeOK'
  BY <1>5 DEF LeaseExpires, TypeOK, attemptVars, undoVars
<1>6. ASSUME NEW u \in Undos, UndoRead(u)
      PROVE  TypeOK'
  BY <1>6 DEF UndoRead, TypeOK, storeVars, attemptVars
<1>7. ASSUME NEW u \in Undos, UndoSwap(u)
      PROVE  TypeOK'
  <2>1. seen[u] \in Pointer /\ seen[u].previous \in Attempts
    BY <1>7 DEF TypeOK, UndoSwap, PointersArePast, Pointer
  <2>2. [revision |-> seen[u].revision + 1,
         current  |-> seen[u].previous,
         previous |-> seen[u].current] \in Pointer
    <3>1. seen[u].revision + 1 \in Nat
      BY <2>1 DEF Pointer
    <3> QED
      BY <2>1, <3>1 DEF Pointer
  <2>3. Append(history, seen[u].previous) \in Seq(Attempts)
    BY <2>1 DEF TypeOK
  <2> QED
    BY <1>7, <2>2, <2>3 DEF UndoSwap, TypeOK, attemptVars
<1>8. ASSUME NEW u \in Undos, UndoFail(u)
      PROVE  TypeOK'
  BY <1>8 DEF UndoFail, TypeOK, storeVars, attemptVars
<1>9. CASE UNCHANGED vars
  BY <1>9 DEF vars, storeVars, attemptVars, undoVars, TypeOK
<1> QED
  BY <1>1, <1>2, <1>3, <1>4, <1>5, <1>6, <1>7, <1>8, <1>9 DEF Next, Undo

(***************************************************************************)
(* The inductive invariant.                                                *)
(***************************************************************************)

\* The pointers of the past stay what they were when a generation is added.
LEMMA HistoryGrows ==
  ASSUME history \in Seq(Attempts), NEW g \in Attempts,
         history' = Append(history, g)
  PROVE  /\ Len(history) \in Nat /\ Len(history') = Len(history) + 1
         /\ \A i \in 1 .. Len(history) : history'[i] = history[i]
         /\ history'[Len(history) + 1] = g
         /\ \A n \in 0 .. Len(history) : PointerAt(n)' = PointerAt(n)
<1>1. /\ Len(history) \in Nat /\ Len(history') = Len(history) + 1
      /\ \A i \in 1 .. Len(history) : history'[i] = history[i]
      /\ history'[Len(history) + 1] = g
  OBVIOUS
<1> QED
  BY <1>1 DEF PointerAt

LEMMA PastStays ==
  ASSUME history \in Seq(Attempts), NEW p, Past(p),
         \/ history' = history
         \/ \E g \in Attempts : history' = Append(history, g)
  PROVE  /\ p.revision \in 0 .. Len(history')
         /\ p = PointerAt(p.revision)'
<1>1. CASE history' = history
  BY <1>1 DEF Past, PointerAt
<1>2. ASSUME NEW g \in Attempts, history' = Append(history, g)
      PROVE  /\ p.revision \in 0 .. Len(history')
             /\ p = PointerAt(p.revision)'
  BY <1>2, HistoryGrows DEF Past
<1> QED
  BY <1>1, <1>2

\* The pointer is one of the past, and one read at the current revision is it.
LEMMA PointerIsPast ==
  ASSUME TypeOK, PointerFollowsHistory
  PROVE  /\ Past(pointer) /\ pointer.revision = Len(history)
         /\ \A p : Past(p) /\ p.revision = Len(history) => p = pointer
         /\ Past(NoPointer)
<1>1. Len(history) \in Nat
  BY DEF TypeOK
<1>2. pointer.revision = Len(history)
  BY DEF PointerFollowsHistory, PointerAt
<1> QED
  BY <1>1, <1>2 DEF PointerFollowsHistory, Past, PointerAt, NoPointer

\* A generation in the history was prepared by a settled attempt and is the
\* one its operation's record names.
LEMMA HistoryIsSettled ==
  ASSUME TypeOK, Generations, ServedRecorded, NEW i \in 1 .. Len(history)
  PROVE  /\ history[i] \in Attempts /\ pc[history[i]] \in Settled
         /\ target[history[i]] \in Operations
         /\ record[target[history[i]]].generation = history[i]
<1>1. history[i] \in Attempts
  BY DEF TypeOK
<1> QED
  BY <1>1, NoneAssumption DEF Generations, GenerationFacts, ServedRecorded

LEMMA InitConsistent == Init => IInv
<1> SUFFICES ASSUME Init PROVE IInv
  OBVIOUS
<1> USE UnopenedType
<1>1. history = << >> /\ Len(history) = 0
  BY DEF Init
<1>2. TypeOK
  BY DEF Init, TypeOK, PcStates, EmptyRoster, Roster
<1>3. PointerFollowsHistory
  BY <1>1 DEF Init, PointerFollowsHistory, PointerAt, NoPointer
<1>4. Past(NoPointer)
  BY <1>2, <1>3, PointerIsPast
<1>5. PointersArePast
  BY <1>4 DEF Init, PointersArePast, Unopened
<1>6. Copies /\ Steps
  BY DEF Init, Copies, CopyFacts, Steps, StepFacts, Working
<1>7. Generations
  BY DEF Init, Generations, GenerationFacts, Unopened
<1>8. OnBase /\ ServedRecorded
  BY <1>1 DEF OnBase, ServedRecorded, Published
<1>9. ReportedWasPublished /\ StaleWindow
  BY DEF Init, ReportedWasPublished, StaleWindow, Unopened
<1> QED
  BY <1>2, <1>3, <1>5, <1>6, <1>7, <1>8, <1>9 DEF IInv, Consistent

\* A step of attempt a that leaves the pointer and every record alone.
LEMMA AttemptMove ==
  ASSUME IInv, NEW a \in Attempts,
         UNCHANGED <<pointer, record, undoVars, history>>,
         \A b \in Attempts \ {a} : /\ pc'[b] = pc[b] /\ target'[b] = target[b]
                                   /\ local'[b] = local[b],
         pc[a] \in Settled => pc'[a] \in Settled /\ target'[a] = target[a],
         Past(local'[a].base), CopyFacts(a)', StepFacts(a)'
  PROVE  Consistent'
<1> USE DEF IInv, Consistent
<1>1. \A op \in Operations : Published(op)' <=> Published(op)
  BY DEF Published
<1>2. \A p : Past(p) => Past(p)'
  BY DEF Past, PointerAt
<1>3. PointerFollowsHistory'
  BY DEF PointerFollowsHistory, PointerAt
<1>4. PointersArePast'
  <2>1. \A b \in Attempts : Past(local'[b].base)
    BY DEF PointersArePast
  <2> QED
    BY <1>2, <2>1 DEF PointersArePast, undoVars, Past, PointerAt
<1>5. Copies'
  <2> SUFFICES ASSUME NEW b \in Attempts \ {a} PROVE CopyFacts(b)'
    BY DEF Copies
  <2> QED
    BY DEF Copies, CopyFacts, CopyAgrees
<1>6. Steps'
  <2> SUFFICES ASSUME NEW b \in Attempts \ {a} PROVE StepFacts(b)'
    BY DEF Steps
  <2> QED
    BY DEF Steps, StepFacts, Published
<1>7. Generations'
  <2> SUFFICES ASSUME NEW op \in Operations PROVE GenerationFacts(op)'
    BY DEF Generations
  <2>1. record[op].generation \in Attempts \cup {None}
    BY DEF TypeOK, Record
  <2> QED
    BY <2>1 DEF Generations, GenerationFacts
<1>8. OnBase'
  BY DEF OnBase, Published
<1>9. ServedRecorded'
  <2> SUFFICES ASSUME NEW i \in 1 .. Len(history)
               PROVE  target'[history[i]] = target[history[i]]
    BY DEF ServedRecorded
  <2> QED
    BY HistoryIsSettled
<1>10. ReportedWasPublished' /\ StaleWindow'
  BY DEF ReportedWasPublished, StaleWindow, Published
<1> QED
  BY <1>3, <1>4, <1>5, <1>6, <1>7, <1>8, <1>9, <1>10

\* A step of attempt a that writes the record r of its operation op, which
\* exists, and keeps what others rely on.
LEMMA RecordMove ==
  ASSUME IInv, NEW a \in Attempts, NEW op \in Operations, NEW r \in Record,
         target[a] = op, record' = [record EXCEPT ![op] = r],
         UNCHANGED <<pointer, target, undoVars, history>>,
         \A b \in Attempts \ {a} : pc'[b] = pc[b] /\ local'[b] = local[b],
         pc[a] \in Settled \/ r.generation = a => pc'[a] \in Settled,
         record[op].outcome # "unopened", r.outcome # "unopened",
         r.base = record[op].base,
         r.revision = record[op].revision + 1,
         \/ r.generation = record[op].generation
         \/ record[op].generation = None /\ r.generation = a,
         r.generation # None => r.candidate # None,
         \/ r.outcome = record[op].outcome
         \/ r.outcome = "published" /\ r.generation = record[op].generation
              /\ Published(op)
         \/ r.outcome = "stale" /\ r.base.revision < Len(history)
              /\ r.generation = record[op].generation
              /\ (Published(op) => r.base.revision + 2 < Len(history)),
         Past(local'[a].base), CopyFacts(a)', StepFacts(a)'
  PROVE  Consistent'
<1> USE DEF IInv, Consistent
<1>1. /\ record'[op] = r
      /\ \A other \in Operations \ {op} : record'[other] = record[other]
  BY DEF TypeOK
<1>2. record[op].generation = None => ~Published(op) /\ ~Published(op)'
  <2> SUFFICES ASSUME NEW i \in 1 .. Len(history), record[op].generation = None
               PROVE  history[i] # None /\ history[i] # a
    BY <1>1, NoneAssumption DEF Published
  <2> QED
    BY HistoryIsSettled, NoneAssumption
<1>3. \A other \in Operations : Published(other)' <=> Published(other)
  BY <1>1, <1>2 DEF Published
<1>4. PointerFollowsHistory'
  BY DEF PointerFollowsHistory, PointerAt
<1>5. PointersArePast'
  <2>1. /\ \A b \in Attempts : Past(local'[b].base)
        /\ \A other \in Operations : Past(record'[other].base)
    BY <1>1 DEF PointersArePast
  <2> QED
    BY <2>1 DEF PointersArePast, undoVars, Past, PointerAt
<1>6. \A b \in Attempts \ {a} : CopyFacts(b)' /\ StepFacts(b)'
  <2> SUFFICES ASSUME NEW b \in Attempts \ {a}
               PROVE  CopyFacts(b)' /\ StepFacts(b)'
    OBVIOUS
  <2>1. CopyFacts(b) /\ StepFacts(b)
    BY DEF Copies, Steps
  <2>2. local[b].revision \in Nat /\ record[op].revision \in Nat
    BY DEF TypeOK, Record
  <2>3. CASE target[b] # op
    <3>1. pc[b] # "idle" => record'[target[b]] = record[target[b]]
      BY <1>1, <2>1, <2>3 DEF CopyFacts
    <3>2. pc[b] # "idle" => (Published(target[b])' <=> Published(target[b]))
      BY <1>3, <2>1 DEF CopyFacts
    <3>3. CopyFacts(b)'
      BY <2>1, <3>1 DEF CopyFacts, CopyAgrees, Working
    <3> QED
      BY <2>1, <3>1, <3>2, <3>3 DEF StepFacts
  <2>4. CASE target[b] = op
    <3>1. CopyFacts(b)'
      BY <1>1, <2>1, <2>2, <2>4 DEF CopyFacts, CopyAgrees
    <3>2. pc[b] = "closeStale" => local[b].revision # r.revision
      BY <2>1, <2>2, <2>4 DEF CopyFacts, CopyAgrees, Working
    <3> QED
      BY <1>1, <1>3, <2>1, <2>4, <3>1, <3>2 DEF StepFacts
  <2> QED
    BY <2>3, <2>4
<1>7. Copies' /\ Steps'
  BY <1>6 DEF Copies, Steps
<1>8. Generations'
  <2> SUFFICES ASSUME NEW other \in Operations PROVE GenerationFacts(other)'
    BY DEF Generations
  <2>1. GenerationFacts(other)
    BY DEF Generations
  <2>2. record[other].generation \in Attempts \cup {None}
    BY DEF TypeOK, Record
  <2>3. CASE other # op
    BY <1>1, <2>1, <2>2, <2>3 DEF GenerationFacts
  <2>4. CASE other = op
    BY <1>1, <2>1, <2>2, <2>4, NoneAssumption DEF GenerationFacts
  <2> QED
    BY <2>3, <2>4
<1>9. OnBase'
  BY <1>1, <1>2, <1>3 DEF OnBase
<1>10. ServedRecorded'
  <2> SUFFICES ASSUME NEW i \in 1 .. Len(history)
               PROVE  record'[target[history[i]]].generation = history[i]
    BY DEF ServedRecorded
  <2> QED
    BY <1>1, HistoryIsSettled, NoneAssumption
<1>11. ReportedWasPublished'
  BY <1>1, <1>2, <1>3 DEF ReportedWasPublished
<1>12. StaleWindow'
  BY <1>1, <1>2, <1>3 DEF StaleWindow
<1> QED
  BY <1>4, <1>5, <1>7, <1>8, <1>9, <1>10, <1>11, <1>12

\* A swap of the pointer to generation g, whose operation was published before
\* or is based on the generation being replaced.
LEMMA PointerMove ==
  ASSUME IInv, NEW g \in Attempts,
         history' = Append(history, g),
         PointerFollowsHistory',
         UNCHANGED <<record, target, local, seen>>,
         pc[g] \in Settled, target[g] \in Operations,
         record[target[g]].generation = g,
         \A b \in Attempts : \/ pc'[b] = pc[b]
                             \/ /\ pc[b] = "publish" /\ pc'[b] = "closePublished"
                                /\ target[b] = target[g],
         \A u \in Undos : upc'[u] = "swap" => upc[u] = "swap",
         \/ Published(target[g])
         \/ record[target[g]].base.revision = Len(history)
  PROVE  Consistent'
<1> USE DEF IInv, Consistent
<1>1. history \in Seq(Attempts)
  BY DEF TypeOK
<1>2. /\ Len(history) \in Nat /\ Len(history') = Len(history) + 1
      /\ \A i \in 1 .. Len(history) : history'[i] = history[i]
      /\ history'[Len(history) + 1] = g
      /\ \A n \in 0 .. Len(history) : PointerAt(n)' = PointerAt(n)
  BY <1>1, HistoryGrows
<1>3. \A op \in Operations : Published(op) => Published(op)'
  BY <1>2 DEF Published
<1>4. Published(target[g])'
  BY <1>2 DEF Published
<1>5. \A op \in Operations : Published(op)' => Published(op) \/ op = target[g]
  <2> SUFFICES ASSUME NEW op \in Operations, Published(op)', ~Published(op)
               PROVE  op = target[g]
    OBVIOUS
  <2>1. PICK i \in 1 .. Len(history') : history'[i] = record[op].generation
    BY DEF Published
  <2>2. i = Len(history) + 1
    BY <1>2, <2>1 DEF Published
  <2>3. record[op].generation = g /\ g # None
    BY <1>2, <2>1, <2>2, NoneAssumption
  <2> QED
    BY <2>3 DEF Generations, GenerationFacts
<1>6. \A op \in Operations : record[op].base.revision \in Nat
  BY DEF TypeOK, Record, Pointer
<1>8. PointersArePast'
  <2>1. \A p : Past(p) => p.revision \in 0 .. Len(history')
                            /\ p = PointerAt(p.revision)'
    BY <1>1, PastStays
  <2> QED
    BY <2>1 DEF PointersArePast, Past
<1>9. Copies'
  <2> SUFFICES ASSUME NEW b \in Attempts PROVE CopyFacts(b)'
    BY DEF Copies
  <2>1. CopyFacts(b)
    BY DEF Copies
  <2> QED
    BY <2>1 DEF CopyFacts, CopyAgrees, Working
<1>10. Steps'
  <2> SUFFICES ASSUME NEW b \in Attempts PROVE StepFacts(b)'
    BY DEF Steps
  <2>1. StepFacts(b) /\ CopyFacts(b)
    BY DEF Steps, Copies
  <2>2. local[b].base.revision \in Nat
    BY DEF TypeOK, Record, Pointer
  <2>3. CASE pc'[b] # pc[b]
    BY <1>4, <2>1, <2>3 DEF StepFacts
  <2>4. CASE pc'[b] = pc[b] /\ pc[b] # "closeStale"
    BY <1>3, <2>1, <2>4 DEF StepFacts, CopyFacts
  <2>5. CASE pc'[b] = pc[b] /\ pc[b] = "closeStale"
    <3>1. local[b].base.revision < Len(history)
      BY <2>1, <2>5 DEF StepFacts
    <3>2. target[b] \in Operations /\ local[b].base = record[target[b]].base
      BY <2>1, <2>5 DEF CopyFacts, CopyAgrees, Working
    <3>3. Published(target[b])' => Published(target[b])
      BY <1>5, <3>1, <3>2
    <3> QED
      BY <1>2, <2>1, <2>2, <2>5, <3>1, <3>3 DEF StepFacts
  <2> QED
    BY <2>3, <2>4, <2>5
<1>11. Generations'
  <2> SUFFICES ASSUME NEW op \in Operations PROVE GenerationFacts(op)'
    BY DEF Generations
  <2>1. record[op].generation \in Attempts \cup {None}
    BY DEF TypeOK, Record
  <2> QED
    BY <2>1 DEF Generations, GenerationFacts, Settled
<1>12. OnBase'
  <2> SUFFICES ASSUME NEW op \in Operations, Published(op)'
               PROVE  /\ record[op].base.revision < Len(history')
                      /\ history'[record[op].base.revision + 1]
                           = record[op].generation
    BY DEF OnBase
  <2>1. CASE Published(op)
    BY <1>2, <1>6, <2>1 DEF OnBase
  <2>2. CASE ~Published(op)
    BY <1>2, <1>5, <2>2
  <2> QED
    BY <2>1, <2>2
<1>13. ServedRecorded'
  BY <1>2 DEF ServedRecorded
<1>14. ReportedWasPublished'
  BY <1>3 DEF ReportedWasPublished
<1>15. StaleWindow'
  <2> SUFFICES ASSUME NEW op \in Operations, record[op].outcome = "stale"
               PROVE  /\ record[op].base.revision < Len(history')
                      /\ Published(op)' => record[op].base.revision + 2 < Len(history')
    BY DEF StaleWindow
  <2>1. record[op].base.revision < Len(history)
    BY DEF StaleWindow
  <2>2. Published(op)' => Published(op)
    BY <1>5, <2>1
  <2> QED
    BY <1>2, <1>6, <2>1, <2>2 DEF StaleWindow
<1> QED
  BY <1>8, <1>9, <1>10, <1>11, <1>12, <1>13, <1>14, <1>15

LEMMA PublishKeeps ==
  ASSUME IInv, NEW a \in Attempts, PublishGeneration(a)
  PROVE  Consistent'
<1> USE DEF IInv, Consistent
<1> DEFINE mine == local[a]
           op == target[a]
<1>1. CopyFacts(a) /\ StepFacts(a) /\ Before(a, "publish")
  BY DEF Copies, Steps, PublishGeneration
<1>2. /\ op \in Operations /\ mine.base = record[op].base
      /\ mine.generation # None /\ record[op].generation = mine.generation
  BY <1>1 DEF Before, CopyFacts, CopyAgrees, StepFacts, Working
<1>3. mine.generation \in Attempts
  BY <1>2 DEF TypeOK, Record
<1>4. /\ target[mine.generation] = op /\ pc[mine.generation] \in Settled
  BY <1>2 DEF Generations, GenerationFacts
<1>5. CASE pointer = mine.base
  <2>1. history' = Append(history, mine.generation)
    BY <1>5 DEF PublishGeneration
  <2>2. pointer.revision = Len(history) /\ pointer = PointerAt(Len(history))
    BY PointerIsPast DEF PointerFollowsHistory
  <2>3. PointerFollowsHistory'
    <3>1. history \in Seq(Attempts) /\ Len(history) \in Nat
      BY DEF TypeOK
    <3>2. pointer' = [revision |-> Len(history) + 1,
                      current  |-> mine.generation,
                      previous |-> pointer.current]
      BY <1>5, <2>2 DEF PublishGeneration
    <3> QED
      BY <1>3, <2>1, <2>2, <3>1, <3>2, HistoryGrows
      DEF PointerFollowsHistory, PointerAt
  <2>4. \A b \in Attempts : \/ pc'[b] = pc[b]
                            \/ /\ pc[b] = "publish" /\ pc'[b] = "closePublished"
                               /\ target[b] = target[mine.generation]
    BY <1>1, <1>4, <1>5 DEF PublishGeneration, Before, GoTo, TypeOK
  <2>5. record[target[mine.generation]].base.revision = Len(history)
    BY <1>2, <1>4, <1>5, <2>2
  <2>6. UNCHANGED <<record, target, local, seen, upc>>
    BY DEF PublishGeneration, undoVars
  <2>7. record[target[mine.generation]].generation = mine.generation
    BY <1>2, <1>4
  <2> HIDE DEF mine, op
  <2> QED
    BY <1>2, <1>3, <1>4, <2>1, <2>3, <2>4, <2>5, <2>6, <2>7, PointerMove
<1>6. CASE pointer # mine.base
  <2>1. pc' = [pc EXCEPT ![a] = "release"]
    BY <1>6 DEF PublishGeneration, GoTo
  <2>2. CopyFacts(a)' /\ StepFacts(a)'
    BY <1>1, <1>6, <2>1
    DEF PublishGeneration, CopyFacts, StepFacts, Before, TypeOK, Working
  <2>3. Past(local'[a].base)
    BY DEF PublishGeneration, PointersArePast
  <2> QED
    BY <1>6, <2>1, <2>2, <2>3, AttemptMove
    DEF PublishGeneration, TypeOK, Settled
<1> QED
  BY <1>5, <1>6

LEMMA UndoSwapKeeps ==
  ASSUME IInv, NEW u \in Undos, UndoSwap(u)
  PROVE  Consistent'
<1> USE DEF IInv, Consistent
<1>1. Past(seen[u]) /\ seen[u].previous # None /\ upc[u] = "swap"
  BY DEF PointersArePast, UndoSwap
<1>2. history \in Seq(Attempts) /\ Len(history) \in Nat
  BY DEF TypeOK
<1>3. CASE pointer = seen[u]
  <2> DEFINE g == seen[u].previous
  <2>1. history' = Append(history, g)
    BY <1>3 DEF UndoSwap
  <2>2. pointer = PointerAt(Len(history)) /\ pointer.revision = Len(history)
    BY PointerIsPast DEF PointerFollowsHistory
  <2>3. Len(history) - 1 \in 1 .. Len(history) /\ g = history[Len(history) - 1]
    BY <1>1, <1>2, <1>3, <2>2 DEF PointerAt
  <2>4. /\ g \in Attempts /\ pc[g] \in Settled
        /\ target[g] \in Operations /\ record[target[g]].generation = g
    BY <2>3, HistoryIsSettled
  <2>5. Published(target[g])
    BY <2>3, <2>4 DEF Published
  <2>6. PointerFollowsHistory'
    <3>1. pointer' = [revision |-> Len(history) + 1,
                      current  |-> g,
                      previous |-> pointer.current]
      BY <1>3, <2>2 DEF UndoSwap
    <3> QED
      BY <1>2, <2>1, <2>2, <2>3, <2>4, <3>1, HistoryGrows
      DEF PointerFollowsHistory, PointerAt
  <2> QED
    BY <1>3, <2>1, <2>4, <2>5, <2>6, PointerMove
    DEF UndoSwap, attemptVars, TypeOK
<1>4. CASE pointer # seen[u]
  BY <1>4 DEF UndoSwap, attemptVars, TypeOK, PointerFollowsHistory, PointerAt,
     PointersArePast, Past, Copies, CopyFacts, CopyAgrees, Steps, StepFacts,
     Published, Generations, GenerationFacts, OnBase, ServedRecorded,
     ReportedWasPublished, StaleWindow
<1> QED
  BY <1>3, <1>4

\* save_operation, whichever field it saves: through, it writes onto the very
\* record the attempt holds a copy of; refused, it changes nothing.
LEMMA SaveKeeps ==
  ASSUME IInv, NEW a \in Attempts, pc[a] \in Working,
         NEW new \in Record,
         NEW step \in {"collect", "prepare", "publish", "release"},
         Save(a, new, step), UNCHANGED <<pointer, target, undoVars, history>>,
         new.base = local[a].base, new.lease = a,
         \/ new.generation = local[a].generation
         \/ local[a].generation = None /\ new.generation = a,
         new.generation # None => new.candidate # None,
         \/ new.outcome = "open"
         \/ /\ new.generation = local[a].generation /\ step = "release"
            /\ \/ new.outcome = "published" /\ Published(target[a])
               \/ /\ new.outcome = "stale"
                  /\ new.base.revision < Len(history)
                  /\ record[target[a]] = local[a] /\ Published(target[a]) =>
                       new.base.revision + 2 < Len(history),
         step \in {"collect", "prepare"} => new.generation = None,
         step = "prepare" => new.candidate # None,
         step = "publish" => new.generation # None,
         pc[a] \in Settled \/ new.generation = a => step \in Settled
  PROVE  Consistent'
<1> USE DEF IInv, Consistent
<1> DEFINE op == target[a]
           saved == [new EXCEPT !.revision = local[a].revision + 1]
<1>1. CopyFacts(a) /\ pc[a] # "idle" /\ local[a].lease = a
  BY DEF Copies, CopyFacts, Working
<1>2. op \in Operations /\ CopyAgrees(a)
  BY <1>1 DEF CopyFacts
<1>3. local[a] \in Record /\ local[a].revision \in Nat
  BY DEF TypeOK, Record
<1>4. Past(local[a].base)
  BY DEF PointersArePast
<1>5. CASE record[op].revision = local[a].revision /\ record[op].lease = local[a].lease
  <2>1. record[op] = local[a]
    BY <1>2, <1>5 DEF CopyAgrees
  <2>2. /\ saved.base = new.base /\ saved.lease = new.lease
        /\ saved.generation = new.generation /\ saved.candidate = new.candidate
        /\ saved.outcome = new.outcome
        /\ saved.revision = local[a].revision + 1
        /\ saved \in Record
    <3>1. local[a].revision + 1 \in Nat
      BY <1>3
    <3> QED
      BY <3>1 DEF Record
  <2>3. /\ record' = [record EXCEPT ![op] = saved]
        /\ local' = [local EXCEPT ![a] = saved]
        /\ pc' = [pc EXCEPT ![a] = step]
    BY <1>5 DEF Save, GoTo
  <2> HIDE DEF saved
  <2>4. /\ record'[op] = saved /\ local'[a] = saved /\ pc'[a] = step
        /\ target'[a] = op /\ history' = history
        /\ \A b \in Attempts \ {a} : pc'[b] = pc[b] /\ local'[b] = local[b]
    BY <1>2, <2>3 DEF TypeOK
  <2>5. CopyFacts(a)'
    <3>1. new.outcome # "unopened"
      OBVIOUS
    <3>2. saved.revision \in Nat
      BY <1>3, <2>2
    <3> QED
      BY <1>2, <2>2, <2>4, <3>1, <3>2 DEF CopyFacts, CopyAgrees, Working
  <2>6. StepFacts(a)'
    BY <2>2, <2>4 DEF StepFacts
  <2>7. record[op].outcome = "open"
    BY <1>2, <2>1 DEF CopyAgrees
  <2>8. \/ saved.outcome = record[op].outcome
        \/ saved.outcome = "published" /\ saved.generation = record[op].generation
             /\ Published(op)
        \/ saved.outcome = "stale" /\ saved.base.revision < Len(history)
             /\ saved.generation = record[op].generation
             /\ (Published(op) => saved.base.revision + 2 < Len(history))
    BY <2>1, <2>2, <2>7
  <2>9. Past(local'[a].base)
    BY <1>4, <2>2, <2>4
  <2>10. \/ saved.generation = record[op].generation
         \/ record[op].generation = None /\ saved.generation = a
    BY <2>1, <2>2
  <2>11. /\ saved.base = record[op].base
         /\ saved.revision = record[op].revision + 1
         /\ saved.outcome # "unopened"
         /\ saved.generation # None => saved.candidate # None
         /\ pc[a] \in Settled \/ saved.generation = a => pc'[a] \in Settled
    BY <2>1, <2>2, <2>4
  <2> QED
    BY <1>2, <2>2, <2>3, <2>4, <2>5, <2>6, <2>7, <2>8, <2>9, <2>10, <2>11,
       RecordMove
<1>6. CASE ~ (record[op].revision = local[a].revision
                /\ record[op].lease = local[a].lease)
  <2>1. /\ pc' = [pc EXCEPT ![a] = "release"]
        /\ UNCHANGED <<pointer, record, target, local, undoVars, history>>
    BY <1>6 DEF Save, GoTo
  <2>2. pc'[a] = "release" /\ \A b \in Attempts \ {a} : pc'[b] = pc[b]
    BY <2>1 DEF TypeOK
  <2>3. CopyFacts(a)' /\ StepFacts(a)'
    BY <1>2, <2>1, <2>2 DEF CopyFacts, StepFacts, Working
  <2> QED
    BY <1>4, <2>1, <2>2, <2>3, AttemptMove DEF Settled
<1> QED
  BY <1>5, <1>6

\* The five steps that save the record.
LEMMA SavingStepsKeep ==
  ASSUME IInv, NEW a \in Attempts,
         \/ \E s \in Societies, entry \in {a, Kept} : CollectSociety(a, s, entry)
         \/ SaveCandidate(a) \/ SaveGeneration(a)
         \/ ClosePublished(a) \/ CloseStale(a)
  PROVE  Consistent'
<1> USE DEF IInv, Consistent
<1> DEFINE mine == local[a]
<1>1. /\ mine \in Record /\ CopyFacts(a) /\ StepFacts(a)
  BY DEF TypeOK, Copies, Steps
<1>2. ASSUME pc[a] \in Working
      PROVE  /\ mine.lease = a /\ mine.outcome = "open"
             /\ mine.generation # None => mine.candidate # None
  BY <1>1, <1>2 DEF CopyFacts, CopyAgrees
<1>3. a # None
  BY NoneAssumption
<1>4. ASSUME NEW s \in Societies, NEW entry \in {a, Kept},
             CollectSociety(a, s, entry)
      PROVE  Consistent'
  <2> DEFINE new == [mine EXCEPT !.work[s] = entry]
  <2>1. pc[a] = "collect" /\ Save(a, new, "collect")
        /\ UNCHANGED <<pointer, target, undoVars, history>>
    BY <1>4 DEF CollectSociety, Before
  <2>2. new \in Record
    BY <1>1 DEF Record
  <2>3. /\ new.base = mine.base /\ new.lease = mine.lease
        /\ new.generation = mine.generation /\ new.candidate = mine.candidate
        /\ new.outcome = mine.outcome
    BY <1>1 DEF Record
  <2>4. mine.generation = None
    BY <1>1, <2>1 DEF StepFacts
  <2>5. pc[a] \in Working /\ pc[a] \notin Settled
    BY <2>1 DEF Working, Settled
  <2> HIDE DEF new, mine
  <2> QED
    BY <1>2, <1>3, <2>1, <2>2, <2>3, <2>4, <2>5, SaveKeeps DEF mine
<1>5. CASE SaveCandidate(a)
  <2> DEFINE new == [mine EXCEPT !.candidate = Candidate(target[a], mine)]
  <2>1. pc[a] = "collect" /\ Save(a, new, "prepare")
        /\ UNCHANGED <<pointer, target, undoVars, history>>
    BY <1>5 DEF SaveCandidate, Before
  <2>2. Candidate(target[a], mine) \in Roster
    BY <1>1 DEF Candidate, Record, Roster
  <2>3. Candidate(target[a], mine) # None
    BY <2>2, NoneAssumption DEF Roster
  <2>4. new \in Record
    BY <1>1, <2>2 DEF Record
  <2>5. /\ new.base = mine.base /\ new.lease = mine.lease
        /\ new.generation = mine.generation /\ new.outcome = mine.outcome
        /\ new.candidate = Candidate(target[a], mine)
    BY <1>1 DEF Record
  <2>6. mine.generation = None
    BY <1>1, <2>1 DEF StepFacts
  <2>7. pc[a] \in Working /\ pc[a] \notin Settled
    BY <2>1 DEF Working, Settled
  <2> HIDE DEF new, mine
  <2> QED
    BY <1>2, <1>3, <2>1, <2>2, <2>3, <2>4, <2>5, <2>6, <2>7, SaveKeeps DEF mine
<1>6. CASE SaveGeneration(a)
  <2> DEFINE new == [mine EXCEPT !.generation = a]
  <2>1. pc[a] = "save" /\ Save(a, new, "publish")
        /\ UNCHANGED <<pointer, target, undoVars, history>>
    BY <1>6 DEF SaveGeneration, Before
  <2>2. new \in Record
    BY <1>1 DEF Record
  <2>3. /\ new.base = mine.base /\ new.lease = mine.lease
        /\ new.generation = a /\ new.candidate = mine.candidate
        /\ new.outcome = mine.outcome
    BY <1>1 DEF Record
  <2>4. mine.generation = None /\ mine.candidate # None
    BY <1>1, <2>1 DEF StepFacts
  <2>5. pc[a] \in Working /\ "publish" \in Settled
    BY <2>1 DEF Working, Settled
  <2> HIDE DEF new, mine
  <2> QED
    BY <1>2, <1>3, <2>1, <2>2, <2>3, <2>4, <2>5, SaveKeeps DEF mine
<1>7. CASE ClosePublished(a)
  <2> DEFINE new == [mine EXCEPT !.outcome = "published"]
  <2>1. pc[a] = "closePublished" /\ Save(a, new, "release")
        /\ UNCHANGED <<pointer, target, undoVars, history>>
    BY <1>7 DEF ClosePublished, Before
  <2>2. new \in Record
    BY <1>1 DEF Record, Outcomes
  <2>3. /\ new.base = mine.base /\ new.lease = mine.lease
        /\ new.generation = mine.generation /\ new.candidate = mine.candidate
        /\ new.outcome = "published"
    BY <1>1 DEF Record
  <2>4. Published(target[a])
    BY <1>1, <2>1 DEF StepFacts
  <2>5. pc[a] \in Working /\ "release" \in Settled
    BY <2>1 DEF Working, Settled
  <2> HIDE DEF new, mine
  <2> QED
    BY <1>2, <1>3, <2>1, <2>2, <2>3, <2>4, <2>5, SaveKeeps DEF mine
<1>8. CASE CloseStale(a)
  <2> DEFINE new == [mine EXCEPT !.outcome = "stale"]
  <2>1. pc[a] = "closeStale" /\ Save(a, new, "release")
        /\ UNCHANGED <<pointer, target, undoVars, history>>
    BY <1>8 DEF CloseStale, Before
  <2>2. new \in Record
    BY <1>1 DEF Record, Outcomes
  <2>3. /\ new.base = mine.base /\ new.lease = mine.lease
        /\ new.generation = mine.generation /\ new.candidate = mine.candidate
        /\ new.outcome = "stale"
    BY <1>1 DEF Record
  <2>4. /\ mine.base.revision < Len(history)
        /\ record[target[a]] = mine /\ Published(target[a]) =>
             mine.base.revision + 2 < Len(history)
    BY <1>1, <2>1 DEF StepFacts
  <2>5. pc[a] \in Working /\ "release" \in Settled
    BY <2>1 DEF Working, Settled
  <2> HIDE DEF new, mine
  <2> QED
    BY <1>2, <1>3, <2>1, <2>2, <2>3, <2>4, <2>5, SaveKeeps DEF mine
<1> QED
  BY <1>4, <1>5, <1>6, <1>7, <1>8

LEMMA StartKeeps ==
  ASSUME IInv, NEW a \in Attempts, NEW op \in Operations, Start(a, op)
  PROVE  Consistent'
<1> USE DEF IInv, Consistent
<1>1. /\ pc[a] = "idle" /\ pc'[a] = "load" /\ target'[a] = op
      /\ \A b \in Attempts \ {a} : pc'[b] = pc[b] /\ target'[b] = target[b]
      /\ UNCHANGED <<pointer, record, local, undoVars, history>>
  BY DEF Start, Before, GoTo, storeVars, TypeOK
<1>2. CopyFacts(a)' /\ StepFacts(a)'
  BY <1>1 DEF CopyFacts, StepFacts, Working
<1>3. Past(local'[a].base)
  BY <1>1 DEF PointersArePast
<1> QED
  BY <1>1, <1>2, <1>3, AttemptMove DEF Settled

\* An attempt that leaves before it owned a lease.
LEMMA LeaveKeeps ==
  ASSUME IInv, NEW a \in Attempts, pc[a] \in {"load", "create", "claim"},
         Leave(a), UNCHANGED <<pointer, record, undoVars, history>>
  PROVE  Consistent'
<1> USE DEF IInv, Consistent
<1>1. /\ pc'[a] = "idle" /\ local'[a] = Unopened
      /\ \A b \in Attempts \ {a} : /\ pc'[b] = pc[b] /\ target'[b] = target[b]
                                   /\ local'[b] = local[b]
  BY DEF Leave, TypeOK
<1>2. CopyFacts(a)' /\ StepFacts(a)'
  BY <1>1 DEF CopyFacts, StepFacts, Working
<1>3. Past(local'[a].base)
  BY <1>1, PointerIsPast DEF Unopened
<1> QED
  BY <1>1, <1>2, <1>3, AttemptMove DEF Settled

\* An attempt that has let go of its record.
LEMMA EndFacts ==
  ASSUME IInv, NEW a \in Attempts, NEW step \in {"done", "crashed"},
         pc[a] # "idle", End(a, step)
  PROVE  /\ pc'[a] = step /\ local'[a] = Unopened /\ target' = target
         /\ \A b \in Attempts \ {a} : pc'[b] = pc[b] /\ local'[b] = local[b]
         /\ CopyFacts(a)' /\ StepFacts(a)' /\ Past(local'[a].base)
<1> USE DEF IInv, Consistent
<1>1. /\ pc'[a] = step /\ local'[a] = Unopened /\ target' = target
      /\ \A b \in Attempts \ {a} : pc'[b] = pc[b] /\ local'[b] = local[b]
  BY DEF End, TypeOK
<1>2. CopyFacts(a)' /\ StepFacts(a)'
  BY <1>1 DEF Copies, CopyFacts, StepFacts, Working
<1>3. Past(local'[a].base)
  BY <1>1, PointerIsPast DEF Unopened
<1> QED
  BY <1>1, <1>2, <1>3

LEMMA LoadKeeps ==
  ASSUME IInv, NEW a \in Attempts, Load(a)
  PROVE  Consistent'
<1> USE DEF IInv, Consistent
<1> DEFINE op == target[a]
<1>1. /\ pc[a] = "load" /\ op \in Operations
      /\ UNCHANGED <<pointer, record, undoVars, history>>
  BY DEF Load, Before, storeVars, Copies, CopyFacts
<1>2. CASE /\ local' = [local EXCEPT ![a] = NewRecord(pointer)]
           /\ GoTo(a, "create") /\ UNCHANGED target
  <2>1. /\ pc'[a] = "create" /\ local'[a] = NewRecord(pointer)
        /\ \A b \in Attempts \ {a} : pc'[b] = pc[b] /\ local'[b] = local[b]
    BY <1>2 DEF GoTo, TypeOK
  <2>2. /\ local'[a].outcome = "open" /\ local'[a].revision = 0
        /\ local'[a].lease = None /\ local'[a].generation = None
        /\ local'[a].base = pointer
    BY <2>1 DEF NewRecord, Unopened
  <2>3. CopyFacts(a)' /\ StepFacts(a)'
    BY <1>1, <1>2, <2>1, <2>2 DEF CopyFacts, StepFacts, Working
  <2>4. Past(local'[a].base)
    BY <2>2, PointerIsPast
  <2> QED
    BY <1>1, <1>2, <2>1, <2>3, <2>4, AttemptMove DEF Settled
<1>3. CASE /\ record[op].outcome = "open"
           /\ local' = [local EXCEPT ![a] = record[op]]
           /\ GoTo(a, "claim") /\ UNCHANGED target
  <2>1. /\ pc'[a] = "claim" /\ local'[a] = record[op]
        /\ \A b \in Attempts \ {a} : pc'[b] = pc[b] /\ local'[b] = local[b]
    BY <1>3 DEF GoTo, TypeOK
  <2>2. GenerationFacts(op) /\ record[op].revision \in Nat
    BY <1>1 DEF Generations, TypeOK, Record
  <2>3. CopyFacts(a)' /\ StepFacts(a)'
    BY <1>1, <1>3, <2>1, <2>2
    DEF CopyFacts, CopyAgrees, StepFacts, Working, GenerationFacts
  <2>4. Past(local'[a].base)
    BY <1>1, <2>1 DEF PointersArePast
  <2> QED
    BY <1>1, <1>3, <2>1, <2>3, <2>4, AttemptMove DEF Settled
<1>4. CASE Leave(a)
  BY <1>1, <1>4, LeaveKeeps
<1> QED
  BY <1>2, <1>3, <1>4 DEF Load

LEMMA ClaimKeeps ==
  ASSUME IInv, NEW a \in Attempts, Claim(a)
  PROVE  Consistent'
<1> USE DEF IInv, Consistent
<1> DEFINE op == target[a]
           claimed == [local[a] EXCEPT !.lease = a, !.revision = @ + 1]
<1>1. /\ pc[a] = "claim" /\ op \in Operations /\ CopyAgrees(a)
      /\ UNCHANGED <<pointer, undoVars, history>>
  BY DEF Claim, Before, Copies, CopyFacts
<1>2. CASE record[op].revision = local[a].revision /\ GoTo(a, "recover")
           /\ record' = [record EXCEPT ![op] = claimed]
           /\ local' = [local EXCEPT ![a] = claimed] /\ UNCHANGED target
  <2>1. local[a] \in Record /\ local[a] = record[op] /\ local[a].revision \in Nat
    BY <1>1, <1>2 DEF CopyAgrees, TypeOK, Record
  <2>2. /\ claimed \in Record /\ claimed.lease = a
        /\ claimed.revision = record[op].revision + 1
        /\ claimed.base = record[op].base
        /\ claimed.generation = record[op].generation
        /\ claimed.candidate = record[op].candidate
        /\ claimed.outcome = record[op].outcome
    <3>1. local[a].revision + 1 \in Nat
      BY <2>1
    <3> QED
      BY <2>1, <3>1 DEF Record
  <2> HIDE DEF claimed
  <2>3. /\ pc'[a] = "recover" /\ record'[op] = claimed /\ local'[a] = claimed
        /\ \A b \in Attempts \ {a} : pc'[b] = pc[b] /\ local'[b] = local[b]
    BY <1>1, <1>2 DEF GoTo, TypeOK
  <2>4. CopyFacts(a)' /\ StepFacts(a)'
    BY <1>1, <1>2, <2>1, <2>2, <2>3
    DEF CopyFacts, CopyAgrees, StepFacts, Working
  <2>5. Past(local'[a].base)
    BY <1>1, <2>2, <2>3 DEF PointersArePast
  <2>6. /\ pc[a] \notin Settled /\ claimed.generation # a
        /\ claimed.generation # None => claimed.candidate # None
    BY <1>1, <2>2, NoneAssumption DEF Settled, Generations, GenerationFacts
  <2>7. record[op].outcome # "unopened"
    BY <1>1 DEF CopyAgrees
  <2> QED
    BY <1>1, <1>2, <2>2, <2>3, <2>4, <2>5, <2>6, <2>7, RecordMove
<1>3. CASE Leave(a) /\ UNCHANGED record
  BY <1>1, <1>3, LeaveKeeps
<1> QED
  BY <1>2, <1>3 DEF Claim

LEMMA RecoverKeeps ==
  ASSUME IInv, NEW a \in Attempts, Recover(a)
  PROVE  Consistent'
<1> USE DEF IInv, Consistent
<1> DEFINE op == target[a]
           mine == local[a]
           theirs == record[op]
           published == /\ mine.generation # None
                        /\ mine.generation \in {pointer.current, pointer.previous}
<1>1. /\ pc[a] = "recover" /\ op \in Operations /\ CopyFacts(a) /\ CopyAgrees(a)
      /\ UNCHANGED <<pointer, record, target, local, undoVars, history>>
      /\ \A b \in Attempts \ {a} : pc'[b] = pc[b]
  BY DEF Recover, Before, GoTo, storeVars, Copies, CopyFacts, Working, TypeOK
<1>2. /\ Len(history) \in Nat /\ Past(mine.base) /\ mine.base.revision \in Nat
      /\ pointer = PointerAt(Len(history))
  BY DEF TypeOK, Record, Pointer, PointersArePast, PointerFollowsHistory
<1>3. pc'[a] \in {"closePublished", "closeStale", "collect", "prepare", "publish"}
  BY <1>1 DEF Recover, GoTo, TypeOK
<1>4. CopyFacts(a)'
  BY <1>1, <1>3 DEF CopyFacts, CopyAgrees, Working
<1>5. CASE published
  <2>1. pc'[a] = "closePublished"
    BY <1>5 DEF Recover, GoTo, TypeOK
  <2>2. Published(op)
    <3>1. theirs.generation = mine.generation
      BY <1>1, <1>5 DEF CopyAgrees
    <3>2. PICK n \in {Len(history), Len(history) - 1} :
            n \in 1 .. Len(history) /\ history[n] = mine.generation
      BY <1>2, <1>5 DEF PointerAt
    <3> QED
      BY <3>1, <3>2 DEF Published
  <2>3. Published(op)'
    BY <1>1, <2>2 DEF Published
  <2>4. StepFacts(a)'
    BY <1>1, <1>5, <2>1, <2>3 DEF StepFacts
  <2>5. Past(local'[a].base)
    BY <1>1, <1>2
  <2> QED
    BY <1>1, <1>4, <2>1, <2>4, <2>5, AttemptMove DEF Settled
<1>6. CASE ~published /\ pointer # mine.base
  <2>1. pc'[a] = "closeStale"
    BY <1>6 DEF Recover, GoTo, TypeOK
  <2>2. mine.base.revision < Len(history)
    BY <1>2, <1>6 DEF Past
  <2>3. ASSUME mine.revision = theirs.revision, Published(op)
        PROVE  mine.base.revision + 2 < Len(history)
    <3>1. mine = theirs
      BY <1>1, <2>3 DEF CopyAgrees
    <3>2. PICK i \in 1 .. Len(history) : history[i] = theirs.generation
      BY <2>3 DEF Published
    <3>3. mine.generation # None
      BY <3>1, <3>2, HistoryIsSettled, NoneAssumption
    <3>4. history[mine.base.revision + 1] = mine.generation
      BY <1>1, <2>3, <3>1 DEF OnBase
    <3>5. pointer.current = history[Len(history)]
      BY <1>2, <2>2 DEF PointerAt
    <3>6. Len(history) >= 2 => pointer.previous = history[Len(history) - 1]
      BY <1>2 DEF PointerAt
    <3>7. mine.base.revision + 1 # Len(history)
      BY <1>6, <3>3, <3>4, <3>5
    <3>8. mine.base.revision + 1 # Len(history) - 1
      BY <1>2, <1>6, <3>3, <3>4, <3>6
    <3> QED
      BY <1>2, <2>2, <3>7, <3>8
  <2>4. StepFacts(a)'
    <3>1. mine.revision = theirs.revision /\ Published(op) =>
            mine.base.revision + 2 < Len(history)
      BY <2>3
    <3> QED
      BY <1>1, <2>1, <2>2, <3>1 DEF StepFacts, Published
  <2>5. Past(local'[a].base)
    BY <1>1, <1>2
  <2> QED
    BY <1>1, <1>4, <2>1, <2>4, <2>5, AttemptMove DEF Settled
<1>7. CASE ~published /\ pointer = mine.base
  <2>1. /\ pc'[a] = "collect" => mine.candidate = None
        /\ pc'[a] = "prepare" => mine.candidate # None /\ mine.generation = None
        /\ pc'[a] = "publish" => mine.generation # None
        /\ pc'[a] \in {"collect", "prepare", "publish"}
    BY <1>7 DEF Recover, GoTo, TypeOK
  <2>2. mine.candidate = None => mine.generation = None
    BY <1>1 DEF CopyAgrees
  <2>3. StepFacts(a)'
    BY <1>1, <2>1, <2>2 DEF StepFacts
  <2>4. Past(local'[a].base)
    BY <1>1, <1>2
  <2> QED
    BY <1>1, <1>4, <2>1, <2>3, <2>4, AttemptMove DEF Settled
<1> QED
  BY <1>5, <1>6, <1>7

LEMMA PrepareKeeps ==
  ASSUME IInv, NEW a \in Attempts, PrepareGeneration(a)
  PROVE  Consistent'
<1> USE DEF IInv, Consistent
<1>1. /\ pc[a] = "prepare" /\ pc'[a] \in {"save", "release"}
      /\ UNCHANGED <<pointer, record, target, local, undoVars, history>>
      /\ \A b \in Attempts \ {a} : pc'[b] = pc[b]
  BY DEF PrepareGeneration, Before, GoTo, TypeOK
<1>2. CopyFacts(a) /\ StepFacts(a) /\ Past(local[a].base)
  BY DEF Copies, Steps, PointersArePast
<1>3. CopyFacts(a)' /\ StepFacts(a)'
  BY <1>1, <1>2 DEF CopyFacts, CopyAgrees, StepFacts, Working
<1> QED
  BY <1>1, <1>2, <1>3, AttemptMove DEF Settled

LEMMA FailureKeeps ==
  ASSUME IInv, NEW a \in Attempts, Fail(a) \/ Crash(a)
  PROVE  Consistent'
<1> USE DEF IInv, Consistent
<1>1. UNCHANGED <<pointer, record, undoVars, history>>
  BY DEF Fail, Crash, storeVars
<1>2. CASE pc[a] \in {"load", "create", "claim"} /\ Leave(a)
  BY <1>1, <1>2, LeaveKeeps
<1>3. CASE pc[a] \in Working /\ GoTo(a, "release") /\ UNCHANGED <<target, local>>
  <2>1. pc'[a] = "release" /\ \A b \in Attempts \ {a} : pc'[b] = pc[b]
    BY <1>3 DEF GoTo, TypeOK
  <2>2. CopyFacts(a) /\ Past(local[a].base)
    BY DEF Copies, PointersArePast
  <2>3. CopyFacts(a)' /\ StepFacts(a)'
    BY <1>3, <2>1, <2>2 DEF CopyFacts, StepFacts, Working
  <2> QED
    BY <1>1, <1>3, <2>1, <2>2, <2>3, AttemptMove DEF Settled
<1>4. CASE pc[a] \in Working \cup {"release"} /\ End(a, "crashed")
  <2>1. pc[a] # "idle"
    BY <1>4 DEF Working
  <2> QED
    BY <1>1, <1>4, <2>1, EndFacts, AttemptMove DEF Settled
<1> QED
  BY <1>2, <1>3, <1>4 DEF Fail, Crash

LEMMA ReleaseKeeps ==
  ASSUME IInv, NEW a \in Attempts, Release(a)
  PROVE  Consistent'
<1> USE DEF IInv, Consistent
<1> DEFINE op == target[a]
           freed == [record[op] EXCEPT !.lease = None, !.revision = @ + 1]
<1>1. /\ pc[a] = "release" /\ op \in Operations /\ End(a, "done")
      /\ UNCHANGED <<pointer, undoVars, history>>
  BY DEF Release, Before, Copies, CopyFacts
<1>2. /\ pc'[a] = "done" /\ local'[a] = Unopened /\ target' = target
      /\ \A b \in Attempts \ {a} : pc'[b] = pc[b] /\ local'[b] = local[b]
      /\ CopyFacts(a)' /\ StepFacts(a)' /\ Past(local'[a].base)
  BY <1>1, EndFacts
<1>3. CASE record[op].lease = a /\ record' = [record EXCEPT ![op] = freed]
  <2>1. record[op] \in Record /\ record[op].revision \in Nat
    BY <1>1 DEF TypeOK, Record
  <2>2. /\ freed \in Record /\ freed.revision = record[op].revision + 1
        /\ freed.base = record[op].base
        /\ freed.generation = record[op].generation
        /\ freed.candidate = record[op].candidate
        /\ freed.outcome = record[op].outcome
    <3>1. record[op].revision + 1 \in Nat
      BY <2>1
    <3> QED
      BY <2>1, <3>1 DEF Record
  <2> HIDE DEF freed
  <2>3. record[op].outcome # "unopened"
    BY <1>1, <1>3, NoneAssumption DEF Generations, GenerationFacts, Unopened
  <2>4. freed.generation # None => freed.candidate # None
    BY <1>1, <2>2 DEF Generations, GenerationFacts
  <2> QED
    BY <1>1, <1>2, <1>3, <2>2, <2>3, <2>4, RecordMove DEF Settled
<1>4. CASE UNCHANGED record
  BY <1>1, <1>2, <1>4, AttemptMove DEF Settled
<1> QED
  BY <1>3, <1>4 DEF Release

LEMMA CreateKeeps ==
  ASSUME IInv, NEW a \in Attempts, Create(a)
  PROVE  Consistent'
<1> USE DEF IInv, Consistent
<1> DEFINE op == target[a]
           new == local[a]
<1>1. /\ pc[a] = "create" /\ pc'[a] = "load" /\ op \in Operations
      /\ UNCHANGED <<pointer, target, local, undoVars, history>>
      /\ \A b \in Attempts \ {a} : pc'[b] = pc[b]
  BY DEF Create, Before, GoTo, Copies, CopyFacts, TypeOK
<1>2. Past(new.base) /\ new.outcome = "open" /\ new.generation = None
  BY <1>1 DEF PointersArePast, Copies, CopyFacts
<1>3. CopyFacts(a)' /\ StepFacts(a)'
  BY <1>1 DEF CopyFacts, StepFacts, Working
<1>4. CASE UNCHANGED record
  BY <1>1, <1>2, <1>3, <1>4, AttemptMove DEF Settled
<1>5. CASE record[op].outcome = "unopened" /\ record' = [record EXCEPT ![op] = new]
  <2>1. /\ record'[op] = new
        /\ \A other \in Operations \ {op} : record'[other] = record[other]
    BY <1>1, <1>5 DEF TypeOK
  <2>2. record[op].generation = None
    BY <1>1, <1>5 DEF Generations, GenerationFacts, Unopened
  <2>3. \A i \in 1 .. Len(history) : history[i] # None
    BY HistoryIsSettled, NoneAssumption
  <2>4. ~Published(op) /\ ~Published(op)'
    BY <1>1, <1>2, <2>1, <2>2, <2>3 DEF Published
  <2>5. \A other \in Operations : Published(other)' <=> Published(other)
    BY <1>1, <2>1, <2>4 DEF Published
  <2>6. PointerFollowsHistory'
    BY <1>1 DEF PointerFollowsHistory, PointerAt
  <2>7. PointersArePast'
    <3>1. \A other \in Operations : Past(record'[other].base)
      BY <1>2, <2>1 DEF PointersArePast
    <3> QED
      BY <1>1, <3>1 DEF PointersArePast, undoVars, Past, PointerAt
  <2>8. \A b \in Attempts \ {a} : CopyFacts(b)' /\ StepFacts(b)'
    <3> SUFFICES ASSUME NEW b \in Attempts \ {a}
                 PROVE  CopyFacts(b)' /\ StepFacts(b)'
      OBVIOUS
    <3>1. CopyFacts(b) /\ StepFacts(b)
      BY DEF Copies, Steps
    <3>2. CASE target[b] = op
      BY <1>1, <1>5, <3>1, <3>2 DEF CopyFacts, CopyAgrees, StepFacts, Working
    <3>3. CASE target[b] # op
      <4>1. pc[b] # "idle" =>
              /\ record'[target[b]] = record[target[b]]
              /\ Published(target[b])' <=> Published(target[b])
        BY <1>1, <2>1, <2>5, <3>1, <3>3 DEF CopyFacts
      <4> QED
        BY <1>1, <3>1, <4>1 DEF CopyFacts, CopyAgrees, StepFacts, Working
    <3> QED
      BY <3>2, <3>3
  <2>9. Copies' /\ Steps'
    BY <1>3, <2>8 DEF Copies, Steps
  <2>10. Generations'
    <3> SUFFICES ASSUME NEW other \in Operations PROVE GenerationFacts(other)'
      BY DEF Generations
    <3>1. CASE other = op
      BY <1>2, <2>1, <3>1 DEF GenerationFacts
    <3>2. CASE other # op
      <4>1. /\ GenerationFacts(other) /\ record'[other] = record[other]
            /\ record[other].generation \in Attempts \cup {None}
        BY <2>1, <3>2 DEF Generations, TypeOK, Record
      <4>2. pc[a] \notin Settled
        BY <1>1 DEF Settled
      <4> QED
        BY <1>1, <4>1, <4>2 DEF GenerationFacts
    <3> QED
      BY <3>1, <3>2
  <2>11. OnBase'
    BY <1>1, <2>1, <2>4, <2>5 DEF OnBase
  <2>12. ServedRecorded'
    <3> SUFFICES ASSUME NEW i \in 1 .. Len(history)
                 PROVE  record'[target[history[i]]].generation = history[i]
      BY <1>1 DEF ServedRecorded
    <3> QED
      BY <2>1, <2>2, <2>3, HistoryIsSettled
  <2>13. ReportedWasPublished' /\ StaleWindow'
    BY <1>1, <1>2, <2>1, <2>5 DEF ReportedWasPublished, StaleWindow
  <2> QED
    BY <2>6, <2>7, <2>9, <2>10, <2>11, <2>12, <2>13
<1> QED
  BY <1>4, <1>5 DEF Create

\* Steps that touch neither the pointer, a record, an attempt nor the history.
LEMMA OutsideKeeps ==
  ASSUME IInv, UNCHANGED <<pointer, record, attemptVars, history>>,
         \A u \in Undos : /\ seen'[u] = seen[u] \/ seen'[u] = pointer
                          /\ upc'[u] = "swap" =>
                               \/ upc[u] = "swap" /\ seen'[u] = seen[u]
                               \/ seen'[u].previous # None
  PROVE  Consistent'
<1> USE DEF IInv, Consistent
<1>1. PointersArePast'
  <2>1. Past(pointer)
    BY PointerIsPast
  <2> QED
    BY <2>1 DEF PointersArePast, Past, PointerAt, attemptVars
<1> QED
  BY <1>1 DEF attemptVars, PointerFollowsHistory, PointerAt, Copies, CopyFacts,
     CopyAgrees, Steps, StepFacts, Published, Generations, GenerationFacts,
     OnBase, ServedRecorded, ReportedWasPublished, StaleWindow

(***************************************************************************)
(* The theorems.                                                           *)
(***************************************************************************)

LEMMA StepKeeps ==
  ASSUME IInv, NEW a \in Attempts, Step(a)
  PROVE  Consistent'
BY LoadKeeps, CreateKeeps, ClaimKeeps, RecoverKeeps, SavingStepsKeep,
   PrepareKeeps, PublishKeeps, ReleaseKeeps DEF Step

\* IInv is inductive.
LEMMA NextKeeps == IInv /\ [Next]_vars => IInv'
<1> SUFFICES ASSUME IInv, [Next]_vars PROVE IInv'
  OBVIOUS
<1>1. TypeOK'
  BY NextType DEF IInv, Consistent
<1>2. ASSUME NEW a \in Attempts, NEW op \in Operations, Start(a, op)
      PROVE  Consistent'
  BY <1>2, StartKeeps
<1>3. ASSUME NEW a \in Attempts, Step(a)
      PROVE  Consistent'
  BY <1>3, StepKeeps
<1>4. ASSUME NEW a \in Attempts, Fail(a)
      PROVE  Consistent'
  BY <1>4, FailureKeeps
<1>5. ASSUME NEW a \in Attempts, Crash(a)
      PROVE  Consistent'
  BY <1>5, FailureKeeps
<1>6. ASSUME NEW op \in Operations, LeaseExpires(op)
      PROVE  Consistent'
  BY <1>6, OutsideKeeps DEF LeaseExpires, undoVars
<1>7. ASSUME NEW u \in Undos, UndoRead(u)
      PROVE  Consistent'
  BY <1>7, OutsideKeeps DEF UndoRead, storeVars, IInv, TypeOK
<1>8. ASSUME NEW u \in Undos, UndoSwap(u)
      PROVE  Consistent'
  BY <1>8, UndoSwapKeeps
<1>9. ASSUME NEW u \in Undos, UndoFail(u)
      PROVE  Consistent'
  BY <1>9, OutsideKeeps DEF UndoFail, storeVars, IInv, TypeOK
<1>10. ASSUME UNCHANGED vars
       PROVE  Consistent'
  <2>1. UNCHANGED <<pointer, record, attemptVars, undoVars, history>>
    BY <1>10 DEF vars, storeVars
  <2> QED
    BY <2>1, OutsideKeeps DEF undoVars
<1>11. Consistent'
  BY <1>2, <1>3, <1>4, <1>5, <1>6, <1>7, <1>8, <1>9, <1>10 DEF Next, Undo
<1> QED
  BY <1>1, <1>11 DEF IInv

\* The inductive invariant holds of every reachable state.
THEOREM Invariance == Spec => []IInv
BY InitConsistent, NextKeeps, PTL DEF Spec

\* Every state of the control plane is well typed.
THEOREM TypesHold == Spec => []TypeOK
BY Invariance, PTL DEF IInv

\* The pointer counts the generations served and remembers the last but one,
\* through every interleaving of publications and undos: publish_generation
\* and undo never lose or repeat a swap.
THEOREM PointerHolds == Spec => []PointerFollowsHistory
BY Invariance, PTL DEF IInv, Consistent

\* What a published operation replaced is the generation it was opened
\* against, whichever invocation of apply published it.
THEOREM NeverRebasedHolds == Spec => []NeverRebased
<1>1. IInv => NeverRebased
  BY DEF IInv, Consistent, OnBase, NeverRebased
<1> QED
  BY <1>1, Invariance, PTL

\* The recovery step finds in the record the generation that was served.
THEOREM ServedIsRecordedHolds == Spec => []ServedIsRecorded
<1>1. IInv => ServedIsRecorded
  BY DEF IInv, Consistent, ServedRecorded, ServedIsRecorded
<1> QED
  BY <1>1, Invariance, PTL

\* An operation is reported as published only if it was, whichever invocation
\* closed it and however often it was resumed.
THEOREM ReportsAreTrue == Spec => []ReportedWasPublished
BY Invariance, PTL DEF IInv, Consistent

\* An operation is closed as stale only if its base was replaced, and when it
\* was its own generation that replaced it, only two generations later.
THEOREM StaleWindowHolds == Spec => []StaleWindow
BY Invariance, PTL DEF IInv, Consistent
=============================================================================
