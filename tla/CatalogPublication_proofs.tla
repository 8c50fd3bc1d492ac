----------------------- MODULE CatalogPublication_proofs -----------------------
(***************************************************************************)
(* What the control plane publishes, for every set of operations,          *)
(* attempts, undos and societies: CatalogApply implements                  *)
(* CatalogPublication - the initial state maps to an initial state and     *)
(* every step to a step of the protocol or to none - and what an operation *)
(* records on the way to its generation is kept, so no update is lost.     *)
(***************************************************************************)
EXTENDS CatalogApply_proofs

\* The refinement mapping, as one state function.
mapped == <<ServedOperations, BaseRevisions, RecordedOutcomes>>

LEMMA ServedFacts ==
  ASSUME IInv
  PROVE  /\ Len(ServedOperations) = Len(history) /\ Len(history) \in Nat
         /\ \A i \in 1 .. Len(history) :
              ServedOperations[i] = target[history[i]]
         /\ \A op \in Operations : Publication!Served(op) <=> Published(op)
<1>1. history \in Seq(Attempts) /\ Len(history) \in Nat
  BY DEF IInv, TypeOK
<1>2. Len(ServedOperations) = Len(history)
  BY <1>1 DEF ServedOperations
<1>3. \A i \in 1 .. Len(history) : ServedOperations[i] = target[history[i]]
  BY DEF ServedOperations
<1>4. \A op \in Operations : Publication!Served(op) <=> Published(op)
  <2> SUFFICES ASSUME NEW op \in Operations
               PROVE  Publication!Served(op) <=> Published(op)
    OBVIOUS
  <2>1. ASSUME NEW i \in 1 .. Len(history), target[history[i]] = op
        PROVE  history[i] = record[op].generation
    BY <2>1, HistoryIsSettled DEF IInv, Consistent
  <2>2. ASSUME NEW i \in 1 .. Len(history), history[i] = record[op].generation
        PROVE  target[history[i]] = op
    <3>1. history[i] # None
      BY HistoryIsSettled, NoneAssumption DEF IInv, Consistent
    <3> QED
      BY <2>2, <3>1 DEF IInv, Consistent, Generations, GenerationFacts
  <2> QED
    BY <1>2, <1>3, <2>1, <2>2 DEF Publication!Served, Published
<1> QED
  BY <1>1, <1>2, <1>3, <1>4

\* A step that serves nothing new and keeps the attempts it served.
LEMMA ServedStays ==
  ASSUME IInv, history' = history,
         \A b \in Attempts : pc[b] \in Settled => target'[b] = target[b]
  PROVE  ServedOperations' = ServedOperations
<1>1. \A i \in 1 .. Len(history) : target'[history[i]] = target[history[i]]
  BY HistoryIsSettled DEF IInv, Consistent
<1> QED
  BY <1>1 DEF ServedOperations

\* A step that also leaves each record's base and outcome alone maps to none.
LEMMA Stutters ==
  ASSUME IInv, history' = history,
         \A b \in Attempts : pc[b] \in Settled => target'[b] = target[b],
         \A op \in Operations : /\ record'[op].base = record[op].base
                                /\ record'[op].outcome = record[op].outcome
  PROVE  UNCHANGED mapped
BY ServedStays DEF mapped, BaseRevisions, RecordedOutcomes

\* A step that serves the generation of operation op.
LEMMA ServesOne ==
  ASSUME IInv, NEW g \in Attempts, history' = Append(history, g),
         UNCHANGED <<record, target>>
  PROVE  /\ ServedOperations' = Append(ServedOperations, target[g])
         /\ UNCHANGED <<BaseRevisions, RecordedOutcomes>>
<1>1. history \in Seq(Attempts)
  BY DEF IInv, TypeOK
<1>2. /\ Len(history) \in Nat /\ Len(history') = Len(history) + 1
      /\ \A i \in 1 .. Len(history) : history'[i] = history[i]
      /\ history'[Len(history) + 1] = g
  BY <1>1, HistoryGrows
<1>3. ServedOperations' = [i \in 1 .. Len(history) + 1 |-> target[history'[i]]]
  BY <1>2 DEF ServedOperations
<1>4. Append(ServedOperations, target[g])
        = [i \in 1 .. Len(history) + 1 |->
             IF i = Len(history) + 1 THEN target[g] ELSE target[history[i]]]
  BY <1>2 DEF ServedOperations
<1>5. \A i \in 1 .. Len(history) + 1 :
        target[history'[i]]
          = IF i = Len(history) + 1 THEN target[g] ELSE target[history[i]]
  BY <1>2
<1>6. ServedOperations' = Append(ServedOperations, target[g])
  BY <1>3, <1>4, <1>5
<1> QED
  BY <1>6 DEF BaseRevisions, RecordedOutcomes

\* A write of one record that keeps its base.
LEMMA RecordMaps ==
  ASSUME IInv, NEW op \in Operations, NEW r,
         record' = [record EXCEPT ![op] = r], r.base = record[op].base
  PROVE  /\ BaseRevisions' = BaseRevisions
         /\ RecordedOutcomes' = [RecordedOutcomes EXCEPT ![op] = r.outcome]
<1>1. /\ record'[op] = r
      /\ \A other \in Operations \ {op} : record'[other] = record[other]
  BY DEF IInv, TypeOK
<1>2. BaseRevisions' = BaseRevisions
  BY <1>1 DEF BaseRevisions
<1>3. RecordedOutcomes' = [RecordedOutcomes EXCEPT ![op] = r.outcome]
  <2>1. record'[op].outcome = r.outcome
    BY <1>1
  <2>2. \A other \in Operations \ {op} :
          record'[other].outcome = record[other].outcome
    BY <1>1
  <2> QED
    BY <2>1, <2>2 DEF RecordedOutcomes
<1> QED
  BY <1>2, <1>3

\* save_operation maps to a change of the outcome, or to none.
LEMMA SaveMaps ==
  ASSUME IInv, NEW a \in Attempts, pc[a] \in Working, NEW new \in Record,
         NEW step, Save(a, new, step), UNCHANGED <<target, history>>,
         new.base = local[a].base
  PROVE  \/ UNCHANGED mapped
         \/ /\ record[target[a]] = local[a] /\ target[a] \in Operations
            /\ record[target[a]].outcome = "open"
            /\ UNCHANGED <<ServedOperations, BaseRevisions>>
            /\ RecordedOutcomes' =
                 [RecordedOutcomes EXCEPT ![target[a]] = new.outcome]
<1> USE DEF IInv, Consistent
<1> DEFINE op == target[a]
           saved == [new EXCEPT !.revision = local[a].revision + 1]
<1>1. ServedOperations' = ServedOperations
  BY ServedStays
<1>2. op \in Operations /\ CopyAgrees(a)
  BY DEF Copies, CopyFacts, Working
<1>3. CASE record[op].revision = local[a].revision
           /\ record' = [record EXCEPT ![op] = saved]
  <2>1. record[op] = local[a] /\ record[op].outcome = "open"
    BY <1>2, <1>3 DEF CopyAgrees
  <2>2. saved.base = new.base /\ saved.outcome = new.outcome
    BY DEF Record
  <2>3. saved.base = record[op].base
    BY <2>1, <2>2
  <2> HIDE DEF saved, op
  <2>4. /\ BaseRevisions' = BaseRevisions
        /\ RecordedOutcomes' = [RecordedOutcomes EXCEPT ![op] = saved.outcome]
    BY <1>2, <1>3, <2>3, RecordMaps
  <2> QED
    BY <1>1, <1>2, <2>1, <2>2, <2>4 DEF op
<1>4. CASE UNCHANGED record
  BY <1>1, <1>4 DEF mapped, BaseRevisions, RecordedOutcomes
<1> QED
  BY <1>3, <1>4 DEF Save

\* A save that leaves the outcome open maps to no step.
LEMMA ProgressMaps ==
  ASSUME IInv, NEW a \in Attempts,
         \/ \E s \in Societies, entry \in {a, Kept} : CollectSociety(a, s, entry)
         \/ SaveCandidate(a) \/ SaveGeneration(a)
  PROVE  UNCHANGED mapped
<1> USE DEF IInv, Consistent
<1> DEFINE mine == local[a]
<1>1. mine \in Record
  BY DEF TypeOK
<1>2. ASSUME NEW new \in Record, NEW step, Save(a, new, step),
             pc[a] \in Working, UNCHANGED <<target, history>>,
             new.base = mine.base, new.outcome = mine.outcome
      PROVE  UNCHANGED mapped
  <2>1. ASSUME record[target[a]] = mine, target[a] \in Operations,
               UNCHANGED <<ServedOperations, BaseRevisions>>,
               RecordedOutcomes' =
                 [RecordedOutcomes EXCEPT ![target[a]] = new.outcome]
        PROVE  UNCHANGED mapped
    <3>1. RecordedOutcomes' = RecordedOutcomes
      BY <1>2, <2>1 DEF RecordedOutcomes
    <3> QED
      BY <2>1, <3>1 DEF mapped
  <2> HIDE DEF mine
  <2> QED
    BY <1>2, <2>1, SaveMaps DEF mine
<1>3. ASSUME NEW s \in Societies, NEW entry \in {a, Kept},
             CollectSociety(a, s, entry)
      PROVE  UNCHANGED mapped
  <2> DEFINE new == [mine EXCEPT !.work[s] = entry]
  <2>1. pc[a] \in Working /\ Save(a, new, "collect") /\ UNCHANGED <<target, history>>
    BY <1>3 DEF CollectSociety, Before, Working
  <2>2. new \in Record /\ new.base = mine.base /\ new.outcome = mine.outcome
    BY <1>1 DEF Record
  <2> HIDE DEF new, mine
  <2> QED
    BY <1>2, <2>1, <2>2
<1>4. CASE SaveCandidate(a)
  <2> DEFINE new == [mine EXCEPT !.candidate = Candidate(target[a], mine)]
  <2>1. pc[a] \in Working /\ Save(a, new, "prepare") /\ UNCHANGED <<target, history>>
    BY <1>4 DEF SaveCandidate, Before, Working
  <2>2. Candidate(target[a], mine) \in Roster
    BY <1>1 DEF Candidate, Record, Roster
  <2>3. new \in Record /\ new.base = mine.base /\ new.outcome = mine.outcome
    BY <1>1, <2>2 DEF Record
  <2> HIDE DEF new, mine
  <2> QED
    BY <1>2, <2>1, <2>3
<1>5. CASE SaveGeneration(a)
  <2> DEFINE new == [mine EXCEPT !.generation = a]
  <2>1. pc[a] \in Working /\ Save(a, new, "publish") /\ UNCHANGED <<target, history>>
    BY <1>5 DEF SaveGeneration, Before, Working
  <2>2. new \in Record /\ new.base = mine.base /\ new.outcome = mine.outcome
    BY <1>1 DEF Record
  <2> HIDE DEF new, mine
  <2> QED
    BY <1>2, <2>1, <2>2
<1> QED
  BY <1>3, <1>4, <1>5

\* The write of a new record opens the operation against a past pointer.
LEMMA CreateMaps ==
  ASSUME IInv, NEW a \in Attempts, Create(a)
  PROVE  Publication!PubNext \/ UNCHANGED mapped
<1> USE DEF IInv, Consistent
<1> DEFINE op == target[a]
           n == local[a].base.revision
<1>1. /\ pc[a] = "create" /\ op \in Operations /\ UNCHANGED <<target, history>>
      /\ local[a].outcome = "open" /\ n \in 0 .. Len(history)
  BY DEF Create, Before, Copies, CopyFacts, PointersArePast, Past
<1>2. ServedOperations' = ServedOperations
  BY <1>1, ServedStays
<1>3. CASE UNCHANGED record
  BY <1>2, <1>3 DEF mapped, BaseRevisions, RecordedOutcomes
<1>4. CASE record[op].outcome = "unopened" /\ record' = [record EXCEPT ![op] = local[a]]
  <2>1. /\ record'[op] = local[a]
        /\ \A other \in Operations \ {op} : record'[other] = record[other]
    BY <1>1, <1>4 DEF TypeOK
  <2>2. BaseRevisions' = [BaseRevisions EXCEPT ![op] = n]
    BY <2>1 DEF BaseRevisions
  <2>3. RecordedOutcomes' = [RecordedOutcomes EXCEPT ![op] = "open"]
    BY <1>1, <2>1 DEF RecordedOutcomes
  <2>4. RecordedOutcomes[op] = "unopened" /\ n \in 0 .. Len(ServedOperations)
    BY <1>1, <1>4, ServedFacts DEF RecordedOutcomes
  <2> HIDE DEF op, n
  <2>5. Publication!Open(op, n)
    BY <1>2, <2>2, <2>3, <2>4 DEF Publication!Open
  <2> QED
    BY <1>1, <2>4, <2>5 DEF Publication!PubNext
<1> QED
  BY <1>3, <1>4 DEF Create

\* The swap of the pointer is the commit point of its operation.
LEMMA PublishMaps ==
  ASSUME IInv, NEW a \in Attempts, PublishGeneration(a)
  PROVE  Publication!PubNext \/ UNCHANGED mapped
<1> USE DEF IInv, Consistent
<1> DEFINE op == target[a]
           g == local[a].generation
<1>1. /\ op \in Operations /\ CopyAgrees(a) /\ UNCHANGED <<record, target>>
      /\ g # None
  BY DEF PublishGeneration, Before, Copies, CopyFacts, Steps, StepFacts, Working
<1>2. /\ g \in Attempts /\ record[op].generation = g /\ target[g] = op
      /\ local[a].base = record[op].base
  BY <1>1 DEF CopyAgrees, TypeOK, Record, Generations, GenerationFacts
<1>3. CASE pointer = local[a].base /\ history' = Append(history, g)
  <2>1. record[op].base.revision = Len(history)
    BY <1>2, <1>3, PointerIsPast
  <2>2. ~Published(op)
    BY <1>1, <2>1, ServedFacts DEF OnBase
  <2> HIDE DEF op, g
  <2>3. /\ ServedOperations' = Append(ServedOperations, op)
        /\ UNCHANGED <<BaseRevisions, RecordedOutcomes>>
    BY <1>1, <1>2, <1>3, ServesOne
  <2>4. RecordedOutcomes[op] = "open"
    <3>1. record[op].outcome \in {"open", "published", "stale"}
      BY <1>1 DEF op, CopyAgrees, TypeOK, Record, Outcomes
    <3>2. record[op].outcome = "open"
      BY <1>1, <2>1, <2>2, <3>1 DEF ReportedWasPublished, StaleWindow, TypeOK
    <3> QED
      BY <1>1, <3>2 DEF RecordedOutcomes
  <2>5. BaseRevisions[op] = Len(ServedOperations) /\ ~Publication!Served(op)
    BY <1>1, <2>1, <2>2, ServedFacts DEF BaseRevisions
  <2>6. Publication!Publish(op)
    BY <2>3, <2>4, <2>5 DEF Publication!Publish
  <2> QED
    BY <1>1, <2>6 DEF Publication!PubNext
<1>4. CASE history' = history
  BY <1>1, <1>4, Stutters
<1> QED
  BY <1>3, <1>4 DEF PublishGeneration

\* The undo serves again what was served just before.
LEMMA UndoMaps ==
  ASSUME IInv, NEW u \in Undos, UndoSwap(u)
  PROVE  Publication!PubNext \/ UNCHANGED mapped
<1> USE DEF IInv, Consistent
<1> DEFINE g == seen[u].previous
<1>1. /\ UNCHANGED <<record, target>> /\ g # None
      /\ history \in Seq(Attempts) /\ Len(history) \in Nat
  BY DEF UndoSwap, attemptVars, PointersArePast, TypeOK
<1>2. CASE pointer = seen[u] /\ history' = Append(history, g)
  <2>1. /\ Len(history) >= 2 /\ Len(history) - 1 \in 1 .. Len(history)
        /\ g = history[Len(history) - 1]
    BY <1>1, <1>2 DEF PointerFollowsHistory, PointerAt
  <2>2. g \in Attempts
    BY <2>1, HistoryIsSettled
  <2>3. /\ Len(ServedOperations) = Len(history)
        /\ ServedOperations[Len(history) - 1] = target[g]
    BY <2>1, ServedFacts
  <2> HIDE DEF g
  <2>4. /\ ServedOperations' = Append(ServedOperations, target[g])
        /\ UNCHANGED <<BaseRevisions, RecordedOutcomes>>
    BY <1>1, <1>2, <2>2, ServesOne
  <2>5. Publication!Undo
    BY <2>1, <2>3, <2>4 DEF Publication!Undo
  <2> QED
    BY <2>5 DEF Publication!PubNext
<1>3. CASE history' = history
  BY <1>1, <1>3, Stutters
<1> QED
  BY <1>2, <1>3 DEF UndoSwap

\* The two steps that close an operation.
LEMMA CloseMaps ==
  ASSUME IInv, NEW a \in Attempts, ClosePublished(a) \/ CloseStale(a)
  PROVE  Publication!PubNext \/ UNCHANGED mapped
<1> USE DEF IInv, Consistent
<1> DEFINE op == target[a]
           mine == local[a]
<1>1. mine \in Record /\ StepFacts(a) /\ UNCHANGED <<target, history>>
  BY DEF TypeOK, Steps, ClosePublished, CloseStale
<1>2. CASE ClosePublished(a)
  <2> DEFINE new == [mine EXCEPT !.outcome = "published"]
  <2>1. /\ pc[a] = "closePublished" /\ pc[a] \in Working
        /\ Save(a, new, "release")
    BY <1>2 DEF ClosePublished, Before, Working
  <2>2. new \in Record /\ new.base = mine.base /\ new.outcome = "published"
    BY <1>1 DEF Record, Outcomes
  <2>3. Published(op)
    BY <1>1, <2>1 DEF StepFacts
  <2>4. ASSUME op \in Operations, record[op].outcome = "open",
               UNCHANGED <<ServedOperations, BaseRevisions>>,
               RecordedOutcomes' = [RecordedOutcomes EXCEPT ![op] = "published"]
        PROVE  Publication!PubNext
    <3> HIDE DEF op
    <3>1. RecordedOutcomes[op] = "open" /\ Publication!Served(op)
      BY <2>3, <2>4, ServedFacts DEF RecordedOutcomes
    <3>2. Publication!ClosePublished(op)
      BY <2>4, <3>1 DEF Publication!ClosePublished
    <3> QED
      BY <2>4, <3>2 DEF Publication!PubNext
  <2> HIDE DEF new, mine
  <2> QED
    BY <1>1, <2>1, <2>2, <2>4, SaveMaps DEF mine
<1>3. CASE CloseStale(a)
  <2> DEFINE new == [mine EXCEPT !.outcome = "stale"]
  <2>1. /\ pc[a] = "closeStale" /\ pc[a] \in Working
        /\ Save(a, new, "release")
    BY <1>3 DEF CloseStale, Before, Working
  <2>2. new \in Record /\ new.base = mine.base /\ new.outcome = "stale"
    BY <1>1 DEF Record, Outcomes
  <2>3. ASSUME op \in Operations, record[op] = mine, record[op].outcome = "open",
               UNCHANGED <<ServedOperations, BaseRevisions>>,
               RecordedOutcomes' = [RecordedOutcomes EXCEPT ![op] = "stale"]
        PROVE  Publication!PubNext
    <3>1. /\ record[op].base.revision < Len(history)
          /\ Published(op) => record[op].base.revision + 2 < Len(history)
      BY <1>1, <2>1, <2>3 DEF StepFacts
    <3> HIDE DEF op, mine
    <3>2. /\ RecordedOutcomes[op] = "open"
          /\ BaseRevisions[op] < Len(ServedOperations)
          /\ Publication!Served(op) =>
               BaseRevisions[op] + 2 < Len(ServedOperations)
      BY <2>3, <3>1, ServedFacts DEF RecordedOutcomes, BaseRevisions
    <3>3. Publication!CloseStale(op)
      BY <2>3, <3>2 DEF Publication!CloseStale
    <3> QED
      BY <2>3, <3>3 DEF Publication!PubNext
  <2> HIDE DEF new, mine
  <2> QED
    BY <1>1, <2>1, <2>2, <2>3, SaveMaps DEF mine
<1> QED
  BY <1>2, <1>3

\* Reading the record, claiming or releasing its lease, writing the roster.
LEMMA LeaseMaps ==
  ASSUME IInv, NEW a \in Attempts,
         Load(a) \/ Claim(a) \/ Recover(a) \/ PrepareGeneration(a) \/ Release(a)
  PROVE  UNCHANGED mapped
<1> USE DEF IInv, Consistent
<1> DEFINE op == target[a]
<1>1. /\ history' = history /\ op \in Operations
      /\ \A b \in Attempts : pc[b] \in Settled => target'[b] = target[b]
  BY DEF Load, Claim, Recover, PrepareGeneration, Release, Before, Leave, End,
         Copies, CopyFacts, Settled, TypeOK
<1>2. CASE UNCHANGED record
  BY <1>1, <1>2, Stutters
<1>3. ASSUME NEW r, record' = [record EXCEPT ![op] = r],
             r.base = record[op].base, r.outcome = record[op].outcome
      PROVE  UNCHANGED mapped
  <2>1. \A other \in Operations : /\ record'[other].base = record[other].base
                                  /\ record'[other].outcome = record[other].outcome
    BY <1>3 DEF TypeOK
  <2> QED
    BY <1>1, <2>1, Stutters
<1>4. CASE Claim(a)
  <2> DEFINE claimed == [local[a] EXCEPT !.lease = a, !.revision = @ + 1]
  <2>1. CASE record[op].revision = local[a].revision
             /\ record' = [record EXCEPT ![op] = claimed]
    <3>1. CopyAgrees(a) /\ local[a] \in Record
      BY <1>4 DEF Claim, Before, Copies, CopyFacts, TypeOK
    <3>2. local[a] = record[op]
      BY <2>1, <3>1 DEF CopyAgrees
    <3>3. claimed.base = record[op].base /\ claimed.outcome = record[op].outcome
      BY <3>1, <3>2 DEF Record
    <3> QED
      BY <1>3, <2>1, <3>3
  <2> QED
    BY <1>2, <1>4, <2>1 DEF Claim
<1>5. CASE Release(a)
  <2> DEFINE freed == [record[op] EXCEPT !.lease = None, !.revision = @ + 1]
  <2>1. freed.base = record[op].base /\ freed.outcome = record[op].outcome
    BY <1>1 DEF TypeOK, Record
  <2>2. UNCHANGED record \/ record' = [record EXCEPT ![op] = freed]
    BY <1>5 DEF Release
  <2> QED
    BY <1>2, <1>3, <2>1, <2>2
<1> QED
  BY <1>2, <1>4, <1>5 DEF Load, Recover, PrepareGeneration, storeVars

\* Every step is a step of the protocol or none.
LEMMA NextMaps == IInv /\ [Next]_vars => [Publication!PubNext]_mapped
<1> SUFFICES ASSUME IInv, [Next]_vars
             PROVE  Publication!PubNext \/ UNCHANGED mapped
  OBVIOUS
<1>1. ASSUME NEW a \in Attempts, NEW op \in Operations, Start(a, op)
      PROVE  UNCHANGED mapped
  BY <1>1, Stutters
  DEF Start, Before, storeVars, Settled, IInv, TypeOK
<1>2. ASSUME NEW a \in Attempts, Step(a)
      PROVE  Publication!PubNext \/ UNCHANGED mapped
  BY <1>2, LeaseMaps, CreateMaps, ProgressMaps, PublishMaps, CloseMaps DEF Step
<1>3. ASSUME NEW a \in Attempts, Fail(a)
      PROVE  UNCHANGED mapped
  BY <1>3, Stutters DEF Fail, Leave, storeVars, Settled, IInv, TypeOK
<1>4. ASSUME NEW a \in Attempts, Crash(a)
      PROVE  UNCHANGED mapped
  BY <1>4, Stutters DEF Crash, End, storeVars
<1>5. ASSUME NEW op \in Operations, LeaseExpires(op)
      PROVE  UNCHANGED mapped
  BY <1>5, Stutters DEF LeaseExpires, attemptVars
<1>6. ASSUME NEW u \in Undos, UndoRead(u) \/ UndoFail(u)
      PROVE  UNCHANGED mapped
  BY <1>6, Stutters DEF UndoRead, UndoFail, attemptVars, storeVars
<1>7. CASE UNCHANGED vars
  BY <1>7, Stutters DEF vars, attemptVars, storeVars
<1> QED
  BY <1>1, <1>2, <1>3, <1>4, <1>5, <1>6, <1>7, UndoMaps DEF Next, Undo

LEMMA InitMaps == Init => Publication!PubInit
<1> SUFFICES ASSUME Init PROVE Publication!PubInit
  OBVIOUS
<1>1. ServedOperations = << >>
  BY DEF Init, ServedOperations
<1>2. BaseRevisions = [op \in Operations |-> 0]
  BY DEF Init, BaseRevisions, Unopened, NoPointer
<1>3. RecordedOutcomes = [op \in Operations |-> "unopened"]
  BY DEF Init, RecordedOutcomes, Unopened
<1> QED
  BY <1>1, <1>2, <1>3 DEF Publication!PubInit

\* apply and undo, with their leases, crashes and lost races, do to the
\* catalog only what the publication protocol allows.
THEOREM Implements == Spec => ImplementsPublication
<1>1. IInv /\ [Next]_vars => [Publication!PubNext]_(Publication!pubVars)
  BY NextMaps DEF mapped, Publication!pubVars
<1> QED
  BY <1>1, InitMaps, Invariance, PTL
  DEF Spec, ImplementsPublication, Publication!PubSpec

(***************************************************************************)
(* The data an operation carries to its generation.                        *)
(***************************************************************************)

\* The roster of a base pointer is the one a settled attempt wrote: it stays
\* while only an attempt that is not settled writes its own.
LEMMA BaseRosterStays ==
  ASSUME IInv, NEW p, Past(p), NEW a \in Attempts,
         \A b \in Attempts \ {a} : rosters'[b] = rosters[b],
         rosters'[a] = rosters[a] \/ pc[a] \notin Settled
  PROVE  p.current # None => rosters'[p.current] = rosters[p.current]
<1>1. p.current # None => p.current \in Attempts /\ pc[p.current] \in Settled
  <2> SUFFICES ASSUME p.current # None
               PROVE  p.current \in Attempts /\ pc[p.current] \in Settled
    OBVIOUS
  <2>1. p.revision \in 1 .. Len(history) /\ p.current = history[p.revision]
    <3>1. Len(history) \in Nat
      BY DEF IInv, TypeOK
    <3> QED
      BY <3>1 DEF Past, PointerAt
  <2> QED
    BY <2>1, HistoryIsSettled DEF IInv, Consistent
<1> QED
  BY <1>1

\* A step of attempt a: it may write its roster before it is settled, and each
\* record either stays or is left with data that fits.
LEMMA DataMove ==
  ASSUME DInv, NEW a \in Attempts,
         \A b \in Attempts \ {a} : /\ pc'[b] = pc[b] /\ target'[b] = target[b]
                                   /\ local'[b] = local[b]
                                   /\ rosters'[b] = rosters[b],
         rosters'[a] = rosters[a] \/ pc[a] \notin Settled,
         pc[a] \in Owned => pc'[a] \in Owned /\ target'[a] = target[a],
         CopyData(a)',
         \A op \in Operations :
           \/ RecordData(op)' /\ record'[op].candidate = record[op].candidate
           \/ RecordData(op)' /\ record[op].candidate = None
           \/ /\ record'[op] = record[op]
              /\ record[op].lease = a => pc'[a] # "done"
  PROVE  Data'
<1> USE DEF DInv, Data
<1>1. ASSUME NEW p, Past(p)
      PROVE  p.current # None => rosters'[p.current] = rosters[p.current]
  BY <1>1, BaseRosterStays
<1>2. ASSUME NEW op \in Operations PROVE RecordData(op)'
  <2>1. RecordData(op) /\ record[op] \in Record /\ Past(record[op].base)
    BY DEF IInv, TypeOK, Consistent, PointersArePast
  <2>2. ASSUME record'[op] = record[op],
               record[op].lease = a => pc'[a] # "done"
        PROVE  RecordData(op)'
    <3> DEFINE r == record[op]
    <3>1. record'[op].roster = RosterAt(record[op].base)'
      BY <1>1, <2>1, <2>2 DEF RecordData, RosterAt
    <3>2. ASSUME NEW b \in Attempts, pc[b] \in Owned
          PROVE  pc'[b] \in Owned /\ target'[b] = target[b]
      BY <3>2
    <3>3. ASSUME NEW s \in Societies, r.work[s] \in Attempts
          PROVE  /\ s \in Request[op].upserts
                 /\ target'[r.work[s]] = op /\ pc'[r.work[s]] \in Owned
      BY <2>1, <3>2, <3>3 DEF RecordData
    <3>4. r.generation # None => rosters'[r.generation] = r.candidate
      <4>1. r.generation # None =>
              r.generation \in Attempts /\ pc[r.generation] \in Settled
        BY <2>1 DEF IInv, Consistent, Generations, GenerationFacts, Record
      <4> QED
        BY <2>1, <4>1 DEF RecordData
    <3>5. r.lease # None => target'[r.lease] = op /\ pc'[r.lease] \in Owned \ {"done"}
      <4>1. r.lease # None =>
              r.lease \in Attempts /\ target[r.lease] = op /\ pc[r.lease] \in Owned \ {"done"}
        BY <2>1 DEF RecordData, Record
      <4> QED
        BY <2>2, <3>2, <4>1
    <3>6. r.candidate # None => r.candidate = Candidate(op, r)
      BY <2>1 DEF RecordData
    <3> QED
      BY <2>2, <3>1, <3>3, <3>4, <3>5, <3>6 DEF RecordData, Candidate
  <2> QED
    BY <2>2
<1>3. ASSUME NEW b \in Attempts \ {a} PROVE CopyData(b)'
  <2>1. CopyData(b) /\ CopyFacts(b) /\ Past(local[b].base)
    BY DEF IInv, Consistent, PointersArePast, Copies
  <2>2. local'[b].roster = RosterAt(local[b].base)'
    BY <1>1, <2>1 DEF CopyData, RosterAt
  <2>3. ASSUME pc[b] \in {"claim"} \cup Working, local[b].candidate # None
        PROVE  record'[target[b]].candidate = local[b].candidate
    <3>1. target[b] \in Operations
      BY <2>1, <2>3 DEF CopyFacts, Working
    <3> QED
      BY <2>1, <2>3, <3>1 DEF CopyData
  <2> QED
    BY <2>1, <2>2, <2>3 DEF CopyData
<1> QED
  BY <1>2, <1>3

\* A save by the owner of the lease, onto the record it holds a copy of, of
\* what fits the data already recorded.
LEMMA SaveData ==
  ASSUME DInv, NEW a \in Attempts, pc[a] \in Working,
         NEW new \in Record, NEW step \in Working \cup {"release"},
         step # "save",
         Save(a, new, step), UNCHANGED <<rosters, target>>,
         new.base = local[a].base, new.roster = local[a].roster,
         new.lease = local[a].lease,
         local[a].candidate # None => new.candidate = local[a].candidate,
         \A s \in Societies : \/ new.work[s] = local[a].work[s]
                              \/ new.work[s] \notin Attempts
                              \/ new.work[s] = a /\ s \in Request[target[a]].upserts,
         local[a] = record[target[a]] =>
           /\ new.candidate # None => new.candidate = Candidate(target[a], new)
           /\ new.generation # None => rosters[new.generation] = new.candidate,
         step = "collect" => new.candidate = None
  PROVE  Data'
<1> DEFINE op == target[a]
           saved == [new EXCEPT !.revision = local[a].revision + 1]
<1>1. CopyFacts(a) /\ CopyData(a) /\ pc[a] # "idle" /\ local[a].lease = a
  BY DEF DInv, IInv, Consistent, Data, Copies, CopyFacts, Working
<1>2. op \in Operations /\ CopyAgrees(a) /\ RecordData(op)
  BY <1>1 DEF CopyFacts, DInv, Data
<1>3. pc[a] \in Owned /\ step \in Owned /\ step # "done"
  BY DEF Owned, Working
<1>4. TypeOK
  BY DEF DInv, IInv
<1>5. CASE record[op].revision = local[a].revision /\ record[op].lease = local[a].lease
  <2>1. record[op] = local[a]
    BY <1>2, <1>5 DEF CopyAgrees
  <2>2. /\ saved.base = new.base /\ saved.lease = new.lease
        /\ saved.generation = new.generation /\ saved.candidate = new.candidate
        /\ saved.roster = new.roster /\ saved.work = new.work
    BY DEF Record
  <2>3. /\ record' = [record EXCEPT ![op] = saved]
        /\ local' = [local EXCEPT ![a] = saved]
        /\ pc' = [pc EXCEPT ![a] = step]
    BY <1>5 DEF Save, GoTo
  <2> HIDE DEF saved
  <2>4. /\ record'[op] = saved /\ local'[a] = saved /\ pc'[a] = step
        /\ \A other \in Operations \ {op} : record'[other] = record[other]
        /\ \A b \in Attempts \ {a} : pc'[b] = pc[b] /\ local'[b] = local[b]
    BY <1>2, <1>4, <2>3 DEF TypeOK
  <2>5. saved.roster = RosterAt(saved.base)
    BY <1>1, <2>2 DEF CopyData
  <2>6. \A s \in Societies : saved.work[s] \in Attempts =>
          /\ s \in Request[op].upserts
          /\ target[saved.work[s]] = op /\ pc'[saved.work[s]] \in Owned
    <3> SUFFICES ASSUME NEW s \in Societies, saved.work[s] \in Attempts
                 PROVE  /\ s \in Request[op].upserts
                        /\ target[saved.work[s]] = op /\ pc'[saved.work[s]] \in Owned
      OBVIOUS
    <3>1. CASE new.work[s] = local[a].work[s]
      <4>1. /\ s \in Request[op].upserts
            /\ target[saved.work[s]] = op /\ pc[saved.work[s]] \in Owned
        BY <1>2, <2>1, <2>2, <3>1 DEF RecordData
      <4> QED
        BY <1>3, <2>2, <2>4, <4>1
    <3>2. CASE new.work[s] = a /\ s \in Request[op].upserts
      BY <1>3, <2>2, <2>4, <3>2
    <3> QED
      BY <2>2, <3>1, <3>2
  <2>7. saved.candidate # None => saved.candidate = Candidate(op, saved)
    BY <2>1, <2>2 DEF Candidate
  <2>8. RecordData(op)'
    <3>2. saved.lease = a
      BY <1>1, <2>2
    <3>3. saved.generation # None => rosters'[saved.generation] = saved.candidate
      BY <2>1, <2>2
    <3> QED
      BY <1>3, <2>4, <2>5, <2>6, <2>7, <3>2, <3>3
      DEF RecordData, Candidate, RosterAt
  <2>9. CopyData(a)'
    <3>1. target'[a] = op /\ local'[a] = saved /\ record'[op] = saved
      BY <2>4
    <3>2. pc'[a] # "save" /\ pc'[a] # "create"
      BY <2>4 DEF Working
    <3>3. pc'[a] = "collect" => saved.candidate = None
      BY <2>2, <2>4
    <3> QED
      BY <2>5, <3>1, <3>2, <3>3 DEF CopyData, RosterAt
  <2>10. \A other \in Operations :
           \/ RecordData(other)' /\ record'[other].candidate = record[other].candidate
           \/ RecordData(other)' /\ record[other].candidate = None
           \/ /\ record'[other] = record[other]
              /\ record[other].lease = a => pc'[a] # "done"
    BY <1>3, <2>1, <2>2, <2>4, <2>8
  <2> QED
    BY <1>3, <2>4, <2>9, <2>10, DataMove
<1>6. CASE ~ (record[op].revision = local[a].revision
                /\ record[op].lease = local[a].lease)
  <2>1. pc' = [pc EXCEPT ![a] = "release"] /\ UNCHANGED <<record, local>>
    BY <1>6 DEF Save, GoTo
  <2>2. pc'[a] = "release" /\ \A b \in Attempts \ {a} : pc'[b] = pc[b]
    BY <1>4, <2>1 DEF TypeOK
  <2>3. CopyData(a)'
    BY <1>1, <2>1, <2>2 DEF CopyData, RosterAt, Working
  <2>4. pc'[a] \in Owned /\ pc'[a] # "done"
    BY <2>2 DEF Owned
  <2> QED
    BY <2>1, <2>2, <2>3, <2>4, DataMove
<1> QED
  BY <1>5, <1>6

\* The five steps that save the record.
LEMMA SavingStepsData ==
  ASSUME DInv, NEW a \in Attempts,
         \/ \E s \in Societies, entry \in {a, Kept} : CollectSociety(a, s, entry)
         \/ SaveCandidate(a) \/ SaveGeneration(a)
         \/ ClosePublished(a) \/ CloseStale(a)
  PROVE  Data'
<1> DEFINE mine == local[a]
<1>1. /\ mine \in Record /\ CopyFacts(a) /\ StepFacts(a) /\ CopyData(a)
      /\ None \notin Attempts /\ Kept \notin Attempts
  BY NoneAssumption DEF DInv, IInv, TypeOK, Consistent, Copies, Steps, Data
<1>2. ASSUME pc[a] \in Working, mine = record[target[a]]
      PROVE  /\ mine.candidate # None => mine.candidate = Candidate(target[a], mine)
             /\ mine.generation # None => rosters[mine.generation] = mine.candidate
  <2>1. target[a] \in Operations
    BY <1>1, <1>2 DEF CopyFacts, Working
  <2> QED
    BY <1>2, <2>1 DEF DInv, Data, RecordData
<1>3. ASSUME NEW s \in Societies, NEW entry \in {a, Kept}, CollectSociety(a, s, entry)
      PROVE  Data'
  <2> DEFINE new == [mine EXCEPT !.work[s] = entry]
  <2>1. /\ new \in Record /\ new.base = mine.base /\ new.roster = mine.roster
        /\ new.lease = mine.lease /\ new.candidate = mine.candidate
        /\ new.generation = mine.generation
        /\ \A t \in Societies : new.work[t] = mine.work[t] \/ (t = s /\ new.work[t] = entry)
    <3> DEFINE W == [mine.work EXCEPT ![s] = entry]
    <3>1. new = [mine EXCEPT !.work = W]
      OBVIOUS
    <3>2. mine.work \in [Societies -> Attempts \cup {None, Kept}]
      BY <1>1 DEF Record
    <3>3. /\ W \in [Societies -> Attempts \cup {None, Kept}]
          /\ \A t \in Societies : W[t] = mine.work[t] \/ (t = s /\ W[t] = entry)
      <4> HIDE DEF mine
      <4>1. entry \in Attempts \cup {None, Kept}
        OBVIOUS
      <4>2. \A t \in Societies : W[t] = IF t = s THEN entry ELSE mine.work[t]
        BY <3>2
      <4> QED
        BY <3>2, <4>1, <4>2
    <3> HIDE DEF new, W
    <3>4. new \in Record /\ new.work = W
      BY <1>1, <3>1, <3>3 DEF Record
    <3> QED
      BY <1>1, <3>1, <3>3, <3>4 DEF Record
  <2>2. /\ Before(a, "collect") /\ s \in Request[target[a]].upserts
        /\ Save(a, new, "collect") /\ UNCHANGED <<rosters, target>>
    BY <1>3 DEF CollectSociety
  <2> HIDE DEF new
  <2>3. mine.candidate = None /\ mine.generation = None /\ pc[a] \in Working
    BY <1>1, <2>2 DEF CopyData, StepFacts, Before, Working
  <2>4. "collect" \in Working
    BY DEF Working
  <2> QED
    BY <1>1, <2>1, <2>2, <2>3, <2>4, SaveData
<1>4. CASE SaveCandidate(a)
  <2> DEFINE made == Candidate(target[a], mine)
             new == [mine EXCEPT !.candidate = made]
  <2>1. made \in Roster
    BY <1>1 DEF Candidate, Record, Roster
  <2>2. /\ new \in Record /\ new.base = mine.base /\ new.roster = mine.roster
        /\ new.lease = mine.lease /\ new.candidate = made
        /\ new.generation = mine.generation /\ new.work = mine.work
    BY <1>1, <2>1 DEF Record
  <2>3. Candidate(target[a], new) = made
    BY <2>2 DEF Candidate
  <2>4. /\ Before(a, "collect")
        /\ Save(a, new, "prepare") /\ UNCHANGED <<rosters, target>>
    BY <1>4 DEF SaveCandidate
  <2> HIDE DEF new, made
  <2>5. mine.candidate = None /\ mine.generation = None /\ pc[a] \in Working
    BY <1>1, <2>4 DEF CopyData, StepFacts, Before, Working
  <2>6. "prepare" \in Working
    BY DEF Working
  <2> QED
    BY <1>1, <2>2, <2>3, <2>4, <2>5, <2>6, SaveData
<1>5. CASE SaveGeneration(a)
  <2> DEFINE new == [mine EXCEPT !.generation = a]
  <2>1. /\ new \in Record /\ new.base = mine.base /\ new.roster = mine.roster
        /\ new.lease = mine.lease /\ new.candidate = mine.candidate
        /\ new.generation = a /\ new.work = mine.work
    BY <1>1 DEF Record
  <2>2. Candidate(target[a], new) = Candidate(target[a], mine)
    BY <2>1 DEF Candidate
  <2>3. /\ Before(a, "save")
        /\ Save(a, new, "publish") /\ UNCHANGED <<rosters, target>>
    BY <1>5 DEF SaveGeneration
  <2> HIDE DEF new
  <2>4. pc[a] \in Working /\ rosters[a] = mine.candidate
    BY <1>1, <2>3 DEF CopyData, Before, Working
  <2>5. "publish" \in Working
    BY DEF Working
  <2> QED
    BY <1>2, <2>1, <2>2, <2>3, <2>4, <2>5, SaveData
<1>6. ASSUME NEW result \in {"published", "stale"}, pc[a] \in Working,
             Save(a, [mine EXCEPT !.outcome = result], "release"),
             UNCHANGED <<rosters, target>>
      PROVE  Data'
  <2> DEFINE new == [mine EXCEPT !.outcome = result]
  <2>1. /\ new \in Record /\ new.base = mine.base /\ new.roster = mine.roster
        /\ new.lease = mine.lease /\ new.candidate = mine.candidate
        /\ new.generation = mine.generation /\ new.work = mine.work
    BY <1>1 DEF Record, Outcomes
  <2>2. Candidate(target[a], new) = Candidate(target[a], mine)
    BY <2>1 DEF Candidate
  <2>3. Save(a, new, "release")
    BY <1>6
  <2> HIDE DEF new
  <2> QED
    BY <1>2, <1>6, <2>1, <2>2, <2>3, SaveData
<1>7. CASE ClosePublished(a)
  <2>1. pc[a] \in Working
    BY <1>7 DEF ClosePublished, Before, Working
  <2> QED
    BY <1>6, <1>7, <2>1 DEF ClosePublished
<1>8. CASE CloseStale(a)
  <2>1. pc[a] \in Working
    BY <1>8 DEF CloseStale, Before, Working
  <2> QED
    BY <1>6, <1>8, <2>1 DEF CloseStale
<1> QED
  BY <1>3, <1>4, <1>5, <1>7, <1>8

\* A step of an attempt that leaves every record and roster alone.
LEMMA QuietMove ==
  ASSUME DInv, NEW a \in Attempts, UNCHANGED <<record, rosters>>,
         \A b \in Attempts \ {a} : /\ pc'[b] = pc[b] /\ target'[b] = target[b]
                                   /\ local'[b] = local[b],
         pc[a] \in Owned => pc'[a] \in Owned /\ target'[a] = target[a],
         CopyData(a)', pc'[a] # "done"
  PROVE  Data'
BY DataMove

\* The attempt's copy when it leaves: none.
LEMMA LeaveData ==
  ASSUME DInv, NEW a \in Attempts, pc[a] \in {"load", "create", "claim"},
         Leave(a), UNCHANGED <<record, rosters>>
  PROVE  Data'
<1>1. /\ pc'[a] = "idle" /\ local'[a] = Unopened
      /\ \A b \in Attempts \ {a} : /\ pc'[b] = pc[b] /\ target'[b] = target[b]
                                   /\ local'[b] = local[b]
  BY DEF Leave, DInv, IInv, TypeOK
<1>2. CopyData(a)'
  BY <1>1 DEF CopyData, RosterAt, Unopened, NoPointer, Working
<1> QED
  BY <1>1, <1>2, QuietMove DEF Owned, Working

LEMMA LoadData ==
  ASSUME DInv, NEW a \in Attempts, Load(a)
  PROVE  Data'
<1> DEFINE op == target[a]
<1>1. op \in Operations /\ pc[a] = "load" /\ UNCHANGED <<record, rosters, pointer>>
  BY DEF Load, Before, DInv, IInv, Consistent, Copies, CopyFacts, storeVars
<1>2. RecordData(op)
  BY <1>1 DEF DInv, Data
<1>3. ASSUME NEW r, NEW step \in {"create", "claim"},
             local' = [local EXCEPT ![a] = r], GoTo(a, step), UNCHANGED target,
             r.roster = RosterAt(r.base),
             step = "create" =>
               r.candidate = None /\ \A s \in Societies : r.work[s] = None,
             step = "claim" => r = record[op]
      PROVE  Data'
  <2>1. /\ pc'[a] = step /\ local'[a] = r /\ target'[a] = op
        /\ \A b \in Attempts \ {a} : /\ pc'[b] = pc[b] /\ target'[b] = target[b]
                                     /\ local'[b] = local[b]
    BY <1>3 DEF GoTo, DInv, IInv, TypeOK
  <2>2. CopyData(a)'
    BY <1>1, <1>3, <2>1 DEF CopyData, RosterAt, Working
  <2> QED
    BY <1>1, <2>1, <2>2, QuietMove DEF Owned, Working
<1>4. CASE /\ local' = [local EXCEPT ![a] = NewRecord(pointer)]
           /\ GoTo(a, "create") /\ UNCHANGED target
  <2>1. /\ NewRecord(pointer).roster = RosterAt(NewRecord(pointer).base)
        /\ NewRecord(pointer).candidate = None
        /\ \A s \in Societies : NewRecord(pointer).work[s] = None
    BY DEF NewRecord, Unopened
  <2> QED
    BY <1>3, <1>4, <2>1
<1>5. CASE /\ local' = [local EXCEPT ![a] = record[op]]
           /\ GoTo(a, "claim") /\ UNCHANGED target
  BY <1>2, <1>3, <1>5 DEF RecordData
<1>6. CASE Leave(a)
  BY <1>1, <1>6, LeaveData
<1> QED
  BY <1>4, <1>5, <1>6 DEF Load

LEMMA CreateData ==
  ASSUME DInv, NEW a \in Attempts, Create(a)
  PROVE  Data'
<1> DEFINE op == target[a]
<1>1. /\ op \in Operations /\ pc[a] = "create" /\ UNCHANGED <<rosters, target, local>>
      /\ CopyData(a) /\ CopyFacts(a) /\ local[a] \in Record /\ None \notin Attempts
  BY NoneAssumption
  DEF Create, Before, DInv, IInv, TypeOK, Consistent, Copies, CopyFacts, Data
<1>2. pc'[a] = "load" /\ \A b \in Attempts \ {a} : pc'[b] = pc[b]
  BY DEF Create, GoTo, DInv, IInv, TypeOK
<1>3. CopyData(a)'
  BY <1>1, <1>2 DEF CopyData, RosterAt, Working
<1>4. pc[a] \notin Owned
  BY <1>1 DEF Owned, Working
<1>5. CASE record[op].outcome = "unopened"
  <2>1. /\ record'[op] = local[a]
        /\ \A other \in Operations \ {op} : record'[other] = record[other]
    BY <1>1, <1>5 DEF Create, DInv, IInv, TypeOK
  <2>2. record[op].candidate = None
    BY <1>1, <1>5
    DEF DInv, IInv, Consistent, Generations, GenerationFacts, Unopened
  <2>3. RecordData(op)'
    BY <1>1, <2>1 DEF RecordData, CopyData, CopyFacts, RosterAt
  <2> QED
    BY <1>1, <1>2, <1>3, <1>4, <2>1, <2>2, <2>3, DataMove
<1>6. CASE record[op].outcome # "unopened"
  BY <1>1, <1>2, <1>3, <1>4, <1>6, QuietMove DEF Create
<1> QED
  BY <1>5, <1>6

LEMMA ClaimData ==
  ASSUME DInv, NEW a \in Attempts, Claim(a)
  PROVE  Data'
<1> DEFINE op == target[a]
           claimed == [local[a] EXCEPT !.lease = a, !.revision = @ + 1]
<1>1. /\ op \in Operations /\ pc[a] = "claim" /\ UNCHANGED rosters
      /\ CopyData(a) /\ CopyAgrees(a) /\ local[a] \in Record /\ RecordData(op)
  BY DEF Claim, Before, DInv, IInv, TypeOK, Consistent, Copies, CopyFacts, Data
<1>2. CASE record' = [record EXCEPT ![op] = claimed]
             /\ record[op].revision = local[a].revision
             /\ local' = [local EXCEPT ![a] = claimed]
             /\ GoTo(a, "recover") /\ UNCHANGED target
  <2>1. record[op] = local[a]
    BY <1>1, <1>2 DEF CopyAgrees
  <2>2. /\ claimed.roster = record[op].roster /\ claimed.base = record[op].base
        /\ claimed.work = record[op].work /\ claimed.lease = a
        /\ claimed.candidate = record[op].candidate
        /\ claimed.generation = record[op].generation
    BY <1>1, <2>1 DEF Record
  <2> HIDE DEF claimed
  <2>3. /\ record'[op] = claimed /\ local'[a] = claimed /\ pc'[a] = "recover"
        /\ \A other \in Operations \ {op} : record'[other] = record[other]
        /\ \A b \in Attempts \ {a} : pc'[b] = pc[b] /\ local'[b] = local[b]
    BY <1>1, <1>2 DEF GoTo, DInv, IInv, TypeOK
  <2>4. pc'[a] \in Owned \ {"done"} /\ pc[a] \notin Owned
    BY <1>1, <2>3 DEF Owned, Working
  <2>5. CopyData(a)'
    BY <1>1, <1>2, <2>1, <2>2, <2>3 DEF CopyData, RosterAt
  <2>6. \A s \in Societies : claimed.work[s] \in Attempts =>
          /\ s \in Request[op].upserts
          /\ target[claimed.work[s]] = op /\ pc'[claimed.work[s]] \in Owned
    BY <1>1, <2>2, <2>3, <2>4 DEF RecordData
  <2>7. ASSUME NEW other \in Operations, other = op PROVE RecordData(other)'
    <3>1. rosters' = rosters /\ target' = target
      BY <1>1, <1>2
    <3>2. /\ claimed.roster = RosterAt(claimed.base)
          /\ claimed.candidate # None => claimed.candidate = Candidate(other, claimed)
          /\ claimed.generation # None => rosters[claimed.generation] = claimed.candidate
      BY <1>1, <2>2, <2>7 DEF RecordData, Candidate, RosterAt
    <3>3. record'[other] = claimed
      BY <2>3, <2>7
    <3>4. \A s \in Societies : claimed.work[s] \in Attempts =>
            /\ s \in Request[other].upserts
            /\ target[claimed.work[s]] = other /\ pc'[claimed.work[s]] \in Owned
      BY <2>6, <2>7
    <3>5. target[a] = other
      BY <2>7
    <3> HIDE DEF op
    <3> QED
      BY <2>2, <2>4, <3>1, <3>2, <3>3, <3>4, <3>5 DEF RecordData, Candidate, RosterAt
  <2>8. \A other \in Operations :
          \/ RecordData(other)' /\ record'[other].candidate = record[other].candidate
          \/ /\ record'[other] = record[other]
             /\ record[other].lease = a => pc'[a] # "done"
    BY <2>2, <2>3, <2>4, <2>7
  <2> QED
    BY <1>1, <1>2, <2>3, <2>4, <2>5, <2>8, DataMove
<1>3. CASE Leave(a) /\ UNCHANGED record
  BY <1>1, <1>3, LeaveData
<1> QED
  BY <1>2, <1>3 DEF Claim

\* Steps that only move the attempt within the operation it works on.
LEMMA MoveOn ==
  ASSUME DInv, NEW a \in Attempts, pc[a] \in Working,
         NEW step \in Working \cup {"release"}, step # "save",
         step = "collect" => local[a].candidate = None,
         GoTo(a, step), UNCHANGED <<record, rosters, target, local>>
  PROVE  Data'
<1>1. pc'[a] = step /\ \A b \in Attempts \ {a} : pc'[b] = pc[b]
  BY DEF GoTo, DInv, IInv, TypeOK
<1>2. CopyData(a)'
  BY <1>1 DEF DInv, Data, CopyData, RosterAt, Working
<1> QED
  BY <1>1, <1>2, QuietMove DEF Owned, Working

LEMMA PrepareData ==
  ASSUME DInv, NEW a \in Attempts, PrepareGeneration(a)
  PROVE  Data'
<1>1. /\ pc[a] = "prepare" /\ UNCHANGED <<record, target, local>>
      /\ rosters' = [rosters EXCEPT ![a] = local[a].candidate]
      /\ CopyData(a) /\ Past(local[a].base)
  BY DEF PrepareGeneration, Before, DInv, IInv, Consistent, Data, PointersArePast
<1>2. /\ pc'[a] \in {"release", "save"} /\ rosters'[a] = local[a].candidate
      /\ \A b \in Attempts \ {a} : pc'[b] = pc[b] /\ rosters'[b] = rosters[b]
  BY <1>1 DEF PrepareGeneration, GoTo, DInv, IInv, TypeOK
<1>3. pc[a] \notin Settled
  BY <1>1 DEF Settled
<1>4. local[a].base.current # None =>
        rosters'[local[a].base.current] = rosters[local[a].base.current]
  BY <1>1, <1>2, <1>3, BaseRosterStays DEF DInv
<1>5. CopyData(a)'
  BY <1>1, <1>2, <1>4 DEF CopyData, RosterAt, Working
<1> QED
  BY <1>1, <1>2, <1>3, <1>5, DataMove DEF Owned, Working

LEMMA EndData ==
  ASSUME DInv, NEW a \in Attempts, Release(a) \/ Crash(a)
  PROVE  Data'
<1> DEFINE op == target[a]
<1>1. /\ pc[a] \in Owned /\ UNCHANGED <<rosters, target>> /\ op \in Operations
      /\ None \notin Attempts
  BY NoneAssumption
  DEF Release, Crash, Before, End, Owned, Working, storeVars, DInv, IInv,
      Consistent, Copies, CopyFacts
<1>2. /\ local'[a] = Unopened /\ pc'[a] \in {"done", "crashed"}
      /\ Release(a) => pc'[a] = "done"
      /\ Crash(a) => pc'[a] = "crashed" /\ UNCHANGED record
      /\ \A b \in Attempts \ {a} : pc'[b] = pc[b] /\ local'[b] = local[b]
  BY DEF Release, Crash, End, storeVars, DInv, IInv, TypeOK
<1>3. CopyData(a)'
  BY <1>2 DEF CopyData, RosterAt, Unopened, NoPointer, Working
<1>4. CASE Crash(a)
  BY <1>1, <1>2, <1>3, <1>4, QuietMove DEF Owned
<1>5. CASE Release(a) /\ record[op].lease = a
  <2> DEFINE r == [record[op] EXCEPT !.lease = None, !.revision = @ + 1]
  <2>1. record[op] \in Record /\ RecordData(op)
    BY <1>1 DEF DInv, IInv, TypeOK, Data
  <2>2. /\ r.roster = record[op].roster /\ r.base = record[op].base
        /\ r.work = record[op].work /\ r.lease = None
        /\ r.candidate = record[op].candidate
        /\ r.generation = record[op].generation
    BY <2>1 DEF Record
  <2>3. /\ record'[op] = r
        /\ \A other \in Operations \ {op} : record'[other] = record[other]
    BY <1>1, <1>5 DEF Release, DInv, IInv, TypeOK
  <2> HIDE DEF r
  <2>4. \A s \in Societies : r.work[s] \in Attempts =>
          /\ s \in Request[op].upserts
          /\ target[r.work[s]] = op /\ pc'[r.work[s]] \in Owned
    BY <1>1, <1>2, <2>1, <2>2 DEF RecordData, Owned
  <2>5. RecordData(op)'
    BY <1>1, <2>1, <2>2, <2>3, <2>4 DEF RecordData, Candidate, RosterAt
  <2>6. \A other \in Operations \ {op} : record[other].lease # a
    <3> SUFFICES ASSUME NEW other \in Operations \ {op}, record[other].lease = a
                 PROVE  FALSE
      OBVIOUS
    <3> QED
      BY <1>1 DEF DInv, Data, RecordData
  <2> QED
    BY <1>1, <1>2, <1>3, <2>2, <2>3, <2>5, <2>6, DataMove DEF Owned
<1>6. CASE Release(a) /\ record[op].lease # a
  <2>1. \A other \in Operations : record[other].lease # a
    <3> SUFFICES ASSUME NEW other \in Operations, record[other].lease = a
                 PROVE  FALSE
      OBVIOUS
    <3>1. target[a] = other
      BY <1>1 DEF DInv, Data, RecordData
    <3> QED
      BY <1>6, <3>1
  <2>2. record' = record
    BY <1>6 DEF Release
  <2> QED
    BY <1>1, <1>2, <1>3, <2>1, <2>2, DataMove DEF Owned
<1> QED
  BY <1>4, <1>5, <1>6

\* Steps of others: of an attempt that has yet to start, of the clock, of undo.
LEMMA OutsideData ==
  ASSUME DInv, UNCHANGED <<record, rosters, local>>,
         \A b \in Attempts : \/ pc'[b] = pc[b] /\ target'[b] = target[b]
                             \/ pc[b] = "idle" /\ pc'[b] = "load"
  PROVE  Data'
<1> USE DEF DInv, Data
<1>1. ASSUME NEW b \in Attempts, pc[b] \in Owned
      PROVE  pc'[b] = pc[b] /\ target'[b] = target[b]
  BY <1>1 DEF Owned, Working
<1>2. ASSUME NEW op \in Operations PROVE RecordData(op)'
  <2>1. RecordData(op) /\ record[op] \in Record
    BY DEF IInv, TypeOK
  <2>2. record[op].lease # None => record[op].lease \in Attempts
    BY <2>1 DEF Record
  <2> QED
    BY <1>1, <2>1, <2>2 DEF RecordData, Candidate, RosterAt
<1>3. ASSUME NEW b \in Attempts PROVE CopyData(b)'
  BY DEF CopyData, RosterAt, Working
<1> QED
  BY <1>2, <1>3

LEMMA InitData == Init => Data
<1> SUFFICES ASSUME Init PROVE Data
  OBVIOUS
<1>1. \A op \in Operations : RecordData(op)
  BY NoneAssumption DEF Init, RecordData, Unopened, NoPointer, RosterAt
<1>2. \A a \in Attempts : CopyData(a)
  BY DEF Init, CopyData, Unopened, NoPointer, RosterAt, Working
<1> QED
  BY <1>1, <1>2 DEF Data

\* DInv is inductive.
LEMMA NextData == DInv /\ [Next]_vars => DInv'
<1> SUFFICES ASSUME DInv, [Next]_vars PROVE Data'
  BY NextKeeps DEF DInv
<1>1. TypeOK
  BY DEF DInv, IInv
<1>2. ASSUME NEW a \in Attempts, NEW op \in Operations, Start(a, op)
      PROVE  Data'
  BY <1>1, <1>2, OutsideData DEF Start, Before, GoTo, TypeOK, storeVars
<1>3. ASSUME NEW a \in Attempts, Step(a)
      PROVE  Data'
  <2>1. CASE Recover(a)
    <3>1. /\ pc[a] \in Working
          /\ \E step \in Working : /\ step # "save" /\ GoTo(a, step)
                                   /\ step = "collect" => local[a].candidate = None
      BY <2>1 DEF Recover, Before, Working
    <3> QED
      BY <2>1, <3>1, MoveOn DEF Recover, storeVars
  <2>2. CASE PublishGeneration(a)
    <3>1. /\ pc[a] \in Working
          /\ \E step \in Working \cup {"release"} :
               step # "save" /\ step # "collect" /\ GoTo(a, step)
      BY <2>2 DEF PublishGeneration, Before, Working
    <3> QED
      BY <2>2, <3>1, MoveOn DEF PublishGeneration
  <2> QED
    BY <1>3, <2>1, <2>2, LoadData, CreateData, ClaimData, SavingStepsData,
       PrepareData, EndData DEF Step
<1>4. ASSUME NEW a \in Attempts, Fail(a)
      PROVE  Data'
  <2>1. CASE pc[a] \in {"load", "create", "claim"} /\ Leave(a)
    BY <1>4, <2>1, LeaveData DEF Fail, storeVars
  <2>2. CASE pc[a] \in Working /\ GoTo(a, "release") /\ UNCHANGED <<target, local>>
    BY <1>4, <2>2, MoveOn DEF Fail, storeVars
  <2> QED
    BY <1>4, <2>1, <2>2 DEF Fail
<1>5. ASSUME NEW a \in Attempts, Crash(a)
      PROVE  Data'
  BY <1>5, EndData
<1>6. ASSUME NEW op \in Operations, LeaseExpires(op)
      PROVE  Data'
  BY <1>6, OutsideData DEF LeaseExpires, attemptVars
<1>7. ASSUME NEW u \in Undos, Undo(u)
      PROVE  Data'
  BY <1>7, OutsideData
  DEF Undo, UndoRead, UndoSwap, UndoFail, storeVars, attemptVars
<1>8. CASE UNCHANGED vars
  BY <1>8, OutsideData DEF vars, storeVars, attemptVars
<1> QED
  BY <1>2, <1>3, <1>4, <1>5, <1>6, <1>7, <1>8 DEF Next

\* DInv holds of every reachable state.
THEOREM DataHolds == Spec => []DInv
<1>1. Init => DInv
  BY InitConsistent, InitData DEF DInv
<1> QED
  BY <1>1, NextData, PTL DEF Spec

\* Whatever ends an invocation of apply but a crash - success, a refused save,
\* a lost publication, a failed step - has cleared the lease it held.
THEOREM LeasesAreCleared == Spec => []OnlyACrashKeepsItsLease
<1>1. DInv => OnlyACrashKeepsItsLease
  BY DEF DInv, Data, RecordData, OnlyACrashKeepsItsLease
<1> QED
  BY <1>1, DataHolds, PTL

\* What is served after a publication is the roster that was served before it
\* with the request applied, whichever attempts collected, saved and published
\* it and whatever was published or undone meanwhile.
THEOREM NoUpdateIsLost == Spec => []NoLostUpdate
<1>1. ASSUME DInv PROVE NoLostUpdate
  <2> SUFFICES ASSUME NEW op \in Operations, Published(op), NEW s \in Societies
               PROVE  LET n == record[op].base.revision
                          old == IF n = 0 THEN EmptyRoster ELSE rosters[history[n]]
                          new == rosters[history[n + 1]]
                      IN IF s \in Request[op].removals THEN new[s] = None
                         ELSE \/ new[s] = old[s]
                              \/ /\ s \in Request[op].upserts
                                 /\ new[s] \in Attempts
                                 /\ target[new[s]] = op
    BY DEF NoLostUpdate
  <2> DEFINE r == record[op]
             n == r.base.revision
             old == IF n = 0 THEN EmptyRoster ELSE rosters[history[n]]
  <2>1. /\ history[n + 1] = r.generation /\ Past(r.base) /\ RecordData(op)
        /\ r \in Record /\ history \in Seq(Attempts) /\ None \notin Attempts
    BY <1>1, NoneAssumption
    DEF DInv, Data, IInv, TypeOK, Consistent, OnBase, PointersArePast
  <2>2. r.generation # None
    BY <2>1 DEF Published
  <2>3. rosters[history[n + 1]] = Candidate(op, r)
    BY <1>1, <2>1, <2>2
    DEF RecordData, DInv, IInv, Consistent, Generations, GenerationFacts
  <2>4. r.roster = old
    <3>1. n \in 0 .. Len(history) /\ r.base.current = IF n = 0 THEN None ELSE history[n]
      BY <2>1 DEF Past, PointerAt
    <3>2. n # 0 => history[n] # None
      BY <2>1, <3>1
    <3> QED
      BY <2>1, <3>1, <3>2 DEF RecordData, RosterAt
  <2>5. r.work[s] \in Attempts => s \in Request[op].upserts /\ target[r.work[s]] = op
    BY <2>1 DEF RecordData
  <2> QED
    BY <2>3, <2>4, <2>5 DEF Candidate
<1> QED
  BY <1>1, DataHolds, PTL

(***************************************************************************)
(* Recorded progress.                                                      *)
(***************************************************************************)

\* What a write of a record keeps, the revision aside.
Keeps(old, new) ==
  /\ new.base = old.base /\ new.roster = old.roster
  /\ \A s \in Societies : old.work[s] # None => new.work[s] = old.work[s]
  /\ old.candidate # None => new.candidate = old.candidate
  /\ old.generation # None => new.generation = old.generation

\* A write onto the record its author holds a copy of keeps the progress when
\* what is written keeps the copy's.
LEMMA WriteProgress ==
  ASSUME IInv, NEW a \in Attempts, target[a] \in Operations, CopyAgrees(a),
         NEW new \in Record,
         \/ record' = record
         \/ /\ record[target[a]].revision = local[a].revision
            /\ record' = [record EXCEPT ![target[a]] =
                            [new EXCEPT !.revision = local[a].revision + 1]],
         Keeps(local[a], new),
         NEW op \in Operations, record'[op] # record[op]
  PROVE  ProgressKept(record[op], record'[op])
<1> DEFINE saved == [new EXCEPT !.revision = local[a].revision + 1]
<1>1. /\ record[target[a]] = local[a] /\ record[target[a]].outcome = "open"
      /\ local[a].revision \in Nat
  BY DEF CopyAgrees, IInv, TypeOK, Record
<1>2. op = target[a] /\ record'[op] = saved
  BY DEF IInv, TypeOK
<1>3. /\ saved.revision = local[a].revision + 1
      /\ saved.base = new.base /\ saved.roster = new.roster
      /\ saved.work = new.work /\ saved.candidate = new.candidate
      /\ saved.generation = new.generation
  BY <1>1 DEF Record
<1> HIDE DEF saved
<1> QED
  BY <1>1, <1>2, <1>3 DEF ProgressKept, Keeps

LEMMA StepProgress ==
  ASSUME DInv, NEW a \in Attempts, Step(a),
         NEW op \in Operations, record'[op] # record[op],
         record[op].outcome # "unopened"
  PROVE  ProgressKept(record[op], record'[op])
<1> DEFINE mine == local[a]
<1>1. /\ mine \in Record /\ CopyFacts(a) /\ StepFacts(a) /\ CopyData(a) /\ IInv
      /\ record \in [Operations -> Record]
  BY DEF DInv, IInv, TypeOK, Consistent, Copies, Steps, Data
<1>2. ASSUME pc[a] \in {"claim"} \cup Working
      PROVE  target[a] \in Operations /\ CopyAgrees(a)
  BY <1>1, <1>2 DEF CopyFacts, Working
<1>3. ASSUME NEW new \in Record, NEW step, Save(a, new, step), pc[a] \in Working,
             Keeps(mine, new)
      PROVE  ProgressKept(record[op], record'[op])
  BY <1>1, <1>2, <1>3, WriteProgress DEF Save
<1>4. CASE Create(a)
  BY <1>1, <1>4 DEF Create, Before, CopyFacts
<1>5. CASE Claim(a)
  <2> DEFINE new == [mine EXCEPT !.lease = a]
  <2>1. new \in Record /\ Keeps(mine, new)
    BY <1>1 DEF Record, Keeps
  <2>2. [mine EXCEPT !.lease = a, !.revision = @ + 1]
          = [new EXCEPT !.revision = mine.revision + 1]
    BY <1>1 DEF Record
  <2>3. \/ record' = record
        \/ /\ record[target[a]].revision = mine.revision
           /\ record' = [record EXCEPT ![target[a]] =
                           [new EXCEPT !.revision = mine.revision + 1]]
    BY <1>5, <2>2 DEF Claim
  <2> QED
    BY <1>1, <1>2, <1>5, <2>1, <2>3, WriteProgress DEF Claim, Before
<1>6. ASSUME NEW s \in Societies, NEW entry \in {a, Kept}, CollectSociety(a, s, entry)
      PROVE  ProgressKept(record[op], record'[op])
  <2> DEFINE W == [mine.work EXCEPT ![s] = entry]
             new == [mine EXCEPT !.work[s] = entry]
  <2>1. new = [mine EXCEPT !.work = W]
    OBVIOUS
  <2>2. /\ Save(a, new, "collect") /\ pc[a] \in Working /\ mine.work[s] = None
    BY <1>6 DEF CollectSociety, Before, Working
  <2>3. mine.work \in [Societies -> Attempts \cup {None, Kept}]
    BY <1>1 DEF Record
  <2>4. /\ W \in [Societies -> Attempts \cup {None, Kept}]
        /\ \A t \in Societies : mine.work[t] # None => W[t] = mine.work[t]
    BY <2>2, <2>3
  <2> HIDE DEF new, W
  <2>5. new \in Record /\ Keeps(mine, new)
    BY <1>1, <2>1, <2>4 DEF Record, Keeps
  <2> QED
    BY <1>3, <2>2, <2>5
<1>7. CASE SaveCandidate(a)
  <2> DEFINE made == Candidate(target[a], mine)
             new == [mine EXCEPT !.candidate = made]
  <2>1. made \in Roster
    BY <1>1 DEF Candidate, Record, Roster
  <2>2. Save(a, new, "prepare") /\ pc[a] \in Working /\ pc[a] = "collect"
    BY <1>7 DEF SaveCandidate, Before, Working
  <2> HIDE DEF made
  <2>3. new \in Record /\ Keeps(mine, new)
    BY <1>1, <2>1, <2>2 DEF Record, Keeps, CopyData
  <2> QED
    BY <1>3, <2>2, <2>3
<1>8. CASE SaveGeneration(a)
  <2> DEFINE new == [mine EXCEPT !.generation = a]
  <2>1. Save(a, new, "publish") /\ pc[a] \in Working /\ pc[a] = "save"
    BY <1>8 DEF SaveGeneration, Before, Working
  <2>2. new \in Record /\ Keeps(mine, new)
    BY <1>1, <2>1 DEF Record, Keeps, StepFacts
  <2> QED
    BY <1>3, <2>1, <2>2
<1>9. ASSUME NEW result \in {"published", "stale"}, pc[a] \in Working,
             Save(a, [mine EXCEPT !.outcome = result], "release")
      PROVE  ProgressKept(record[op], record'[op])
  <2>1. /\ [mine EXCEPT !.outcome = result] \in Record
        /\ Keeps(mine, [mine EXCEPT !.outcome = result])
    BY <1>1 DEF Record, Outcomes, Keeps
  <2> QED
    BY <1>3, <1>9, <2>1
<1>10. CASE ClosePublished(a) \/ CloseStale(a)
  BY <1>9, <1>10 DEF ClosePublished, CloseStale, Before, Working
<1>11. CASE Release(a)
  <2> DEFINE r == [record[op] EXCEPT !.lease = None, !.revision = @ + 1]
  <2>1. record'[op] = r
    BY <1>1, <1>11 DEF Release
  <2>2. r.revision = record[op].revision + 1 /\ record[op].revision \in Nat
    BY <1>1 DEF Record
  <2>3. Keeps(record[op], r) /\ r.outcome = record[op].outcome
    BY <1>1 DEF Record, Keeps
  <2> HIDE DEF r
  <2> QED
    BY <2>1, <2>2, <2>3 DEF Keeps, ProgressKept
<1>12. CASE Load(a) \/ Recover(a) \/ PrepareGeneration(a) \/ PublishGeneration(a)
  BY <1>12 DEF Load, Recover, PrepareGeneration, PublishGeneration, storeVars
<1> QED
  BY <1>4, <1>5, <1>6, <1>7, <1>8, <1>10, <1>11, <1>12 DEF Step

\* What an operation has recorded is kept by every later write of its record.
LEMMA NextProgress ==
  ASSUME DInv, [Next]_vars, NEW op \in Operations, record'[op] # record[op],
         record[op].outcome # "unopened"
  PROVE  ProgressKept(record[op], record'[op])
<1>1. ASSUME NEW a \in Attempts, NEW other \in Operations, Start(a, other)
      PROVE  record' = record
  BY <1>1 DEF Start, storeVars
<1>2. ASSUME NEW a \in Attempts, Fail(a) \/ Crash(a)
      PROVE  record' = record
  BY <1>2 DEF Fail, Crash, storeVars
<1>3. ASSUME NEW other \in Operations, LeaseExpires(other)
      PROVE  record' = record
  BY <1>3 DEF LeaseExpires
<1>4. ASSUME NEW u \in Undos, Undo(u)
      PROVE  record' = record
  BY <1>4 DEF Undo, UndoRead, UndoSwap, UndoFail, storeVars
<1>5. UNCHANGED vars => record' = record
  BY DEF vars, storeVars
<1> QED
  BY <1>1, <1>2, <1>3, <1>4, <1>5, StepProgress DEF Next

\* An invocation that resumes an operation builds on what others made durable.
THEOREM ProgressIsKept == Spec => RecordedProgressIsKept
<1>1. DInv /\ [Next]_vars =>
        [\A op \in Operations :
           record[op] # record'[op] =>
             record[op].outcome = "unopened" \/ ProgressKept(record[op], record'[op])]_record
  BY NextProgress
<1> QED
  BY <1>1, DataHolds, PTL DEF Spec, RecordedProgressIsKept
=============================================================================
