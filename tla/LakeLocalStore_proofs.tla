------------------------- MODULE LakeLocalStore_proofs -------------------------
(***************************************************************************)
(* What the lock files of LakeLocalStore guarantee, for every set of       *)
(* writers, every condition and every number of tries.                     *)
(***************************************************************************)
EXTENDS LakeLocalStore, TLAPS

\* The inductive invariant holds at first.
LEMMA InitLInv == Init => LInv
<1> SUFFICES ASSUME Init PROVE LInv
  OBVIOUS
<1>1. LTypeOK
  <2>1. old \in BOOLEAN /\ stolen \in BOOLEAN
    BY DEF Init
  <2>2. tries \in [Writers -> 0 .. MaxTries]
    BY LocalAssumption DEF Init
  <2> QED
    BY <2>1, <2>2 DEF Init, LTypeOK, PcStates
<1>2. \A w \in Writers : AnswerFacts(w) /\ OwnerFacts(w)
  BY DEF Init, AnswerFacts, OwnerFacts, Holding
<1> QED
  BY <1>1, <1>2 DEF LInv

\* Every step keeps the types and the progress of the answers.
LEMMA TypesStep ==
  ASSUME LInv, [Next]_vars
  PROVE  LTypeOK' /\ \A w \in Writers : AnswerFacts(w)'
<1> USE DEF LInv, GoTo, Answered, PcStates, LTypeOK, AnswerFacts
<1>1. ASSUME NEW w \in Writers,
             Call(w) \/ Create(w) \/ GiveUp(w) \/ OpenFails(w)
      PROVE  LTypeOK' /\ \A v \in Writers : AnswerFacts(v)'
  <2>1. CASE Call(w)
    BY <2>1 DEF Call
  <2>2. CASE Create(w)
    BY <2>2 DEF Create
  <2>3. CASE GiveUp(w) \/ OpenFails(w)
    BY <2>3 DEF GiveUp, OpenFails
  <2> QED
    BY <1>1, <2>1, <2>2, <2>3
<1>2. ASSUME NEW w \in Writers, Wait(w)
      PROVE  LTypeOK' /\ \A v \in Writers : AnswerFacts(v)'
  <2>1. tries[w] + 1 \in 0 .. MaxTries
    BY <1>2, LocalAssumption DEF Wait
  <2> QED
    BY <1>2, <2>1 DEF Wait
<1>3. ASSUME NEW w \in Writers, RemoveOld(w) \/ Unlock(w)
      PROVE  LTypeOK' /\ \A v \in Writers : AnswerFacts(v)'
  <2>1. stolen' \in BOOLEAN
    BY <1>3 DEF RemoveOld, Unlock, RemovesLock
  <2> QED
    BY <1>3, <2>1 DEF RemoveOld, Unlock, RemovesLock
<1>4. ASSUME NEW w \in Writers, Check(w) \/ Write(w)
      PROVE  LTypeOK' /\ \A v \in Writers : AnswerFacts(v)'
  BY <1>4 DEF Check, Write
<1>5. ASSUME NEW w \in Writers, Fail(w) \/ Crash(w)
      PROVE  LTypeOK' /\ \A v \in Writers : AnswerFacts(v)'
  BY <1>5 DEF Fail, Crash, Holding
<1>6. CASE LockAges \/ UNCHANGED vars
  BY <1>6 DEF LockAges, vars
<1> QED
  BY <1>1, <1>2, <1>3, <1>4, <1>5, <1>6 DEF Next, Step

\* A step that steals no lock keeps the owners' facts.
LEMMA OwnersStep ==
  ASSUME LInv, [Next]_vars, ~stolen'
  PROVE  ~stolen /\ \A w \in Writers : OwnerFacts(w)'
<1> USE DEF GoTo, Answered, Holding, OwnerFacts
<1>1. ~stolen
  BY DEF Next, Step, Call, Create, Wait, RemoveOld, GiveUp, OpenFails, Check,
         Write, Fail, RemovesLock, Unlock, Crash, LockAges, vars
<1>2. /\ \A w \in Writers : OwnerFacts(w)
      /\ pc \in [Writers -> PcStates] /\ lock \in Writers \cup {None}
  BY <1>1 DEF LInv, LTypeOK
<1>3. ASSUME NEW w \in Writers,
             Call(w) \/ Wait(w) \/ GiveUp(w) \/ OpenFails(w) \/ Crash(w)
      PROVE  \A v \in Writers : OwnerFacts(v)'
  <2>1. /\ pc'[w] \notin Holding /\ pc' = [pc EXCEPT ![w] = pc'[w]]
        /\ \A v \in Writers \ {w} : pc'[v] = pc[v] /\ seen'[v] = seen[v]
        /\ lock' = lock /\ value' = value
    <3>1. CASE Call(w)
      BY <1>2, <3>1 DEF Call, LInv, LTypeOK
    <3>2. CASE Wait(w)
      BY <1>2, <3>2 DEF Wait
    <3>3. CASE GiveUp(w) \/ OpenFails(w) \/ Crash(w)
      BY <1>2, <3>3 DEF GiveUp, OpenFails, Crash
    <3> QED
      BY <1>3, <3>1, <3>2, <3>3
  <2> QED
    BY <1>2, <2>1
<1>4. ASSUME NEW w \in Writers, Create(w)
      PROVE  \A v \in Writers : OwnerFacts(v)'
  BY <1>2, <1>4, LocalAssumption DEF Create
<1>5. ASSUME NEW w \in Writers, RemoveOld(w) \/ Unlock(w)
      PROVE  \A v \in Writers : OwnerFacts(v)'
  <2>1. lock' = lock \/ ~Steals(w)
    BY <1>1, <1>5 DEF RemoveOld, Unlock, RemovesLock
  <2>2. pc'[w] \notin Holding /\ \A v \in Writers \ {w} : pc'[v] = pc[v]
    BY <1>2, <1>5 DEF RemoveOld, Unlock, RemovesLock
  <2>3. seen' = seen /\ value' = value
    BY <1>5 DEF RemoveOld, Unlock, RemovesLock
  <2> QED
    BY <1>2, <2>1, <2>2, <2>3 DEF Steals
<1>6. ASSUME NEW w \in Writers, Check(w) \/ Write(w) \/ Fail(w)
      PROVE  \A v \in Writers : OwnerFacts(v)'
  <2>1. pc[w] \in Holding
    BY <1>6 DEF Check, Write, Fail
  <2>2. \A v \in Writers : pc[v] \in Holding => v = w
    BY <1>2, <2>1
  <2> QED
    BY <1>2, <1>6, <2>1, <2>2 DEF Check, Write, Fail
<1>7. CASE LockAges \/ UNCHANGED vars
  BY <1>2, <1>7 DEF LockAges, vars
<1> QED
  BY <1>1, <1>3, <1>4, <1>5, <1>6, <1>7 DEF Next, Step

\* Every step keeps the inductive invariant.
LEMMA NextLInv == LInv /\ [Next]_vars => LInv'
BY TypesStep, OwnersStep DEF LInv

\* The inductive invariant of the lock file: answers stay open until the last
\* step, and until a lock is stolen its file is that of the only process inside.
THEOREM LockInvariance == Spec => []LInv
BY InitLInv, NextLInv, PTL DEF Spec

\* Every state of the local store is well typed.
THEOREM LockTypesHold == Spec => []LTypeOK
BY LockInvariance, PTL DEF LInv

\* The lock file of a key admits one process at a time until it is removed
\* under its running owner.
THEOREM LockExcludesHolds == Spec => []LockExcludes
<1>1. LInv => LockExcludes
  BY DEF LInv, OwnerFacts, LockExcludes
<1> QED
  BY <1>1, LockInvariance, PTL

\* Until a lock is stolen, a step is a step of the atomic put, or none.
LEMMA LocalMaps ==
  LInv /\ [Next]_vars =>
    [~stolen' => [PutIf!PutNext]_(PutIf!putVars)]_vars
<1> SUFFICES ASSUME LInv, ~stolen', [Next]_vars
             PROVE  PutIf!PutNext \/ UNCHANGED <<value, seen, answer>>
  BY DEF PutIf!putVars
<1> USE DEF Answered, PutIf!Answered
<1>1. \A w \in Writers : AnswerFacts(w) /\ OwnerFacts(w)
  BY OwnersStep DEF LInv
<1>2. ASSUME NEW w \in Writers, Call(w)
      PROVE  PutIf!PutNext
  <2>1. PutIf!Call(w)
    BY <1>1, <1>2 DEF Call, AnswerFacts, PutIf!Call
  <2> QED
    BY <2>1 DEF PutIf!PutNext
<1>3. ASSUME NEW w \in Writers, GiveUp(w) \/ OpenFails(w)
      PROVE  PutIf!PutNext
  <2>1. PutIf!Err(w)
    BY <1>1, <1>3 DEF GiveUp, OpenFails, AnswerFacts, PutIf!Err
  <2> QED
    BY <2>1 DEF PutIf!PutNext
<1>4. ASSUME NEW w \in Writers, Check(w)
      PROVE  PutIf!PutNext \/ UNCHANGED <<value, seen, answer>>
  <2>1. PutIf!Refuse(w) \/ UNCHANGED <<value, seen, answer>>
    BY <1>1, <1>4 DEF Check, AnswerFacts, PutIf!Refuse
  <2> QED
    BY <2>1 DEF PutIf!PutNext
<1>5. ASSUME NEW w \in Writers, Write(w)
      PROVE  PutIf!PutNext
  <2>1. PutIf!Replace(w)
    BY <1>1, <1>5 DEF Write, AnswerFacts, OwnerFacts, PutIf!Replace
  <2> QED
    BY <2>1 DEF PutIf!PutNext
<1>6. ASSUME NEW w \in Writers, Fail(w)
      PROVE  PutIf!PutNext
  <2>1. PutIf!Err(w)
    BY <1>1, <1>6 DEF Fail, AnswerFacts, OwnerFacts, PutIf!Err
  <2> QED
    BY <2>1 DEF PutIf!PutNext
<1>7. ASSUME NEW w \in Writers,
             Create(w) \/ Wait(w) \/ RemoveOld(w) \/ Unlock(w) \/ Crash(w)
      PROVE  UNCHANGED <<value, seen, answer>>
  BY <1>7 DEF Create, Wait, RemoveOld, Unlock, Crash
<1>8. CASE LockAges \/ UNCHANGED vars
  BY <1>8 DEF LockAges, vars
<1> QED
  BY <1>2, <1>3, <1>4, <1>5, <1>6, <1>7, <1>8 DEF Next, Step

\* With a local directory, put_json_if compares and puts in one step unless a
\* lock file is removed under its running owner.
THEOREM LocalImplements == Spec => ImplementsPutIf
<1>1. Init => PutIf!PutInit
  BY DEF Init, PutIf!PutInit
<1> QED
  BY <1>1, LocalMaps, LockInvariance, PTL DEF Spec, ImplementsPutIf
=============================================================================
