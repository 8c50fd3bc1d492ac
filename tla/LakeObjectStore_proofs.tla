--------------------------- MODULE LakeObjectStore_proofs ------------------------
(***************************************************************************)
(* LakeObjectStore implements LakePutIf for every set of writers, every    *)
(* condition and every number of rounds.                                   *)
(***************************************************************************)
EXTENDS LakeObjectStore, TLAPS

\* The inductive invariant holds at first.
LEMMA InitOInv == Init => OInv
BY ObjectAssumption DEF Init, OInv, OTypeOK, ReadFacts

\* A step of writer w.
LEMMA WriterKeeps ==
  ASSUME OInv, NEW w \in Writers, Call(w) \/ Step(w) \/ Fail(w)
  PROVE  OInv'
<1> USE DEF OInv, GoTo
<1>1. ReadFacts(w) /\ rounds[w] \in 0 .. MaxRounds /\ version \in Nat
      /\ got[w] \in Nat
  BY DEF OTypeOK
<1>2. CASE Call(w)
  <2>1. OTypeOK'
    BY <1>2 DEF Call, OTypeOK
  <2>2. \A v \in Writers : ReadFacts(v)'
    BY <1>2 DEF Call, OTypeOK, ReadFacts
  <2> QED
    BY <2>1, <2>2
<1>3. CASE Get(w)
  <2>1. OTypeOK'
    BY <1>3 DEF Get, Answers, OTypeOK
  <2>2. \A v \in Writers : ReadFacts(v)'
    BY <1>1, <1>3 DEF Get, Answers, OTypeOK, ReadFacts
  <2> QED
    BY <2>1, <2>2
<1>4. CASE Put(w)
  <2>1. OTypeOK'
    BY <1>4 DEF Put, Answers, OTypeOK
  <2>2. \A v \in Writers : ReadFacts(v)'
    BY <1>1, <1>4 DEF Put, Answers, OTypeOK, ReadFacts
  <2> QED
    BY <2>1, <2>2
<1>5. CASE Conflict(w)
  <2>1. rounds[w] + 1 <= MaxRounds /\ rounds[w] + 1 <= version
    BY <1>1, <1>5, ObjectAssumption DEF Conflict, ReadFacts
  <2>2. OTypeOK'
    BY <1>1, <1>5, <2>1, ObjectAssumption DEF Conflict, OTypeOK
  <2>3. \A v \in Writers : ReadFacts(v)'
    BY <1>1, <1>5, <2>1 DEF Conflict, OTypeOK, ReadFacts
  <2> QED
    BY <2>2, <2>3
<1>6. CASE GiveUp(w)
  BY <1>6 DEF GiveUp, Answers, OTypeOK, ReadFacts
<1>7. CASE Fail(w)
  <2>1. OTypeOK'
    BY <1>7 DEF Fail, Answers, OTypeOK
  <2>2. \A v \in Writers : ReadFacts(v)'
    BY <1>1, <1>7 DEF Fail, Answers, OTypeOK, ReadFacts
  <2> QED
    BY <2>1, <2>2
<1> QED
  BY <1>2, <1>3, <1>4, <1>5, <1>6, <1>7 DEF Step

\* Every step keeps the inductive invariant.
LEMMA NextOInv == OInv /\ [Next]_vars => OInv'
<1> SUFFICES ASSUME OInv, [Next]_vars PROVE OInv'
  OBVIOUS
<1>1. CASE UNCHANGED vars
  BY <1>1 DEF vars, OInv, OTypeOK, ReadFacts
<1> QED
  BY <1>1, WriterKeeps DEF Next

\* The inductive invariant of the loop: an unchanged version is an unchanged
\* object, and every conflict met was a put of another.
THEOREM ObjectInvariance == Spec => []OInv
BY InitOInv, NextOInv, PTL DEF Spec

\* Every state of the loop is well typed.
THEOREM ObjectTypesHold == Spec => []OTypeOK
BY ObjectInvariance, PTL DEF OInv

\* Whoever gives up has lost to as many puts of others as it had rounds.
THEOREM LosesHolds == Spec => []LosesToOthersOnly
<1>1. OInv => LosesToOthersOnly
  BY DEF OInv, ReadFacts, LosesToOthersOnly
<1> QED
  BY <1>1, ObjectInvariance, PTL

\* A step of the loop is a step of the atomic put, or none.
LEMMA ObjectMaps ==
  OInv /\ [Next]_vars => [PutIf!PutNext]_(PutIf!putVars)
<1> SUFFICES ASSUME OInv, [Next]_vars
             PROVE  PutIf!PutNext \/ UNCHANGED <<value, seen, PutAnswers>>
  BY DEF PutIf!putVars
<1>1. CASE UNCHANGED vars
  BY <1>1 DEF vars, PutAnswers
<1>2. ASSUME NEW w \in Writers, Call(w) \/ Step(w) \/ Fail(w)
      PROVE  PutIf!PutNext \/ UNCHANGED <<value, seen, PutAnswers>>
  <2>1. ReadFacts(w) /\ answer \in [Writers -> {"idle", "pending", "replaced",
                                      "refused", "failed", "contended"}]
    BY DEF OInv, OTypeOK
  <2>2. ASSUME NEW a \in {"pending", "replaced", "refused", "failed", "contended"},
               answer' = [answer EXCEPT ![w] = a]
        PROVE  PutAnswers' = [PutAnswers EXCEPT ![w] =
                                IF a = "contended" THEN "failed" ELSE a]
    BY <2>1, <2>2 DEF PutAnswers
  <2>3. PutAnswers[w] = IF answer[w] = "contended" THEN "failed" ELSE answer[w]
    BY DEF PutAnswers
  <2>4. CASE Call(w)
    <3>1. PutIf!Call(w)
      BY <2>1, <2>2, <2>3, <2>4 DEF Call, ReadFacts, PutIf!Call, PutIf!Answered
    <3> QED
      BY <3>1 DEF PutIf!PutNext
  <2>5. CASE Get(w) /\ Replaces(w, seen[w], value)
    BY <2>5 DEF Get, PutAnswers
  <2>6. CASE Get(w) /\ ~Replaces(w, seen[w], value)
    <3>1. PutIf!Refuse(w)
      BY <2>1, <2>2, <2>3, <2>6
      DEF Get, Answers, ReadFacts, PutIf!Refuse, PutIf!Answered
    <3> QED
      BY <3>1 DEF PutIf!PutNext
  <2>7. CASE Put(w)
    <3>1. PutIf!Replace(w)
      BY <2>1, <2>2, <2>3, <2>7
      DEF Put, Answers, ReadFacts, PutIf!Replace, PutIf!Answered
    <3> QED
      BY <3>1 DEF PutIf!PutNext
  <2>8. CASE Conflict(w)
    BY <2>8 DEF Conflict, PutAnswers
  <2>9. CASE GiveUp(w)
    <3>1. PutIf!Err(w)
      BY <2>1, <2>2, <2>3, <2>9
      DEF GiveUp, Answers, ReadFacts, PutIf!Err, PutIf!Answered
    <3> QED
      BY <3>1 DEF PutIf!PutNext
  <2>10. CASE Fail(w)
    <3>1. PutIf!Err(w)
      BY <2>1, <2>2, <2>3, <2>10
      DEF Fail, Answers, ReadFacts, PutIf!Err, PutIf!Answered
    <3> QED
      BY <3>1 DEF PutIf!PutNext
  <2> QED
    BY <1>2, <2>4, <2>5, <2>6, <2>7, <2>8, <2>9, <2>10 DEF Step
<1> QED
  BY <1>1, <1>2 DEF Next

\* With an object store, put_json_if compares and puts in one step.
THEOREM ObjectImplements == Spec => ImplementsPutIf
<1>1. Init => PutIf!PutInit
  BY DEF Init, PutIf!PutInit, PutAnswers
<1> QED
  BY <1>1, ObjectMaps, ObjectInvariance, PTL
  DEF Spec, ImplementsPutIf, PutIf!PutSpec
=============================================================================
