-------------------------- MODULE DagResults_proofs --------------------------
(***************************************************************************)
(* What a run of the asset DAG has made is kept and promoted in order, for *)
(* any runs, drivers and assets.                                           *)
(*                                                                         *)
(* The argument is about copies: a driver works on the manifest it read    *)
(* last, and others may have saved since.  A save goes through only onto   *)
(* the revision of the copy, and at the same revision the copy has every   *)
(* result the stored manifest has.  A promotion does not look at the       *)
(* manifest at all, and is right because what a copy has made is stored.   *)
(***************************************************************************)
EXTENDS DagRun_proofs, WellFoundedInduction

\* Manifest n has the results that m has.
Keeps(m, n) ==
  \A s \in Assets :
    /\ m.steps[s].made # None => n.steps[s].made = m.steps[s].made
    /\ m.steps[s].status = "succeeded" => n.steps[s].status = "succeeded"

SamePlan(m, n) == \A s \in Assets : n.steps[s].before = m.steps[s].before

\* A step of run r has a record exactly when its status says so, and its own.
WellMade(r, m) ==
  \A s \in Assets :
    LET step == m.steps[s] IN
    /\ step.made # None => step.made.run = r /\ step.made.asset = s
    /\ step.status \in {"planned", "running", "blocked"} => step.made = None
    /\ step.status \in {"materialized", "succeeded"} => step.made # None

Empty(m) ==
  \A s \in Assets : m.steps[s].made = None /\ m.steps[s].status # "succeeded"

\* The copy of a driver that stands before the given step at position i, when
\* m is the stored manifest of its run r.
CopyHolds(r, m, copy, step, i) ==
  /\ WellMade(r, copy)
  /\ copy.revision <= m.revision
  /\ copy.revision = m.revision => Keeps(m, copy)
  /\ copy.revision # 0 => SamePlan(m, copy)
  /\ step \notin {"adopt", "release"} =>
       \A s \in Assets : copy.steps[s].made # None => m.steps[s].made = copy.steps[s].made
  /\ step \in {"loop"} \cup Working => copy.revision # 0
  /\ step \in Making => copy.steps[Order[i]].status = "running"
  /\ step \in Promoting => copy.steps[Order[i]].status = "materialized"

Stored ==
  \A r \in Runs :
    /\ WellMade(r, manifest[r])
    /\ manifest[r].revision = 0 => Empty(manifest[r])

Copies ==
  \A d \in Drivers : CopyHolds(Carries[d], manifest[Carries[d]], mine[d], pc[d], at[d])

CurrentStored ==
  \A s \in Assets : current[s] # Before(s) =>
    /\ current[s] # None /\ current[s].run \in Runs
    /\ manifest[current[s].run].steps[s].made = current[s]

KInv == LakeTyped /\ DriverTyped /\ Stored /\ Copies /\ CurrentStored

\* What a step may do to the stored manifests and the current pointers.
ManifestsKept == \A r \in Runs : Keeps(manifest[r], manifest'[r])
PromotionInOrder ==
  \A s \in Assets : current'[s] # current[s] =>
    /\ current'[s] # None /\ current'[s].run \in Runs
    /\ manifest[current'[s].run].steps[s].made = current'[s]
    /\ manifest[current'[s].run].steps[s].before = current[s]

-----------------------------------------------------------------------------
(* Facts about copies. *)

LEMMA KeepsTrans ==
  ASSUME NEW m, NEW n, NEW p, Keeps(m, n), Keeps(n, p)
  PROVE  Keeps(m, p)
BY DEF Keeps

\* A copy stays one when another driver saves over the stored manifest.
LEMMA StoreGrows ==
  ASSUME NEW r, NEW m \in Manifests, NEW n \in Manifests, NEW copy \in Manifests,
         NEW step, NEW i, CopyHolds(r, m, copy, step, i),
         Keeps(m, n), m.revision < n.revision, m.revision # 0 => SamePlan(m, n)
  PROVE  CopyHolds(r, n, copy, step, i)
<1>1. m.revision \in Nat /\ n.revision \in Nat /\ copy.revision \in Nat
  BY FieldsTyped
<1>2. copy.revision <= n.revision /\ copy.revision # n.revision
  BY <1>1 DEF CopyHolds
<1>3. copy.revision # 0 => SamePlan(n, copy)
  <2>1. copy.revision # 0 => m.revision # 0
    BY <1>1 DEF CopyHolds
  <2> QED BY <2>1 DEF CopyHolds, SamePlan
<1>4. step \notin {"adopt", "release"} =>
        \A s \in Assets : copy.steps[s].made # None => n.steps[s].made = copy.steps[s].made
  BY DEF CopyHolds, Keeps
<1> QED BY <1>2, <1>3, <1>4 DEF CopyHolds

\* What was read or saved is a copy.
LEMMA CopyOfStored ==
  ASSUME NEW r, NEW m \in Manifests, NEW step, NEW i, WellMade(r, m),
         step \in {"loop"} \cup Working => m.revision # 0,
         step \in Making => m.steps[Order[i]].status = "running",
         step \notin Promoting
  PROVE  CopyHolds(r, m, m, step, i)
<1>1. m.revision <= m.revision
  BY FieldsTyped
<1>2. Keeps(m, m) /\ SamePlan(m, m)
  BY DEF Keeps, SamePlan
<1> QED BY <1>1, <1>2 DEF CopyHolds

\* A copy that is changed and not yet saved.
LEMMA CopyChanged ==
  ASSUME NEW r, NEW m \in Manifests, NEW copy \in Manifests, NEW new \in Manifests,
         NEW old, NEW step, NEW i, NEW j, CopyHolds(r, m, copy, old, j),
         new.revision = copy.revision, WellMade(r, new),
         Keeps(copy, new), SamePlan(copy, new),
         \/ step = "adopt"
         \/ old \notin {"adopt", "release"} /\ step = "open"
              /\ \A s \in Assets : new.steps[s].made \in {copy.steps[s].made, None}
  PROVE  CopyHolds(r, m, new, step, i)
<1>1. copy.revision = m.revision => Keeps(m, new)
  BY KeepsTrans DEF CopyHolds
<1>2. copy.revision # 0 => SamePlan(m, new)
  BY DEF CopyHolds, SamePlan
<1>3. step \notin {"adopt", "release"} =>
        \A s \in Assets : new.steps[s].made # None => m.steps[s].made = new.steps[s].made
  BY DEF CopyHolds
<1>4. step \notin {"loop"} \cup Working
  BY DEF Working, Making, Promoting
<1> QED BY <1>1, <1>2, <1>3, <1>4 DEF CopyHolds, Working

\* A driver that has ended has the empty copy.
LEMMA CopyOfNothing ==
  ASSUME NEW r, NEW m \in Manifests, NEW i, m.revision = 0 => Empty(m)
  PROVE  CopyHolds(r, m, Absent, "over", i)
<1>1. /\ Absent.revision = 0
      /\ \A s \in Assets : Absent.steps[s].made = None /\ Absent.steps[s].status = "skipped"
  BY DEF Absent, NewStep
<1>2. 0 <= m.revision
  BY FieldsTyped
<1>3. "over" \notin {"loop"} \cup Working
  BY DEF Working, Making, Promoting
<1>4. WellMade(r, Absent)
  BY <1>1 DEF WellMade
<1>5. m.revision = 0 => Keeps(m, Absent)
  BY DEF Keeps, Empty
<1> QED BY <1>1, <1>2, <1>3, <1>4, <1>5 DEF CopyHolds, Working

\* A driver whose copy is not touched may go on.
LEMMA CopyMoves ==
  ASSUME NEW r, NEW m, NEW copy, NEW old, NEW step, NEW i, NEW j,
         CopyHolds(r, m, copy, old, i),
         step = "release" \/ old \notin {"adopt", "release"},
         step \in {"loop"} \cup Working => copy.revision # 0,
         step \in Making => copy.steps[Order[j]].status = "running",
         step \in Promoting => copy.steps[Order[j]].status = "materialized"
  PROVE  CopyHolds(r, m, copy, step, j)
BY DEF CopyHolds

-----------------------------------------------------------------------------
(* Steps by kind. *)

\* A step that moves one driver and leaves the manifests alone.
LEMMA DriverMove ==
  ASSUME Copies, NEW d \in Drivers, UNCHANGED manifest,
         \A e \in Drivers \ {d} : mine'[e] = mine[e] /\ pc'[e] = pc[e] /\ at'[e] = at[e],
         CopyHolds(Carries[d], manifest[Carries[d]], mine'[d], pc'[d], at'[d])
  PROVE  Copies'
<1> SUFFICES ASSUME NEW e \in Drivers
             PROVE  CopyHolds(Carries[e], manifest'[Carries[e]], mine'[e], pc'[e], at'[e])
  BY DEF Copies
<1>1. CASE e = d
  BY <1>1
<1>2. CASE e # d
  BY <1>2 DEF Copies
<1> QED BY <1>1, <1>2

LEMMA StopKeeps ==
  ASSUME LakeTyped, DriverTyped, Stored, Copies, NEW d \in Drivers, Stop(d),
         UNCHANGED manifest
  PROVE  Copies'
<1>1. manifest[Carries[d]] \in Manifests
      /\ (manifest[Carries[d]].revision = 0 => Empty(manifest[Carries[d]]))
  BY DagAssumption DEF LakeTyped, Stored
<1>2. /\ mine' = [mine EXCEPT ![d] = Absent] /\ pc' = [pc EXCEPT ![d] = "over"]
      /\ at' = [at EXCEPT ![d] = 1]
  BY DEF Stop, GoTo
<1>3. mine'[d] = Absent /\ pc'[d] = "over"
      /\ \A e \in Drivers \ {d} : mine'[e] = mine[e] /\ pc'[e] = pc[e] /\ at'[e] = at[e]
  BY <1>2 DEF DriverTyped
<1>4. CopyHolds(Carries[d], manifest[Carries[d]], mine'[d], pc'[d], at'[d])
  BY <1>1, <1>3, CopyOfNothing
<1> QED BY <1>3, <1>4, DriverMove

LEMMA RaiseKeeps ==
  ASSUME LakeTyped, DriverTyped, Stored, Copies, NEW d \in Drivers, Raise(d),
         UNCHANGED manifest
  PROVE  Copies'
<1>1. CASE mine[d].lease = d
  <2>1. pc' = [pc EXCEPT ![d] = "release"] /\ UNCHANGED <<mine, at>>
    BY <1>1 DEF Raise, GoTo
  <2>2. pc'[d] = "release" /\ mine'[d] = mine[d] /\ at'[d] = at[d]
        /\ \A e \in Drivers \ {d} : mine'[e] = mine[e] /\ pc'[e] = pc[e] /\ at'[e] = at[e]
    BY <2>1 DEF DriverTyped
  <2>3. "release" \notin {"loop"} \cup Working /\ "release" \notin Making
        /\ "release" \notin Promoting
    BY DEF Working, Making, Promoting
  <2>4. CopyHolds(Carries[d], manifest[Carries[d]], mine[d], "release", at[d])
    BY <2>3, CopyMoves DEF Copies
  <2> QED BY <2>2, <2>4, DriverMove
<1>2. CASE mine[d].lease # d
  BY <1>2, StopKeeps DEF Raise
<1> QED BY <1>1, <1>2

\* A save of results no fewer than those of the copy.
LEMMA PersistKeeps ==
  ASSUME LakeTyped, DriverTyped, Stored, Copies, NEW d \in Drivers,
         NEW new \in Manifests, NEW step \in PcStates, NEW next \in 1 .. Len(Order) + 1,
         Persist(d, new, step, next),
         WellMade(Carries[d], new), Keeps(mine[d], new), SamePlan(mine[d], new),
         step \in Making => new.steps[Order[next]].status = "running",
         step \notin Promoting
  PROVE  Stored' /\ Copies' /\ ManifestsKept
<1> DEFINE r == Carries[d]
           saved == [new EXCEPT !.revision = mine[d].revision + 1]
<1>1. r \in Runs /\ mine[d] \in Manifests /\ manifest[r] \in Manifests
      /\ mine[d].revision \in Nat
  BY DagAssumption, FieldsTyped DEF DriverTyped, LakeTyped
<1>2. CASE manifest[r].revision = mine[d].revision
  <2>1. /\ manifest' = [manifest EXCEPT ![r] = saved]
        /\ mine' = [mine EXCEPT ![d] = saved]
        /\ at' = [at EXCEPT ![d] = next]
        /\ pc' = [pc EXCEPT ![d] = step]
    BY <1>2 DEF Persist, GoTo
  <2>2. /\ saved \in Manifests /\ saved.revision = manifest[r].revision + 1
        /\ saved.steps = new.steps
    BY <1>1, <1>2 DEF Manifests
  <2>3. Keeps(manifest[r], saved) /\ WellMade(r, saved)
    <3>1. Keeps(manifest[r], mine[d])
      BY <1>2 DEF Copies, CopyHolds
    <3>2. Keeps(manifest[r], new)
      BY <3>1, KeepsTrans
    <3> QED BY <2>2, <3>2 DEF Keeps, WellMade
  <2>4. manifest[r].revision # 0 => SamePlan(manifest[r], saved)
    <3>1. mine[d].revision # 0 => SamePlan(manifest[r], mine[d])
      BY DEF Copies, CopyHolds
    <3> QED BY <1>2, <2>2, <3>1 DEF SamePlan
  <2>5. manifest[r].revision < saved.revision /\ saved.revision # 0
    BY <1>1, <1>2, <2>2
  <2>6. /\ manifest'[r] = saved
        /\ \A q \in Runs \ {r} : manifest'[q] = manifest[q]
        /\ mine'[d] = saved /\ at'[d] = next /\ pc'[d] = step
        /\ \A e \in Drivers \ {d} : mine'[e] = mine[e] /\ pc'[e] = pc[e] /\ at'[e] = at[e]
    BY <1>1, <2>1 DEF LakeTyped, DriverTyped
  <2>7. ManifestsKept
    <3>1. ASSUME NEW q \in Runs, q # r PROVE Keeps(manifest[q], manifest'[q])
      BY <2>6, <3>1 DEF Keeps
    <3> QED BY <2>3, <2>6, <3>1 DEF ManifestsKept
  <2>8. Stored'
    BY <2>3, <2>5, <2>6 DEF Stored
  <2>9. ASSUME NEW e \in Drivers
        PROVE  CopyHolds(Carries[e], manifest'[Carries[e]], mine'[e], pc'[e], at'[e])
    <3>1. CASE e = d
      <4>1. step \in Making => saved.steps[Order[next]].status = "running"
        BY <2>2
      <4>2. CopyHolds(r, saved, saved, step, next)
        BY <2>2, <2>3, <2>5, <4>1, CopyOfStored
      <4> QED BY <2>6, <3>1, <4>2
    <3>2. CASE e # d
      <4>1. /\ mine'[e] = mine[e] /\ pc'[e] = pc[e] /\ at'[e] = at[e]
            /\ mine[e] \in Manifests /\ Carries[e] \in Runs
            /\ CopyHolds(Carries[e], manifest[Carries[e]], mine[e], pc[e], at[e])
        BY <2>6, <3>2, DagAssumption DEF Copies, DriverTyped
      <4>2. CASE Carries[e] = r
        <5>1. CopyHolds(r, saved, mine[e], pc[e], at[e])
          BY <1>1, <2>2, <2>3, <2>4, <2>5, <4>1, <4>2, StoreGrows
        <5> QED BY <2>6, <4>1, <4>2, <5>1
      <4>3. CASE Carries[e] # r
        BY <2>6, <4>1, <4>3
      <4> QED BY <4>2, <4>3
    <3> QED BY <3>1, <3>2
  <2> QED BY <2>7, <2>8, <2>9 DEF Copies
<1>3. CASE manifest[r].revision # mine[d].revision
  <2>1. Raise(d) /\ UNCHANGED manifest
    BY <1>3 DEF Persist
  <2>2. Copies'
    BY <2>1, RaiseKeeps
  <2> QED BY <2>1, <2>2 DEF Stored, ManifestsKept, Keeps
<1> QED BY <1>2, <1>3

\* The step that a driver in the loop stands at.
LEMMA HereKnown ==
  ASSUME DriverTyped, Copies, NEW d \in Drivers, at[d] <= Len(Order)
  PROVE  /\ Here(d) \in Assets /\ HereStep(d) \in Steps /\ mine[d] \in Manifests
         /\ HereStep(d) = mine[d].steps[Here(d)]
         /\ WellMade(Carries[d], mine[d])
         /\ HereStep(d).made # None =>
              HereStep(d).made.run = Carries[d] /\ HereStep(d).made.asset = Here(d)
         /\ HereStep(d).status \in {"planned", "running", "blocked"} => HereStep(d).made = None
         /\ HereStep(d).status = "materialized" => HereStep(d).made # None
         /\ pc[d] \in Making => HereStep(d).status = "running"
         /\ pc[d] \in Promoting => HereStep(d).status = "materialized"
<1>1. /\ Here(d) \in Assets /\ HereStep(d) \in Steps /\ mine[d] \in Manifests
      /\ HereStep(d) = mine[d].steps[Here(d)]
  BY HereTyped
<1>2. WellMade(Carries[d], mine[d])
  BY DEF Copies, CopyHolds
<1>3. /\ pc[d] \in Making => HereStep(d).status = "running"
      /\ pc[d] \in Promoting => HereStep(d).status = "materialized"
  BY <1>1 DEF Copies, CopyHolds, Here
<1> QED BY <1>1, <1>2, <1>3 DEF WellMade

\* What the step of an asset in a run may be changed to.
Follows(run, s, old, new) ==
  /\ new.before = old.before
  /\ old.status # "succeeded"
  /\ old.made # None => new.made = old.made
  /\ new.made # None => new.made.run = run /\ new.made.asset = s
  /\ new.status \in {"planned", "running", "blocked"} => new.made = None
  /\ new.status \in {"materialized", "succeeded"} => new.made # None

LEMMA SaveKeeps ==
  ASSUME LakeTyped, DriverTyped, Stored, Copies, NEW d \in Drivers, at[d] <= Len(Order),
         NEW step \in Steps, Follows(Carries[d], Here(d), HereStep(d), step),
         \/ SaveAndGoOn(d, step)
         \/ SaveAndStay(d, step, "loop")
         \/ /\ SaveAndStay(d, step, "execute") \/ SaveAndStay(d, step, "backoff")
            /\ step.status = "running"
  PROVE  Stored' /\ Copies' /\ ManifestsKept
<1> DEFINE new == With(mine[d], Here(d), step)
<1>1. /\ new \in Manifests /\ new.steps[Here(d)] = step
      /\ \A t \in Assets \ {Here(d)} : new.steps[t] = mine[d].steps[t]
      /\ Here(d) = Order[at[d]] /\ Here(d) \in Assets
      /\ HereStep(d) = mine[d].steps[Here(d)] /\ WellMade(Carries[d], mine[d])
      /\ at[d] + 1 \in 1 .. Len(Order) + 1 /\ at[d] \in 1 .. Len(Order) + 1
  BY HereTyped, HereKnown, WithTyped DEF Here
<1>2. WellMade(Carries[d], new)
  BY <1>1 DEF WellMade, Follows
<1>3. Keeps(mine[d], new) /\ SamePlan(mine[d], new)
  BY <1>1 DEF Keeps, SamePlan, Follows
<1>4. /\ {"loop", "execute", "backoff"} \subseteq PcStates
      /\ "loop" \notin Making
      /\ \A pcNext \in {"loop", "execute", "backoff"} : pcNext \notin Promoting
  BY DEF PcStates, Making, Promoting
<1>5. CASE SaveAndGoOn(d, step) \/ SaveAndStay(d, step, "loop")
  <2> HIDE DEF new
  <2>1. \E next \in 1 .. Len(Order) + 1 : Persist(d, new, "loop", next)
    BY <1>1, <1>5 DEF SaveAndGoOn, SaveAndStay, new
  <2> QED BY <1>1, <1>2, <1>3, <1>4, <2>1, PersistKeeps
<1>6. CASE /\ SaveAndStay(d, step, "execute") \/ SaveAndStay(d, step, "backoff")
           /\ step.status = "running"
  <2> HIDE DEF new
  <2>1. PICK pcNext \in {"execute", "backoff"} : Persist(d, new, pcNext, at[d])
    BY <1>6 DEF SaveAndStay, new
  <2>2. new.steps[Order[at[d]]].status = "running"
    BY <1>1, <1>6
  <2> QED BY <1>1, <1>2, <1>3, <1>4, <2>1, <2>2, PersistKeeps
<1> QED BY <1>5, <1>6

-----------------------------------------------------------------------------
(* Every step of a driver. *)

StepKeeps == Stored' /\ Copies' /\ ManifestsKept /\ PromotionInOrder

LEMMA ManifestUntouched ==
  ASSUME Stored, Copies', UNCHANGED <<manifest, current>>
  PROVE  StepKeeps
BY DEF StepKeeps, Stored, ManifestsKept, Keeps, PromotionInOrder

LEMMA KeptOnEntering ==
  ASSUME LakeTyped, DriverTyped, Stored, Copies, NEW d \in Drivers, Enter(d)
  PROVE  StepKeeps
<1> DEFINE r == Carries[d]
<1>1. /\ r \in Runs /\ manifest[r] \in Manifests /\ WellMade(r, manifest[r])
      /\ manifest[r].revision = 0 => Empty(manifest[r])
      /\ CopyHolds(r, manifest[r], mine[d], pc[d], at[d])
  BY DagAssumption DEF LakeTyped, Stored, Copies
<1>2. \A step \in {"open", "claim", "over"} :
        step \notin {"loop"} \cup Working /\ step \notin Making /\ step \notin Promoting
  BY DEF Working, Making, Promoting
<1>3. UNCHANGED <<manifest, current, at>> /\ pc[d] = "idle"
  BY DEF Enter, lakeVars, StandsAt
<1>4. PICK m \in Manifests, step \in {"open", "claim", "over"} :
        /\ mine' = [mine EXCEPT ![d] = m] /\ pc' = [pc EXCEPT ![d] = step]
        /\ CopyHolds(r, manifest[r], m, step, at[d])
  <2>1. CASE \E promote \in Promotes[r] :
               /\ mine' = [mine EXCEPT ![d] = FromPlan(r, promote)]
               /\ pc' = [pc EXCEPT ![d] = "open"]
    <3>1. PICK promote \in Promotes[r] :
               /\ mine' = [mine EXCEPT ![d] = FromPlan(r, promote)]
               /\ pc' = [pc EXCEPT ![d] = "open"]
      BY <2>1
    <3>2. promote \in BOOLEAN /\ DTypeOK
      BY <1>1, DagAssumption, TypeInvSplits DEF TypeInv
    <3>3. /\ FromPlan(r, promote).revision = 0 /\ FromPlan(r, promote) \in Manifests
          /\ \A s \in Assets :
               /\ FromPlan(r, promote).steps[s].made = None
               /\ FromPlan(r, promote).steps[s].status \in {"planned", "skipped"}
      BY <1>1, <3>2, PlanTyped
    <3>4. WellMade(r, FromPlan(r, promote))
      BY <3>3 DEF WellMade
    <3>5. manifest[r].revision = 0 => Keeps(manifest[r], FromPlan(r, promote))
      BY <1>1 DEF Keeps, Empty
    <3>6. 0 <= manifest[r].revision
      BY <1>1, FieldsTyped
    <3>7. CopyHolds(r, manifest[r], FromPlan(r, promote), "open", at[d])
      BY <1>2, <3>3, <3>4, <3>5, <3>6 DEF CopyHolds
    <3> QED BY <3>1, <3>3, <3>7
  <2>2. CASE /\ mine' = [mine EXCEPT ![d] = manifest[r]]
             /\ pc' = [pc EXCEPT ![d] = "claim"]
    <3>1. CopyHolds(r, manifest[r], manifest[r], "claim", at[d])
      BY <1>1, <1>2, CopyOfStored
    <3> QED BY <1>1, <2>2, <3>1
  <2>3. CASE mine' = mine /\ pc' = [pc EXCEPT ![d] = "over"]
    <3>1. CopyHolds(r, manifest[r], mine[d], "over", at[d])
      BY <1>1, <1>2, <1>3, CopyMoves
    <3>2. mine' = [mine EXCEPT ![d] = mine[d]] /\ mine[d] \in Manifests
      BY <2>3 DEF DriverTyped
    <3> QED BY <2>3, <3>1, <3>2
  <2> QED BY <2>1, <2>2, <2>3 DEF Enter, GoTo
<1>5. /\ mine'[d] = m /\ pc'[d] = step /\ at'[d] = at[d]
      /\ \A e \in Drivers \ {d} : mine'[e] = mine[e] /\ pc'[e] = pc[e] /\ at'[e] = at[e]
  BY <1>3, <1>4 DEF DriverTyped
<1>6. Copies'
  BY <1>3, <1>4, <1>5, DriverMove
<1> QED BY <1>3, <1>6, ManifestUntouched

LEMMA KeptOnClaiming ==
  ASSUME LakeTyped, DriverTyped, Stored, Copies, NEW d \in Drivers,
         Claim(d) \/ Adopt(d) \/ Open(d) \/ Finish(d)
  PROVE  StepKeeps
<1>1. /\ mine[d] \in Manifests /\ WellMade(Carries[d], mine[d])
      /\ at[d] \in 1 .. Len(Order) + 1 /\ 1 \in 1 .. Len(Order) + 1
  BY DagAssumption DEF DriverTyped, Copies, CopyHolds
<1>2. CASE Stop(d) /\ UNCHANGED manifest
  <2>1. UNCHANGED current
    BY DEF Claim, Adopt, Open, Finish
  <2> QED BY <1>2, <2>1, StopKeeps, ManifestUntouched
<1>3. CASE \E new \in Manifests, step \in {"recover", "prepare", "loop", "returned"},
              next \in 1 .. Len(Order) + 1 :
             new.steps = mine[d].steps /\ Persist(d, new, step, next)
  <2>1. PICK new \in Manifests, step \in {"recover", "prepare", "loop", "returned"},
             next \in 1 .. Len(Order) + 1 :
           new.steps = mine[d].steps /\ Persist(d, new, step, next)
    BY <1>3
  <2>2. WellMade(Carries[d], new) /\ Keeps(mine[d], new) /\ SamePlan(mine[d], new)
    BY <1>1, <2>1 DEF WellMade, Keeps, SamePlan
  <2>3. step \in PcStates /\ step \notin Making /\ step \notin Promoting
    BY DEF PcStates, Making, Promoting
  <2>4. Stored' /\ Copies' /\ ManifestsKept
    BY <2>1, <2>2, <2>3, PersistKeeps
  <2>5. UNCHANGED current
    BY DEF Claim, Adopt, Open, Finish
  <2> QED BY <2>4, <2>5 DEF StepKeeps, PromotionInOrder
<1>4. CASE Claim(d)
  <2>1. [mine[d] EXCEPT !.lease = d] \in Manifests
        /\ [mine[d] EXCEPT !.lease = d].steps = mine[d].steps
    BY <1>1 DEF Manifests
  <2> QED BY <1>1, <1>2, <1>3, <1>4, <2>1 DEF Claim
<1>5. CASE Adopt(d) \/ Open(d)
  BY <1>1, <1>3, <1>5 DEF Adopt, Open
<1>6. CASE Finish(d)
  <2>1. [mine[d] EXCEPT !.status = Verdict(mine[d]), !.lease = None] \in Manifests
        /\ [mine[d] EXCEPT !.status = Verdict(mine[d]), !.lease = None].steps = mine[d].steps
    BY <1>1 DEF Manifests, Verdict, RunStatuses
  <2> QED BY <1>1, <1>3, <1>6, <2>1 DEF Finish
<1> QED BY <1>4, <1>5, <1>6

\* A step that changes the copy of a driver without saving it.
LEMMA KeptByChange ==
  ASSUME LakeTyped, DriverTyped, Stored, Copies, NEW d \in Drivers,
         NEW new \in Manifests, NEW step \in {"adopt", "open"},
         mine' = [mine EXCEPT ![d] = new], pc' = [pc EXCEPT ![d] = step],
         UNCHANGED <<manifest, current, at>>,
         new.revision = mine[d].revision, WellMade(Carries[d], new),
         Keeps(mine[d], new), SamePlan(mine[d], new),
         \/ step = "adopt"
         \/ /\ pc[d] \notin {"adopt", "release"}
            /\ \A s \in Assets : new.steps[s].made \in {mine[d].steps[s].made, None}
  PROVE  StepKeeps
<1>1. /\ mine[d] \in Manifests /\ manifest[Carries[d]] \in Manifests
      /\ CopyHolds(Carries[d], manifest[Carries[d]], mine[d], pc[d], at[d])
  BY DagAssumption DEF DriverTyped, LakeTyped, Copies
<1>2. CopyHolds(Carries[d], manifest[Carries[d]], new, step, at[d])
  BY <1>1, CopyChanged
<1>3. /\ mine'[d] = new /\ pc'[d] = step /\ at'[d] = at[d]
      /\ \A e \in Drivers \ {d} : mine'[e] = mine[e] /\ pc'[e] = pc[e] /\ at'[e] = at[e]
  BY DEF DriverTyped
<1>4. Copies'
  BY <1>2, <1>3, DriverMove
<1> QED BY <1>4, ManifestUntouched

\* Preparing a copy drops no result.
LEMMA PreparedKeeps ==
  ASSUME NEW r, NEW m \in Manifests, WellMade(r, m)
  PROVE  /\ Prepared(m) \in Manifests /\ Prepared(m).revision = m.revision
         /\ WellMade(r, Prepared(m)) /\ Keeps(m, Prepared(m)) /\ SamePlan(m, Prepared(m))
         /\ \A s \in Assets : Prepared(m).steps[s].made \in {m.steps[s].made, None}
<1>1. /\ Prepared(m) \in Manifests /\ Prepared(m).revision = m.revision
  BY PreparedTyped
<1>2. ASSUME NEW s \in Assets
      PROVE  LET old == m.steps[s]
                 new == Prepared(m).steps[s]
             IN /\ new.before = old.before
                /\ \/ new = old
                   \/ /\ old.status = "failed" /\ old.made # None
                      /\ new.made = old.made /\ new.status = "materialized"
                   \/ /\ old.made = None /\ old.status # "succeeded"
                      /\ new.made = None /\ new.status = "planned"
  <2>1. /\ m.steps[s].status \in {"planned", "running", "blocked"} => m.steps[s].made = None
        /\ m.steps[s].status \in StepStatuses
    BY <1>2, FieldsTyped DEF WellMade
  <2> QED BY <1>2, <2>1, PreparedTyped DEF StepStatuses
<1>3. Keeps(m, Prepared(m)) /\ SamePlan(m, Prepared(m))
  BY <1>2 DEF Keeps, SamePlan
<1>4. WellMade(r, Prepared(m))
  BY <1>2 DEF WellMade
<1>5. \A s \in Assets : Prepared(m).steps[s].made \in {m.steps[s].made, None}
  BY <1>2
<1> QED BY <1>1, <1>3, <1>4, <1>5

LEMMA KeptOnPreparing ==
  ASSUME LakeTyped, DriverTyped, Stored, Copies, NEW d \in Drivers,
         Prepare(d) \/ Recover(d)
  PROVE  StepKeeps
<1>1. /\ mine[d] \in Manifests /\ WellMade(Carries[d], mine[d])
      /\ pc[d] \in {"prepare", "recover"} /\ UNCHANGED <<manifest, current>>
  BY DEF DriverTyped, Copies, CopyHolds, Prepare, Recover, StandsAt, lakeVars
<1>2. CASE /\ mine' = [mine EXCEPT ![d] = Prepared(mine[d])]
           /\ pc' = [pc EXCEPT ![d] = "open"] /\ UNCHANGED at
  BY <1>1, <1>2, PreparedKeeps, KeptByChange
<1>3. CASE \E s \in RunningSteps(mine[d]) :
             \E rec \in Candidates(Carries[d], s, mine[d].steps[s].attempts) :
               /\ mine' = [mine EXCEPT ![d] =
                    With(mine[d], s, [mine[d].steps[s] EXCEPT !.status = "materialized",
                                                  !.made = rec.id,
                                                  !.open = FALSE])]
               /\ pc' = [pc EXCEPT ![d] = "adopt"]
               /\ UNCHANGED at
  <2>1. PICK s \in RunningSteps(mine[d]) :
             \E rec \in Candidates(Carries[d], s, mine[d].steps[s].attempts) :
               /\ mine' = [mine EXCEPT ![d] =
                    With(mine[d], s, [mine[d].steps[s] EXCEPT !.status = "materialized",
                                                  !.made = rec.id,
                                                  !.open = FALSE])]
               /\ pc' = [pc EXCEPT ![d] = "adopt"]
               /\ UNCHANGED at
    BY <1>3
  <2>2. PICK rec \in Candidates(Carries[d], s, mine[d].steps[s].attempts) :
               /\ mine' = [mine EXCEPT ![d] =
                    With(mine[d], s, [mine[d].steps[s] EXCEPT !.status = "materialized",
                                                  !.made = rec.id,
                                                  !.open = FALSE])]
               /\ pc' = [pc EXCEPT ![d] = "adopt"]
               /\ UNCHANGED at
    BY <2>1
  <2> DEFINE step == [mine[d].steps[s] EXCEPT !.status = "materialized", !.made = rec.id,
                                              !.open = FALSE]
             new == With(mine[d], s, step)
  <2>3. /\ s \in Assets /\ mine[d].steps[s] \in Steps /\ mine[d].steps[s].made = None
        /\ mine[d].steps[s].status = "running"
        /\ rec.id \in RecordIds /\ rec.id.run = Carries[d] /\ rec.id.asset = s /\ rec.id # None
    BY <1>1, FieldsTyped, DagAssumption
       DEF RunningSteps, Candidates, LakeTyped, WellMade, Status
  <2>4. /\ step \in Steps /\ step.before = mine[d].steps[s].before
        /\ step.made = rec.id /\ step.status = "materialized"
    <3>1. mine[d].steps[s] \in Steps /\ rec.id \in RecordIds
      BY <2>3
    <3> QED BY <3>1, StepsTyped DEF Steps
  <2>5. /\ new \in Manifests /\ new.revision = mine[d].revision /\ new.steps[s] = step
        /\ \A t \in Assets \ {s} : new.steps[t] = mine[d].steps[t]
    BY <1>1, <2>3, <2>4, WithTyped
  <2> HIDE DEF step, new
  <2>6. WellMade(Carries[d], new)
    BY <1>1, <2>3, <2>4, <2>5 DEF WellMade
  <2>7. Keeps(mine[d], new) /\ SamePlan(mine[d], new)
    BY <2>3, <2>4, <2>5 DEF Keeps, SamePlan
  <2> QED BY <1>1, <2>2, <2>5, <2>6, <2>7, KeptByChange DEF step, new
<1>4. CASE Raise(d)
  BY <1>1, <1>4, RaiseKeeps, ManifestUntouched
<1> QED BY <1>2, <1>3, <1>4 DEF Prepare, Recover, GoTo

\* The saves of the loop.
LEMMA KeptOnSaving ==
  ASSUME LakeTyped, DriverTyped, Stored, Copies, NEW d \in Drivers,
         \/ BlockStep(d) \/ SkipStep(d) \/ StartAttempt(d) \/ RetryLater(d) \/ FailStep(d)
         \/ SaveMaterialized(d) \/ SkipPromotion(d) \/ SavePromoted(d) \/ SaveUnpromoted(d)
  PROVE  StepKeeps
<1>1. at[d] <= Len(Order) /\ UNCHANGED current
  BY DEF BlockStep, SkipStep, StartAttempt, RetryLater, FailStep,
         SaveMaterialized, SkipPromotion, SavePromoted, SaveUnpromoted,
         Looping, StandsAt, DriverTyped, Working, Making, Promoting
<1> DEFINE old == HereStep(d)
<1>2. /\ Here(d) \in Assets /\ old \in Steps /\ Carries[d] \in Runs
      /\ old.made # None => old.made.run = Carries[d] /\ old.made.asset = Here(d)
      /\ old.status \in {"planned", "running", "blocked"} => old.made = None
      /\ old.status = "materialized" => old.made # None
      /\ pc[d] \in {"backoff", "failing", "materialized"} => old.status = "running"
      /\ pc[d] \in {"promoted", "unpromoted"} => old.status = "materialized"
  BY <1>1, HereKnown, DagAssumption DEF Making, Promoting
<1> SUFFICES Stored' /\ Copies' /\ ManifestsKept
  BY <1>1 DEF StepKeeps, PromotionInOrder
<1>3. CASE BlockStep(d) \/ SkipStep(d) \/ FailStep(d) \/ SkipPromotion(d)
           \/ SavePromoted(d) \/ SaveUnpromoted(d)
  <2>1. \E step \in Steps : Follows(Carries[d], Here(d), old, step) /\ SaveAndGoOn(d, step)
    <3>1. CASE BlockStep(d)
      <4>1. Follows(Carries[d], Here(d), old, [old EXCEPT !.status = "blocked"])
        BY <1>2, <3>1 DEF BlockStep, Follows, Steps
      <4> QED BY <1>2, <3>1, <4>1, StepsTyped DEF BlockStep, StepStatuses
    <3>2. CASE SkipStep(d)
      <4>1. Follows(Carries[d], Here(d), old, [old EXCEPT !.status = "skipped"])
        BY <1>2, <3>2 DEF SkipStep, Follows, Steps
      <4> QED BY <1>2, <3>2, <4>1, StepsTyped DEF SkipStep, StepStatuses
    <3>3. CASE FailStep(d)
      <4>1. Follows(Carries[d], Here(d), old, [old EXCEPT !.status = "failed", !.open = FALSE])
        BY <1>2, <3>3 DEF FailStep, StandsAt, Follows, Steps
      <4> QED BY <1>2, <3>3, <4>1, StepsTyped DEF FailStep, StepStatuses
    <3>4. CASE SkipPromotion(d) \/ SavePromoted(d)
      <4>1. Follows(Carries[d], Here(d), old, [old EXCEPT !.status = "succeeded"])
        BY <1>2, <3>4 DEF SkipPromotion, SavePromoted, StandsAt, Follows, Steps
      <4> QED BY <1>2, <3>4, <4>1, StepsTyped DEF SkipPromotion, SavePromoted, StepStatuses
    <3>5. CASE SaveUnpromoted(d)
      <4>1. Follows(Carries[d], Here(d), old, [old EXCEPT !.status = "failed"])
        BY <1>2, <3>5 DEF SaveUnpromoted, StandsAt, Follows, Steps
      <4> QED BY <1>2, <3>5, <4>1, StepsTyped DEF SaveUnpromoted, StepStatuses
    <3> QED BY <1>3, <3>1, <3>2, <3>3, <3>4, <3>5
  <2> QED BY <1>1, <2>1, SaveKeeps
<1>4. CASE StartAttempt(d)
  <2> DEFINE step == [old EXCEPT !.status = "running", !.attempts = @ + 1, !.open = TRUE]
  <2>1. step \in Steps /\ step.status = "running" /\ SaveAndStay(d, step, "execute")
    BY <1>2, <1>4, StepsTyped DEF StartAttempt, Steps
  <2>2. Follows(Carries[d], Here(d), old, step)
    BY <1>2, <1>4 DEF StartAttempt, StandsAt, Follows, Steps
  <2> HIDE DEF step
  <2> QED BY <1>1, <2>1, <2>2, SaveKeeps
<1>5. CASE RetryLater(d)
  <2> DEFINE step == [old EXCEPT !.open = FALSE]
  <2>1. /\ step \in Steps /\ step.status = old.status /\ SaveAndStay(d, step, "backoff")
        /\ old.status = "running"
    BY <1>2, <1>5, StepsTyped DEF RetryLater, StandsAt, Steps
  <2>2. Follows(Carries[d], Here(d), old, step)
    BY <1>2, <2>1 DEF Follows, Steps
  <2> HIDE DEF step
  <2> QED BY <1>1, <2>1, <2>2, SaveKeeps
<1>6. CASE SaveMaterialized(d)
  <2> DEFINE id == Made(Carries[d], Here(d), old.attempts)
             step == [old EXCEPT !.status = "materialized", !.made = id, !.open = FALSE]
  <2>1. id \in RecordIds /\ id.run = Carries[d] /\ id.asset = Here(d) /\ id # None
    BY <1>2, DagAssumption DEF Made, RecordIds, Steps
  <2>2. step \in Steps /\ SaveAndStay(d, step, "loop")
    BY <1>2, <1>6, <2>1, StepsTyped DEF SaveMaterialized
  <2>3. Follows(Carries[d], Here(d), old, step)
    BY <1>2, <1>6, <2>1 DEF SaveMaterialized, StandsAt, Follows, Steps
  <2> HIDE DEF step
  <2> QED BY <1>1, <2>2, <2>3, SaveKeeps
<1> QED BY <1>3, <1>4, <1>5, <1>6

\* The steps that touch neither the copy nor its run's manifest.
LEMMA KeptOnMoving ==
  ASSUME LakeTyped, DriverTyped, Stored, Copies, NEW d \in Drivers,
         PassStep(d) \/ Materialize(d) \/ FailAttempt(d)
  PROVE  StepKeeps
<1>1. CopyHolds(Carries[d], manifest[Carries[d]], mine[d], pc[d], at[d])
  BY DEF Copies
<1>2. UNCHANGED <<manifest, current, mine>>
  BY DEF PassStep, Materialize, FailAttempt, lakeVars
<1>3. CASE PassStep(d)
  <2>1. /\ pc[d] = "loop" /\ pc' = pc /\ at' = [at EXCEPT ![d] = @ + 1]
    BY <1>3 DEF PassStep, Looping, StandsAt
  <2>2. /\ \A e \in Drivers \ {d} : mine'[e] = mine[e] /\ pc'[e] = pc[e] /\ at'[e] = at[e]
        /\ mine'[d] = mine[d] /\ pc'[d] = "loop" /\ at'[d] = at[d] + 1
    BY <1>2, <2>1 DEF DriverTyped
  <2>3. "loop" \notin Making /\ "loop" \notin Promoting /\ mine[d].revision # 0
    BY <1>1, <2>1 DEF CopyHolds, Making, Promoting
  <2>4. CopyHolds(Carries[d], manifest[Carries[d]], mine[d], "loop", at[d] + 1)
    BY <1>1, <2>1, <2>3, CopyMoves
  <2>5. Copies'
    BY <1>2, <2>2, <2>4, DriverMove
  <2> QED BY <1>2, <2>5, ManifestUntouched
<1>4. CASE Materialize(d) \/ FailAttempt(d)
  <2>1. PICK step \in {"materialized", "failing"} :
          pc[d] = "execute" /\ pc' = [pc EXCEPT ![d] = step] /\ at' = at
    BY <1>4 DEF Materialize, FailAttempt, StandsAt, GoTo
  <2>2. /\ \A e \in Drivers \ {d} : mine'[e] = mine[e] /\ pc'[e] = pc[e] /\ at'[e] = at[e]
        /\ mine'[d] = mine[d] /\ pc'[d] = step /\ at'[d] = at[d]
    BY <1>2, <2>1 DEF DriverTyped
  <2>3. /\ pc[d] \in Making /\ pc[d] \in Working /\ step \notin Promoting
        /\ mine[d].revision # 0
        /\ mine[d].steps[Order[at[d]]].status = "running"
    BY <1>1, <2>1 DEF CopyHolds, Making, Promoting, Working
  <2>4. CopyHolds(Carries[d], manifest[Carries[d]], mine[d], step, at[d])
    BY <1>1, <2>1, <2>3, CopyMoves
  <2>5. Copies'
    BY <1>2, <2>2, <2>4, DriverMove
  <2> QED BY <1>2, <2>5, ManifestUntouched
<1> QED BY <1>3, <1>4

\* What trying a promotion changes.
LEMMA PromotionMoves ==
  ASSUME DriverTyped, NEW d \in Drivers, TryPromotion(d)
  PROVE  /\ UNCHANGED <<manifest, records, mine, at>>
         /\ pc[d] = "loop"
         /\ \E step \in {"loop", "promoted", "unpromoted"} : pc' = [pc EXCEPT ![d] = step]
         /\ \/ UNCHANGED current
            \/ /\ current' = [current EXCEPT ![Here(d)] = HereStep(d).made]
               /\ current[Here(d)] \in {HereStep(d).before, HereStep(d).made}
BY DEF TryPromotion, Promote, LosePromotion, FailPromotion, ToPromote, Swappable, Swap,
       Looping, StandsAt, GoTo, DriverTyped

\* A promotion is of the stored record, over the record of the stored plan.
LEMMA KeptOnPromoting ==
  ASSUME LakeTyped, DriverTyped, Stored, Copies, NEW d \in Drivers, TryPromotion(d)
  PROVE  StepKeeps
<1> DEFINE r == Carries[d]
           s == Here(d)
<1>1. pc[d] = "loop" /\ at[d] <= Len(Order) /\ HereStep(d).status = "materialized"
  BY DEF TryPromotion, Promote, LosePromotion, FailPromotion, ToPromote, Looping, StandsAt
<1>2. /\ s \in Assets /\ HereStep(d) = mine[d].steps[s] /\ HereStep(d).made # None
      /\ HereStep(d).made.run = r /\ r \in Runs /\ s = Order[at[d]]
  BY <1>1, HereKnown, DagAssumption DEF Here
<1>3. CopyHolds(r, manifest[r], mine[d], "loop", at[d])
  BY <1>1 DEF Copies
<1>4. PICK step \in {"loop", "promoted", "unpromoted"} :
        pc' = [pc EXCEPT ![d] = step] /\ UNCHANGED <<manifest, mine, at>>
  BY PromotionMoves
<1>5. Copies'
  <2>1. /\ \A e \in Drivers \ {d} : mine'[e] = mine[e] /\ pc'[e] = pc[e] /\ at'[e] = at[e]
        /\ mine'[d] = mine[d] /\ pc'[d] = step /\ at'[d] = at[d]
    BY <1>4 DEF DriverTyped
  <2>2. mine[d].revision # 0 /\ mine[d].steps[Order[at[d]]].status = "materialized"
        /\ step \notin Making
    BY <1>1, <1>2, <1>3 DEF CopyHolds, Making
  <2>3. CopyHolds(r, manifest[r], mine[d], step, at[d])
    BY <1>3, <2>2, CopyMoves
  <2> QED BY <1>4, <2>1, <2>3, DriverMove
<1>6. PromotionInOrder
  <2> SUFFICES ASSUME NEW t \in Assets, current'[t] # current[t]
               PROVE  /\ current'[t] # None /\ current'[t].run \in Runs
                      /\ manifest[current'[t].run].steps[t].made = current'[t]
                      /\ manifest[current'[t].run].steps[t].before = current[t]
    BY DEF PromotionInOrder
  <2>1. /\ current' = [current EXCEPT ![s] = HereStep(d).made]
        /\ current[s] \in {HereStep(d).before, HereStep(d).made}
    BY PromotionMoves
  <2>2. t = s /\ current'[s] = HereStep(d).made /\ current[s] = HereStep(d).before
    BY <1>2, <2>1 DEF LakeTyped
  <2>3. manifest[r].steps[s].made = HereStep(d).made
    BY <1>2, <1>3 DEF CopyHolds
  <2>4. manifest[r].steps[s].before = HereStep(d).before
    BY <1>2, <1>3 DEF CopyHolds, SamePlan
  <2> QED BY <1>2, <2>2, <2>3, <2>4
<1>7. Stored' /\ ManifestsKept
  BY <1>4 DEF Stored, ManifestsKept, Keeps
<1> QED BY <1>5, <1>6, <1>7 DEF StepKeeps

\* Ending a run, in order or not.
LEMMA KeptOnEnding ==
  ASSUME LakeTyped, DriverTyped, Stored, Copies, NEW d \in Drivers,
         Record(d) \/ Fail(d) \/ Crash(d)
  PROVE  StepKeeps
<1>1. /\ UNCHANGED <<manifest, current>>
      /\ Stop(d) \/ Raise(d)
  BY DEF Record, Fail, Crash, lakeVars
<1> QED BY <1>1, StopKeeps, RaiseKeeps, ManifestUntouched

LEMMA ReleasedTyped ==
  ASSUME NEW m \in Manifests
  PROVE  LET saved == [m EXCEPT !.lease = None, !.revision = @ + 1] IN
         /\ saved \in Manifests /\ saved.revision = m.revision + 1
         /\ saved.steps = m.steps
<1>1. m.revision + 1 \in Nat
  BY FieldsTyped
<1> QED BY <1>1 DEF Manifests

\* Releasing a lease saves the stored manifest, not the copy.
LEMMA KeptOnReleasing ==
  ASSUME LakeTyped, DriverTyped, Stored, Copies, NEW d \in Drivers, Release(d)
  PROVE  StepKeeps
<1> DEFINE r == Carries[d]
           saved == [manifest[r] EXCEPT !.lease = None, !.revision = @ + 1]
<1>1. /\ r \in Runs /\ manifest[r] \in Manifests /\ manifest[r].revision \in Nat
      /\ UNCHANGED current /\ Stop(d) /\ WellMade(r, manifest[r])
  BY DagAssumption, FieldsTyped DEF LakeTyped, Release, Stored
<1>2. CASE manifest[r].lease = d
  <2>1. /\ saved \in Manifests /\ saved.revision = manifest[r].revision + 1
        /\ saved.steps = manifest[r].steps
    BY <1>1, ReleasedTyped
  <2>2. manifest' = [manifest EXCEPT ![r] = saved]
    BY <1>1, <1>2 DEF Release, LakeTyped
  <2> HIDE DEF saved
  <2>3. /\ Keeps(manifest[r], saved) /\ SamePlan(manifest[r], saved) /\ WellMade(r, saved)
        /\ manifest[r].revision < saved.revision /\ saved.revision # 0
    BY <1>1, <2>1 DEF Keeps, SamePlan, WellMade
  <2>4. /\ manifest'[r] = saved
        /\ \A q \in Runs \ {r} : manifest'[q] = manifest[q]
    BY <1>1, <2>2 DEF LakeTyped
  <2>5. /\ mine'[d] = Absent /\ pc'[d] = "over"
        /\ \A e \in Drivers \ {d} : mine'[e] = mine[e] /\ pc'[e] = pc[e] /\ at'[e] = at[e]
    BY <1>1 DEF Stop, GoTo, DriverTyped
  <2>6. ManifestsKept
    <3>1. ASSUME NEW q \in Runs, q # r PROVE Keeps(manifest[q], manifest'[q])
      BY <2>4, <3>1 DEF Keeps
    <3> QED BY <2>3, <2>4, <3>1 DEF ManifestsKept
  <2>7. Stored'
    BY <2>3, <2>4 DEF Stored
  <2>8. ASSUME NEW e \in Drivers
        PROVE  CopyHolds(Carries[e], manifest'[Carries[e]], mine'[e], pc'[e], at'[e])
    <3>1. CASE e = d
      <4>1. CopyHolds(r, saved, Absent, "over", at'[d])
        BY <2>1, <2>3, CopyOfNothing
      <4> QED BY <2>4, <2>5, <3>1, <4>1
    <3>2. CASE e # d
      <4>1. /\ mine'[e] = mine[e] /\ pc'[e] = pc[e] /\ at'[e] = at[e]
            /\ mine[e] \in Manifests /\ Carries[e] \in Runs
            /\ CopyHolds(Carries[e], manifest[Carries[e]], mine[e], pc[e], at[e])
        BY <2>5, <3>2, DagAssumption DEF Copies, DriverTyped
      <4>2. CASE Carries[e] = r
        <5>1. CopyHolds(r, saved, mine[e], pc[e], at[e])
          BY <1>1, <2>1, <2>3, <4>1, <4>2, StoreGrows
        <5> QED BY <2>4, <4>1, <4>2, <5>1
      <4>3. CASE Carries[e] # r
        BY <2>4, <4>1, <4>3
      <4> QED BY <4>2, <4>3
    <3> QED BY <3>1, <3>2
  <2> QED BY <1>1, <2>6, <2>7, <2>8 DEF Copies, StepKeeps, PromotionInOrder
<1>3. CASE manifest[r].lease # d
  <2>1. UNCHANGED manifest
    BY <1>3 DEF Release
  <2> QED BY <1>1, <2>1, StopKeeps, ManifestUntouched
<1> QED BY <1>2, <1>3

-----------------------------------------------------------------------------
(* The invariant. *)

LEMMA StepsKeep ==
  ASSUME KInv, [Next]_dagVars
  PROVE  StepKeeps
<1>1. CASE UNCHANGED dagVars
  BY <1>1 DEF dagVars, lakeVars, driverVars, KInv, StepKeeps, Stored, Copies,
              ManifestsKept, Keeps, PromotionInOrder
<1>2. ASSUME NEW d \in Drivers, Enter(d) \/ Step(d) \/ Fail(d) \/ Crash(d)
      PROVE  StepKeeps
  BY <1>2, KeptOnEntering, KeptOnClaiming, KeptOnPreparing, KeptOnSaving,
     KeptOnMoving, KeptOnPromoting, KeptOnEnding, KeptOnReleasing
     DEF Step, TryPromotion, KInv
<1> QED BY <1>1, <1>2 DEF Next

\* A record that is current stays the stored one.
LEMMA CurrentStays ==
  ASSUME CurrentStored, ManifestsKept, PromotionInOrder
  PROVE  CurrentStored'
<1> SUFFICES ASSUME NEW s \in Assets, current'[s] # Before(s)
             PROVE  /\ current'[s] # None /\ current'[s].run \in Runs
                    /\ manifest'[current'[s].run].steps[s].made = current'[s]
  BY DEF CurrentStored, Before
<1>1. /\ current'[s] # None /\ current'[s].run \in Runs
      /\ manifest[current'[s].run].steps[s].made = current'[s]
  BY DEF CurrentStored, PromotionInOrder
<1> QED BY <1>1 DEF ManifestsKept, Keeps

LEMMA InitKeeps == Init => KInv
<1> SUFFICES ASSUME Init PROVE KInv
  OBVIOUS
<1>1. LakeTyped /\ DriverTyped
  BY InitTypes, TypeInvSplits
<1>2. Absent \in Manifests /\ Absent.revision = 0
      /\ \A s \in Assets : Absent.steps[s].made = None /\ Absent.steps[s].status = "skipped"
  BY DEF Absent, NewStep, Manifests, Steps, RunStatuses, StepStatuses
<1>3. Stored
  BY <1>2 DEF Init, Stored, WellMade, Empty
<1>4. ASSUME NEW d \in Drivers
      PROVE  CopyHolds(Carries[d], manifest[Carries[d]], mine[d], pc[d], at[d])
  <2>1. /\ manifest[Carries[d]] = Absent /\ mine[d] = Absent /\ pc[d] = "idle"
    BY DagAssumption DEF Init
  <2>2. CopyHolds(Carries[d], Absent, Absent, "over", at[d])
    BY <1>2, CopyOfNothing DEF Empty
  <2>3. "idle" \notin {"loop"} \cup Working /\ "idle" \notin Making /\ "idle" \notin Promoting
    BY DEF Working, Making, Promoting
  <2>4. CopyHolds(Carries[d], Absent, Absent, "idle", at[d])
    BY <2>2, <2>3, CopyMoves
  <2> QED BY <2>1, <2>4
<1>5. CurrentStored
  BY DEF Init, CurrentStored
<1> QED BY <1>1, <1>3, <1>4, <1>5 DEF KInv, Copies

LEMMA KeepsStep == KInv /\ [Next]_dagVars => KInv'
<1> SUFFICES ASSUME KInv, [Next]_dagVars PROVE KInv'
  OBVIOUS
<1>1. LakeTyped' /\ DriverTyped'
  <2>1. TypeInv' <=> LakeTyped' /\ DriverTyped'
    BY TypeInvSplits, PTL
  <2> QED BY <2>1, TypeInvSplits, TypesStep DEF KInv
<1>2. StepKeeps
  BY StepsKeep
<1> QED BY <1>1, <1>2, CurrentStays DEF KInv, StepKeeps

-----------------------------------------------------------------------------
\* What a stored manifest has of a step's result is never lost or replaced,
\* whichever of a run's drivers saves, fails or resumes.
THEOREM ResultsAreKeptHolds == Spec => ResultsAreKept
<1>1. KInv /\ [Next]_dagVars =>
        [\A r \in Runs, s \in Assets :
           LET old == manifest[r].steps[s]
               new == manifest'[r].steps[s]
           IN /\ old.made # None => new.made = old.made
              /\ old.status = "succeeded" => new.status = "succeeded"]_manifest
  BY StepsKeep DEF StepKeeps, ManifestsKept, Keeps
<1> QED BY <1>1, InitKeeps, KeepsStep, PTL DEF Spec, ResultsAreKept

\* A record that a run promotes replaces the record that run was planned on,
\* also when the promoting driver has been deposed.
THEOREM PromotedOnItsPlanHolds == Spec => PromotedOnItsPlan
<1>1. KInv /\ [Next]_dagVars =>
        [\A s \in Assets :
           current'[s] # current[s] =>
             manifest[current'[s].run].steps[s].before = current[s]]_current
  BY StepsKeep DEF StepKeeps, PromotionInOrder
<1> QED BY <1>1, InitKeeps, KeepsStep, PTL DEF Spec, PromotedOnItsPlan

\* A record that a run has made current is the one its stored manifest names.
THEOREM CurrentIsRecordedHolds == Spec => []CurrentIsRecorded
<1>1. KInv => CurrentIsRecorded
  BY DEF KInv, CurrentStored, CurrentIsRecorded
<1> QED BY <1>1, InitKeeps, KeepsStep, PTL DEF Spec

-----------------------------------------------------------------------------
(* The steps of a driver by what they do to its copy. *)

Alone(d) ==
  \A e \in Drivers \ {d} : mine'[e] = mine[e] /\ pc'[e] = pc[e] /\ at'[e] = at[e]

\* What becomes of one step in a copy.
Goes(old, new) == new.before = old.before /\ old.attempts <= new.attempts

\* A driver is gone, or has nothing to do.  It may have dropped its lease.
Ended(d) ==
  /\ UNCHANGED <<records, current>>
  /\ pc'[d] \in Over
  /\ mine'[d] = Absent \/ (mine'[d] = mine[d] /\ pc[d] = "idle")
  /\ \A r \in Runs :
       /\ manifest'[r].steps = manifest[r].steps
       /\ manifest'[r].status = manifest[r].status
       /\ \/ manifest'[r] = manifest[r]
          \/ /\ manifest[r].lease = d
             /\ manifest'[r].revision = manifest[r].revision + 1

\* It has planned or read the run.
Entered(d) ==
  /\ UNCHANGED <<manifest, records, current>>
  /\ \/ /\ pc'[d] = "open" /\ manifest[Carries[d]].status = "absent"
        /\ \E promote \in BOOLEAN : mine'[d] = FromPlan(Carries[d], promote)
     \/ /\ pc'[d] = "claim" /\ manifest[Carries[d]].status # "absent"
        /\ mine'[d] = manifest[Carries[d]]

\* It goes on with the copy it has.
Proceeded(d) ==
  /\ pc[d] \notin Over
  /\ UNCHANGED manifest /\ mine'[d] = mine[d]
  /\ \/ pc'[d] = "release" /\ UNCHANGED <<records, current>>
     \/ pc[d] = "loop" /\ pc'[d] = "loop" /\ UNCHANGED records
     \/ /\ pc[d] = "execute" /\ pc'[d] \in {"materialized", "failing"}
        /\ UNCHANGED current
        /\ \/ UNCHANGED records
           \/ Supplied(d) /\ records' = records \cup {NewRecord(d)}
     \/ /\ pc[d] = "loop" /\ pc'[d] \in {"promoted", "unpromoted"}
        /\ UNCHANGED records

\* It has changed its copy and not saved it.
Changed(d) ==
  /\ UNCHANGED <<manifest, records, current>>
  /\ pc[d] \in {"prepare", "recover"} /\ pc'[d] \in {"adopt", "open"}
  /\ mine'[d].revision = mine[d].revision
  /\ \A s \in Assets :
       /\ Goes(mine[d].steps[s], mine'[d].steps[s])
       /\ mine'[d].steps[s].attempts = mine[d].steps[s].attempts

\* It has saved its copy.
Saved(d) ==
  /\ UNCHANGED <<records, current>>
  /\ pc[d] \notin Over /\ pc'[d] \notin Over
  /\ manifest[Carries[d]].revision = mine[d].revision
  /\ mine'[d].revision = mine[d].revision + 1
  /\ manifest'[Carries[d]] = mine'[d]
  /\ \A r \in Runs \ {Carries[d]} : manifest'[r] = manifest[r]
  /\ \A s \in Assets : Goes(mine[d].steps[s], mine'[d].steps[s])
  /\ pc'[d] = "execute" =>
       /\ at'[d] = at[d] /\ Here(d) \in Assets
       /\ mine'[d].steps[Here(d)].attempts = mine[d].steps[Here(d)].attempts + 1

Moved(d) ==
  Alone(d) /\ (Ended(d) \/ Entered(d) \/ Proceeded(d) \/ Changed(d) \/ Saved(d))

LEMMA StopMoves ==
  ASSUME DriverTyped, NEW d \in Drivers, Stop(d), UNCHANGED <<manifest, records, current>>
  PROVE  Moved(d)
<1>1. Alone(d) /\ mine'[d] = Absent /\ pc'[d] = "over"
  BY DEF Stop, GoTo, DriverTyped, Alone
<1> QED BY <1>1 DEF Moved, Ended, Over

LEMMA RaiseMoves ==
  ASSUME DriverTyped, NEW d \in Drivers, pc[d] \notin Over, Raise(d),
         UNCHANGED <<manifest, records, current>>
  PROVE  Moved(d)
<1>1. CASE mine[d].lease = d
  <2>1. Alone(d) /\ mine'[d] = mine[d] /\ pc'[d] = "release"
    BY <1>1 DEF Raise, GoTo, DriverTyped, Alone
  <2> QED BY <2>1 DEF Moved, Proceeded
<1>2. CASE mine[d].lease # d
  BY <1>2, StopMoves DEF Raise
<1> QED BY <1>1, <1>2

LEMMA PersistMoves ==
  ASSUME LakeTyped, DriverTyped, NEW d \in Drivers, NEW new \in Manifests,
         NEW step \in PcStates, NEW next, Persist(d, new, step, next),
         UNCHANGED <<records, current>>,
         pc[d] \notin Over, step \notin Over,
         \A s \in Assets : Goes(mine[d].steps[s], new.steps[s]),
         step = "execute" =>
           /\ next = at[d] /\ Here(d) \in Assets
           /\ new.steps[Here(d)].attempts = mine[d].steps[Here(d)].attempts + 1
  PROVE  Moved(d)
<1> DEFINE r == Carries[d]
           saved == [new EXCEPT !.revision = mine[d].revision + 1]
<1>1. CASE manifest[r].revision = mine[d].revision
  <2>1. /\ manifest' = [manifest EXCEPT ![r] = saved]
        /\ mine' = [mine EXCEPT ![d] = saved]
        /\ at' = [at EXCEPT ![d] = next]
        /\ pc' = [pc EXCEPT ![d] = step]
    BY <1>1 DEF Persist, GoTo
  <2>2. saved.revision = mine[d].revision + 1 /\ saved.steps = new.steps
    BY DEF Manifests
  <2> HIDE DEF saved
  <2>3. /\ manifest'[r] = saved /\ mine'[d] = saved /\ at'[d] = next /\ pc'[d] = step
        /\ \A q \in Runs \ {r} : manifest'[q] = manifest[q]
        /\ Alone(d)
    BY <2>1, DagAssumption DEF LakeTyped, DriverTyped, Alone
  <2>4. Saved(d)
    BY <1>1, <2>2, <2>3 DEF Saved
  <2> QED BY <2>3, <2>4 DEF Moved
<1>2. CASE manifest[r].revision # mine[d].revision
  BY <1>2, RaiseMoves DEF Persist
<1> QED BY <1>1, <1>2

\* A step that stays as it is.
LEMMA GoesNowhere ==
  ASSUME NEW step \in Steps
  PROVE  Goes(step, step)
BY DEF Goes, Steps

LEMMA SaveMoves ==
  ASSUME LakeTyped, DriverTyped, NEW d \in Drivers, at[d] <= Len(Order), pc[d] \notin Over,
         UNCHANGED <<records, current>>,
         NEW step \in Steps, Goes(HereStep(d), step),
         \/ SaveAndGoOn(d, step)
         \/ SaveAndStay(d, step, "loop") \/ SaveAndStay(d, step, "backoff")
         \/ /\ SaveAndStay(d, step, "execute")
            /\ step.attempts = HereStep(d).attempts + 1
  PROVE  Moved(d)
<1> DEFINE new == With(mine[d], Here(d), step)
<1>1. /\ new \in Manifests /\ new.steps[Here(d)] = step
      /\ \A t \in Assets \ {Here(d)} : new.steps[t] = mine[d].steps[t]
      /\ Here(d) \in Assets /\ HereStep(d) = mine[d].steps[Here(d)]
      /\ mine[d] \in Manifests
  BY HereTyped, WithTyped
<1>2. PICK pcNext, next :
        /\ pcNext \in {"loop", "backoff", "execute"}
        /\ Persist(d, new, pcNext, next)
        /\ pcNext = "execute" => next = at[d] /\ step.attempts = HereStep(d).attempts + 1
  <2>1. CASE SaveAndGoOn(d, step)
    BY <2>1 DEF SaveAndGoOn
  <2>2. CASE SaveAndStay(d, step, "loop") \/ SaveAndStay(d, step, "backoff")
    BY <2>2 DEF SaveAndStay
  <2>3. CASE SaveAndStay(d, step, "execute") /\ step.attempts = HereStep(d).attempts + 1
    BY <2>3 DEF SaveAndStay
  <2> QED BY <2>1, <2>2, <2>3
<1> HIDE DEF new
<1>3. \A s \in Assets : Goes(mine[d].steps[s], new.steps[s])
  <2> SUFFICES ASSUME NEW s \in Assets PROVE Goes(mine[d].steps[s], new.steps[s])
    OBVIOUS
  <2>1. CASE s = Here(d)
    BY <1>1, <2>1
  <2>2. CASE s # Here(d)
    BY <1>1, <2>2, GoesNowhere, FieldsTyped
  <2> QED BY <2>1, <2>2
<1>4. pcNext \in PcStates /\ pcNext \notin Over
  BY <1>2 DEF PcStates, Over
<1> QED BY <1>1, <1>2, <1>3, <1>4, PersistMoves

LEMMA EnteringMoves ==
  ASSUME LakeTyped, DriverTyped, NEW d \in Drivers, Enter(d)
  PROVE  Moved(d)
<1>1. Carries[d] \in Runs /\ UNCHANGED <<manifest, records, current, at>> /\ pc[d] = "idle"
  BY DagAssumption DEF Enter, lakeVars, StandsAt
<1>2. Alone(d)
  BY <1>1 DEF Enter, GoTo, DriverTyped, Alone
<1>3. CASE /\ manifest[Carries[d]].status = "absent"
           /\ \E promote \in Promotes[Carries[d]] :
                mine' = [mine EXCEPT ![d] = FromPlan(Carries[d], promote)]
           /\ pc' = [pc EXCEPT ![d] = "open"]
  <2>1. Promotes[Carries[d]] \subseteq BOOLEAN
    BY <1>1, DagAssumption
  <2>2. pc'[d] = "open" /\ \E promote \in BOOLEAN : mine'[d] = FromPlan(Carries[d], promote)
    BY <1>3, <2>1 DEF DriverTyped
  <2> QED BY <1>1, <1>2, <1>3, <2>2 DEF Moved, Entered
<1>4. CASE /\ Resumable(manifest[Carries[d]].status)
           /\ mine' = [mine EXCEPT ![d] = manifest[Carries[d]]]
           /\ pc' = [pc EXCEPT ![d] = "claim"]
  BY <1>1, <1>2, <1>4 DEF Moved, Entered, Resumable, DriverTyped
<1>5. CASE mine' = mine /\ pc' = [pc EXCEPT ![d] = "over"]
  BY <1>1, <1>2, <1>5 DEF Moved, Ended, Over, DriverTyped
<1> QED BY <1>3, <1>4, <1>5 DEF Enter, GoTo

LEMMA ClaimingMoves ==
  ASSUME LakeTyped, DriverTyped, NEW d \in Drivers,
         Claim(d) \/ Adopt(d) \/ Open(d) \/ Finish(d)
  PROVE  Moved(d)
<1>1. /\ mine[d] \in Manifests /\ UNCHANGED <<records, current>>
      /\ pc[d] \in {"claim", "adopt", "open", "loop"} /\ pc[d] \notin Over
  BY DEF DriverTyped, Claim, Adopt, Open, Finish, StandsAt, Over
<1>2. ASSUME NEW new \in Manifests, NEW step \in {"recover", "prepare", "loop", "returned"},
             NEW next, new.steps = mine[d].steps, Persist(d, new, step, next)
      PROVE  Moved(d)
  <2>1. \A s \in Assets : Goes(mine[d].steps[s], new.steps[s])
    BY <1>1, <1>2, GoesNowhere, FieldsTyped
  <2>2. step \in PcStates /\ step \notin Over /\ step # "execute"
    BY DEF PcStates, Over
  <2> QED BY <1>1, <1>2, <2>1, <2>2, PersistMoves
<1>3. CASE Claim(d)
  <2>1. [mine[d] EXCEPT !.lease = d] \in Manifests
        /\ [mine[d] EXCEPT !.lease = d].steps = mine[d].steps
    BY <1>1 DEF Manifests
  <2> QED BY <1>1, <1>2, <1>3, <2>1, StopMoves DEF Claim
<1>4. CASE Adopt(d) \/ Open(d)
  BY <1>1, <1>2, <1>4 DEF Adopt, Open
<1>5. CASE Finish(d)
  <2>1. [mine[d] EXCEPT !.status = Verdict(mine[d]), !.lease = None] \in Manifests
        /\ [mine[d] EXCEPT !.status = Verdict(mine[d]), !.lease = None].steps = mine[d].steps
    BY <1>1 DEF Manifests, Verdict, RunStatuses
  <2> QED BY <1>1, <1>2, <1>5, <2>1 DEF Finish
<1> QED BY <1>3, <1>4, <1>5

\* What prepare_resume does to a step.
LEMMA PreparedGoes ==
  ASSUME NEW m \in Manifests, NEW s \in Assets
  PROVE  /\ Goes(m.steps[s], Prepared(m).steps[s])
         /\ Prepared(m).steps[s].attempts = m.steps[s].attempts
<1> DEFINE old == m.steps[s]
           new == Prepared(m).steps[s]
<1>1. old \in Steps /\ old.attempts \in Nat
  BY FieldsTyped DEF Steps
<1>2. new = IF old.status \in {"succeeded", "skipped", "materialized"} THEN old
            ELSE IF old.status = "failed" /\ old.made # None
              THEN [old EXCEPT !.status = "materialized"]
            ELSE [old EXCEPT !.status = "planned", !.made = None, !.open = FALSE]
  BY DEF Prepared, Status, Manifests
<1> HIDE DEF new
<1>3. new.before = old.before /\ new.attempts = old.attempts
  BY <1>1, <1>2 DEF Steps
<1>4. Goes(old, new)
  BY <1>1, <1>3 DEF Goes
<1> QED BY <1>3, <1>4 DEF new

LEMMA PreparingMoves ==
  ASSUME LakeTyped, DriverTyped, NEW d \in Drivers, Prepare(d) \/ Recover(d)
  PROVE  Moved(d)
<1>1. /\ mine[d] \in Manifests /\ UNCHANGED <<manifest, records, current>>
      /\ pc[d] \in {"prepare", "recover"} /\ pc[d] \notin Over
  BY DEF DriverTyped, Prepare, Recover, StandsAt, lakeVars, Over
<1>2. CASE /\ mine' = [mine EXCEPT ![d] = Prepared(mine[d])]
           /\ pc' = [pc EXCEPT ![d] = "open"] /\ UNCHANGED at
  <2>1. Alone(d) /\ mine'[d] = Prepared(mine[d]) /\ pc'[d] = "open"
    BY <1>2 DEF DriverTyped, Alone
  <2>2. Prepared(mine[d]).revision = mine[d].revision
    BY <1>1, PreparedTyped
  <2>3. Changed(d)
    BY <1>1, <2>1, <2>2, PreparedGoes DEF Changed
  <2> QED BY <2>1, <2>3 DEF Moved
<1>3. ASSUME NEW s \in RunningSteps(mine[d]),
             NEW rec \in Candidates(Carries[d], s, mine[d].steps[s].attempts),
             mine' = [mine EXCEPT ![d] =
                    With(mine[d], s, [mine[d].steps[s] EXCEPT !.status = "materialized",
                                                  !.made = rec.id,
                                                  !.open = FALSE])],
             pc' = [pc EXCEPT ![d] = "adopt"], UNCHANGED at
      PROVE  Moved(d)
  <2> DEFINE step == [mine[d].steps[s] EXCEPT !.status = "materialized", !.made = rec.id,
                                              !.open = FALSE]
             new == With(mine[d], s, step)
  <2>1. /\ s \in Assets /\ mine[d].steps[s] \in Steps /\ rec.id \in RecordIds
        /\ mine[d].steps[s].attempts \in Nat
    BY <1>1, FieldsTyped DEF RunningSteps, Candidates, LakeTyped, Steps
  <2>2. /\ step \in Steps /\ step.before = mine[d].steps[s].before
        /\ step.attempts = mine[d].steps[s].attempts /\ step.status = "materialized"
    BY <2>1, StepsTyped DEF Steps
  <2>3. /\ new \in Manifests /\ new.revision = mine[d].revision /\ new.steps[s] = step
        /\ \A t \in Assets \ {s} : new.steps[t] = mine[d].steps[t]
    BY <1>1, <2>1, <2>2, WithTyped
  <2> HIDE DEF step, new
  <2>4. ASSUME NEW t \in Assets
        PROVE  /\ Goes(mine[d].steps[t], new.steps[t])
               /\ new.steps[t].attempts = mine[d].steps[t].attempts
    <3>1. CASE t = s
      BY <2>1, <2>2, <2>3, <3>1 DEF Goes
    <3>2. CASE t # s
      BY <1>1, <2>3, <3>2, GoesNowhere, FieldsTyped
    <3> QED BY <3>1, <3>2
  <2>5. Alone(d) /\ mine'[d] = new /\ pc'[d] = "adopt"
    BY <1>3 DEF DriverTyped, Alone, new, step
  <2>6. Changed(d)
    BY <1>1, <2>3, <2>4, <2>5 DEF Changed
  <2> QED BY <2>5, <2>6 DEF Moved
<1>4. CASE Raise(d)
  BY <1>1, <1>4, RaiseMoves
<1> QED BY <1>2, <1>3, <1>4 DEF Prepare, Recover, GoTo

LEMMA SavingMoves ==
  ASSUME LakeTyped, DriverTyped, Copies, NEW d \in Drivers,
         \/ BlockStep(d) \/ SkipStep(d) \/ StartAttempt(d) \/ RetryLater(d) \/ FailStep(d)
         \/ SaveMaterialized(d) \/ SkipPromotion(d) \/ SavePromoted(d) \/ SaveUnpromoted(d)
  PROVE  Moved(d)
<1>1. /\ at[d] <= Len(Order) /\ UNCHANGED <<records, current>>
      /\ pc[d] \in {"loop"} \cup Working
  BY DEF BlockStep, SkipStep, StartAttempt, RetryLater, FailStep,
         SaveMaterialized, SkipPromotion, SavePromoted, SaveUnpromoted,
         Looping, StandsAt, DriverTyped, Working, Making, Promoting
<1> DEFINE old == HereStep(d)
<1>2. /\ old \in Steps /\ old.attempts \in Nat /\ pc[d] \notin Over
  BY <1>1, HereKnown DEF Making, Promoting, Working, Over, Steps
<1>3. ASSUME NEW step \in Steps, step.before = old.before, step.attempts = old.attempts,
             \/ SaveAndGoOn(d, step)
             \/ SaveAndStay(d, step, "loop") \/ SaveAndStay(d, step, "backoff")
      PROVE  Moved(d)
  <2>1. Goes(old, step)
    BY <1>2, <1>3 DEF Goes
  <2> QED BY <1>1, <1>2, <1>3, <2>1, SaveMoves
<1>4. ASSUME NEW status \in StepStatuses, SaveAndGoOn(d, [old EXCEPT !.status = status])
      PROVE  Moved(d)
  <2> DEFINE step == [old EXCEPT !.status = status]
  <2>1. step \in Steps
    BY <1>2, StepsTyped
  <2>2. step.before = old.before /\ step.attempts = old.attempts
    BY <1>2 DEF Steps
  <2>3. SaveAndGoOn(d, step)
    BY <1>4
  <2> HIDE DEF step
  <2> QED BY <1>3, <1>4, <2>1, <2>2, <2>3
<1>5. {"blocked", "skipped", "succeeded", "failed"} \subseteq StepStatuses
  BY DEF StepStatuses
<1>6. CASE \/ BlockStep(d) \/ SkipStep(d) \/ SkipPromotion(d) \/ SavePromoted(d)
           \/ SaveUnpromoted(d)
  BY <1>4, <1>5, <1>6 DEF BlockStep, SkipStep, SkipPromotion, SavePromoted, SaveUnpromoted
<1>8. CASE FailStep(d)
  <2> DEFINE step == [old EXCEPT !.status = "failed", !.open = FALSE]
  <2>1. step \in Steps /\ SaveAndGoOn(d, step)
    BY <1>2, <1>5, <1>8, StepsTyped DEF FailStep
  <2>2. step.before = old.before /\ step.attempts = old.attempts
    BY <1>2 DEF Steps
  <2> HIDE DEF step
  <2> QED BY <1>3, <2>1, <2>2
<1>9. CASE StartAttempt(d)
  <2> DEFINE step == [old EXCEPT !.status = "running", !.attempts = @ + 1, !.open = TRUE]
  <2>1. step \in Steps /\ SaveAndStay(d, step, "execute")
    BY <1>2, <1>9, StepsTyped DEF StartAttempt
  <2>2. /\ step.before = old.before /\ step.attempts = old.attempts + 1
        /\ step.status = "running"
    BY <1>2 DEF Steps
  <2> HIDE DEF step
  <2>3. Goes(old, step)
    BY <1>2, <2>2 DEF Goes
  <2> QED BY <1>1, <1>2, <2>1, <2>2, <2>3, SaveMoves
<1>10. CASE RetryLater(d)
  <2> DEFINE step == [old EXCEPT !.open = FALSE]
  <2>1. step \in Steps /\ SaveAndStay(d, step, "backoff")
    BY <1>2, <1>10, StepsTyped DEF RetryLater
  <2>2. step.before = old.before /\ step.attempts = old.attempts
    BY <1>2 DEF Steps
  <2> HIDE DEF step
  <2> QED BY <1>2, <1>3, <2>1, <2>2
<1>11. CASE SaveMaterialized(d)
  <2> DEFINE id == Made(Carries[d], Here(d), old.attempts)
             step == [old EXCEPT !.status = "materialized", !.made = id, !.open = FALSE]
  <2>1. id \in RecordIds
    BY <1>1, <1>2, HereTyped, DagAssumption DEF Made, RecordIds
  <2>2. step \in Steps /\ SaveAndStay(d, step, "loop")
    BY <1>2, <1>11, <2>1, StepsTyped DEF SaveMaterialized
  <2>3. /\ step.before = old.before /\ step.attempts = old.attempts
        /\ step.status = "materialized"
    BY <1>2 DEF Steps
  <2> HIDE DEF step
  <2> QED BY <1>3, <2>2, <2>3
<1> QED BY <1>4, <1>5, <1>6, <1>8, <1>9, <1>10, <1>11

LEMMA ProceedingMoves ==
  ASSUME LakeTyped, DriverTyped, NEW d \in Drivers,
         PassStep(d) \/ Materialize(d) \/ FailAttempt(d) \/ TryPromotion(d)
  PROVE  Moved(d)
<1>1. /\ pc[d] \in {"loop", "execute"} /\ pc[d] \notin Over /\ UNCHANGED <<manifest, mine>>
  BY PromotionMoves DEF PassStep, Materialize, FailAttempt, Looping, StandsAt, lakeVars, Over
<1>2. CASE PassStep(d)
  <2>1. /\ pc[d] = "loop" /\ pc' = pc /\ at' = [at EXCEPT ![d] = @ + 1]
        /\ UNCHANGED <<records, current>>
    BY <1>2 DEF PassStep, Looping, StandsAt, lakeVars
  <2>2. Alone(d) /\ Proceeded(d)
    BY <1>1, <2>1 DEF DriverTyped, Alone, Proceeded
  <2> QED BY <2>2 DEF Moved
<1>3. CASE Materialize(d) \/ FailAttempt(d)
  <2>1. PICK step \in {"materialized", "failing"} :
          /\ pc[d] = "execute" /\ pc' = [pc EXCEPT ![d] = step] /\ UNCHANGED <<at, current>>
          /\ \/ UNCHANGED records
             \/ Supplied(d) /\ records' = records \cup {NewRecord(d)}
    BY <1>3 DEF Materialize, FailAttempt, StandsAt, GoTo
  <2>2. Alone(d) /\ pc'[d] = step
    BY <1>1, <2>1 DEF DriverTyped, Alone
  <2>3. Proceeded(d)
    BY <1>1, <2>1, <2>2 DEF Proceeded
  <2> QED BY <2>2, <2>3 DEF Moved
<1>4. CASE TryPromotion(d)
  <2>1. PICK step \in {"loop", "promoted", "unpromoted"} :
          pc[d] = "loop" /\ pc' = [pc EXCEPT ![d] = step] /\ UNCHANGED <<at, records>>
    BY <1>4, PromotionMoves
  <2>2. Alone(d) /\ pc'[d] = step
    BY <1>1, <2>1 DEF DriverTyped, Alone
  <2>3. Proceeded(d)
    BY <1>1, <2>1, <2>2 DEF Proceeded
  <2> QED BY <2>2, <2>3 DEF Moved
<1> QED BY <1>2, <1>3, <1>4

LEMMA EndingMoves ==
  ASSUME LakeTyped, DriverTyped, NEW d \in Drivers,
         Record(d) \/ Release(d) \/ Fail(d) \/ Crash(d)
  PROVE  Moved(d)
<1>1. CASE Record(d)
  BY <1>1, StopMoves DEF Record
<1>2. CASE Fail(d) \/ Crash(d)
  <2>1. UNCHANGED <<manifest, records, current>> /\ pc[d] \notin Over
        /\ (Stop(d) \/ Raise(d))
    BY <1>2 DEF Fail, Crash, lakeVars
  <2> QED BY <2>1, StopMoves, RaiseMoves
<1>3. CASE Release(d)
  <2> DEFINE r == Carries[d]
             saved == [manifest[r] EXCEPT !.lease = None, !.revision = @ + 1]
  <2>1. r \in Runs /\ manifest[r] \in Manifests /\ Stop(d) /\ UNCHANGED <<records, current>>
    BY <1>3, DagAssumption DEF LakeTyped, Release
  <2>2. CASE manifest[r].lease = d
    <3>1. /\ saved.revision = manifest[r].revision + 1
          /\ saved.steps = manifest[r].steps /\ saved.status = manifest[r].status
      BY <2>1 DEF Manifests
    <3>2. manifest' = [manifest EXCEPT ![r] = saved]
      BY <1>3, <2>1, <2>2 DEF Release, LakeTyped
    <3> HIDE DEF saved
    <3>3. manifest'[r] = saved /\ \A q \in Runs \ {r} : manifest'[q] = manifest[q]
      BY <2>1, <3>2 DEF LakeTyped
    <3>4. Alone(d) /\ mine'[d] = Absent /\ pc'[d] = "over"
      BY <2>1 DEF Stop, GoTo, DriverTyped, Alone
    <3>5. Ended(d)
      BY <2>1, <2>2, <3>1, <3>3, <3>4 DEF Ended, Over
    <3> QED BY <3>4, <3>5 DEF Moved
  <2>3. CASE manifest[r].lease # d
    BY <1>3, <2>1, <2>3, StopMoves DEF Release
  <2> QED BY <2>2, <2>3
<1> QED BY <1>1, <1>2, <1>3

LEMMA EveryStepMoves ==
  ASSUME KInv, NEW d \in Drivers, Enter(d) \/ Step(d) \/ Fail(d) \/ Crash(d)
  PROVE  Moved(d)
BY EnteringMoves, ClaimingMoves, PreparingMoves, SavingMoves, ProceedingMoves, EndingMoves
   DEF Step, TryPromotion, KInv

-----------------------------------------------------------------------------
(* Pointers never return to a record they have left. *)

PlansKept == \A r \in Runs : manifest[r].revision # 0 => SamePlan(manifest[r], manifest'[r])
Onward == ManifestsKept /\ PlansKept /\ PromotionInOrder

\* WasCurrent and OnCourse of the next state.
NextWas(s, id) ==
  \/ id \in {Before(s), current'[s]}
  \/ /\ id # None /\ id.run \in Runs
     /\ manifest'[id.run].steps[s].made = id
     /\ manifest'[id.run].steps[s].before # current'[s]
NextOnCourse(m) == \A s \in Assets : NextWas(s, m.steps[s].before)

LEMMA PlansAreKept ==
  ASSUME KInv, NEW d \in Drivers, Moved(d)
  PROVE  PlansKept
<1> SUFFICES ASSUME NEW r \in Runs, manifest[r].revision # 0
             PROVE  SamePlan(manifest[r], manifest'[r])
  BY DEF PlansKept
<1>1. CASE manifest'[r].steps = manifest[r].steps
  BY <1>1 DEF SamePlan
<1>2. CASE Saved(d) /\ r = Carries[d]
  <2>1. SamePlan(manifest[r], mine[d])
    BY <1>2 DEF KInv, Copies, CopyHolds, Saved
  <2>2. SamePlan(mine[d], manifest'[r])
    BY <1>2 DEF Saved, Goes, SamePlan
  <2> QED BY <2>1, <2>2 DEF SamePlan
<1> QED BY <1>1, <1>2 DEF Moved, Ended, Entered, Proceeded, Changed, Saved

\* A record that has been current is not the next one to be promoted.
LEMMA PromotedIsNew ==
  ASSUME NEW s \in Assets, NEW id, WasCurrent(s, id), PromotionInOrder,
         current'[s] # current[s]
  PROVE  id # current'[s]
<1>1. /\ current'[s] # None /\ current'[s].run \in Runs
      /\ manifest[current'[s].run].steps[s].made = current'[s]
      /\ manifest[current'[s].run].steps[s].before = current[s]
  BY DEF PromotionInOrder
<1>2. current'[s] # Before(s)
  BY <1>1, DagAssumption DEF Before
<1> QED BY <1>1, <1>2 DEF WasCurrent

LEMMA PlanOfRecord ==
  ASSUME KInv, PointersMoveOn, Onward, NEW s \in Assets, NEW r \in Runs,
         manifest[r].steps[s].made # None
  PROVE  /\ manifest'[r].steps[s].made = manifest[r].steps[s].made
         /\ manifest'[r].steps[s].before = manifest[r].steps[s].before
         /\ WasCurrent(s, manifest[r].steps[s].before)
<1>1. manifest[r].revision # 0
  BY DEF KInv, Stored, Empty
<1> QED BY <1>1 DEF PointersMoveOn, OnCourse, Onward, ManifestsKept, PlansKept, Keeps, SamePlan

LEMMA WasStays ==
  ASSUME KInv, PointersMoveOn, Onward, NEW s \in Assets, NEW id, WasCurrent(s, id)
  PROVE  NextWas(s, id)
<1>1. CASE id = Before(s) \/ id = current'[s]
  BY <1>1 DEF NextWas
<1>2. CASE /\ id # None /\ id.run \in Runs
           /\ manifest[id.run].steps[s].made = id
           /\ id # current'[s]
           /\ manifest[id.run].steps[s].before # current[s] \/ id = current[s]
  <2> DEFINE before == manifest[id.run].steps[s].before
  <2>1. /\ manifest'[id.run].steps[s].made = id
        /\ manifest'[id.run].steps[s].before = before
        /\ WasCurrent(s, before)
    BY <1>2, PlanOfRecord
  <2>2. before # current'[s]
    <3>1. CASE current'[s] = current[s]
      BY <1>2, <3>1
    <3>2. CASE current'[s] # current[s]
      BY <2>1, <3>2, PromotedIsNew DEF Onward
    <3> QED BY <3>1, <3>2
  <2> QED BY <1>2, <2>1, <2>2 DEF NextWas
<1>3. CASE id = current[s] /\ id # Before(s) /\ id # current'[s]
  BY <1>2, <1>3 DEF KInv, CurrentStored
<1> QED BY <1>1, <1>2, <1>3 DEF WasCurrent

LEMMA CourseStays ==
  ASSUME KInv, PointersMoveOn, Onward, NEW m, OnCourse(m)
  PROVE  NextOnCourse(m)
BY WasStays DEF OnCourse, NextOnCourse

\* What is left of the present copies and manifests in the next state.
LEMMA CopiesStay ==
  ASSUME KInv, PointersMoveOn, Onward, NEW d \in Drivers, pc[d] \notin Over
  PROVE  NextOnCourse(mine[d])
BY CourseStays DEF PointersMoveOn

LEMMA StoredStays ==
  ASSUME KInv, PointersMoveOn, Onward, NEW r \in Runs, manifest[r].revision # 0
  PROVE  NextOnCourse(manifest[r])
BY CourseStays DEF PointersMoveOn

LEMMA GoingStays ==
  ASSUME NEW m, NEW new, NextOnCourse(m),
         \A s \in Assets : Goes(m.steps[s], new.steps[s])
  PROVE  NextOnCourse(new)
BY DEF NextOnCourse, Goes

LEMMA PlanKnown ==
  ASSUME NEW r, NEW promote, NEW s \in Assets
  PROVE  LET m == FromPlan(r, promote) IN
         /\ m.revision = 0
         /\ m.steps[s].made = None
         /\ m.steps[s].attempts = 0
         /\ m.steps[s].before \in {current[s], Before(s)}
BY DEF FromPlan, Absent, NewStep

LEMMA AbsentKnown ==
  /\ Absent.revision = 0 /\ Absent.status = "absent" /\ Absent.lease = None
  /\ \A s \in Assets : Absent.steps[s].made = None /\ Absent.steps[s].attempts = 0
BY DEF Absent, NewStep

LEMMA StoredMoveOn ==
  ASSUME KInv, PointersMoveOn, Onward, NEW d \in Drivers, Moved(d), NEW r \in Runs
  PROVE  IF manifest'[r].revision = 0 THEN manifest'[r] = Absent
                                      ELSE NextOnCourse(manifest'[r])
<1>1. IF manifest[r].revision = 0 THEN manifest[r] = Absent
                                  ELSE NextOnCourse(manifest[r])
  BY StoredStays DEF PointersMoveOn
<1>2. CASE manifest'[r] = manifest[r]
  BY <1>1, <1>2
<1>3. CASE /\ manifest[r].lease = d /\ manifest'[r].steps = manifest[r].steps
           /\ manifest'[r].revision = manifest[r].revision + 1
  <2>1. manifest[r].revision # 0
    BY <1>1, <1>3, AbsentKnown, DagAssumption
  <2>2. NextOnCourse(manifest'[r])
    BY <1>1, <1>3, <2>1 DEF NextOnCourse
  <2>3. manifest'[r].revision # 0
    BY <1>3, FieldsTyped DEF KInv, LakeTyped
  <2> QED BY <2>2, <2>3
<1>4. CASE Saved(d) /\ r = Carries[d]
  <2>1. manifest'[r] = mine'[d] /\ mine[d].revision \in Nat
        /\ mine'[d].revision = mine[d].revision + 1
    BY <1>4, FieldsTyped DEF Saved, KInv, DriverTyped
  <2>2. NextOnCourse(mine'[d])
    BY <1>4, CopiesStay, GoingStays DEF Saved
  <2> QED BY <2>1, <2>2
<1> QED BY <1>2, <1>3, <1>4 DEF Moved, Ended, Entered, Proceeded, Changed, Saved

LEMMA OwnMovesOn ==
  ASSUME KInv, PointersMoveOn, Onward, NEW d \in Drivers, Moved(d)
  PROVE  /\ pc'[d] \notin Over => NextOnCourse(mine'[d])
         /\ mine'[d].revision = 0 =>
              /\ pc'[d] \in Over \cup {"open", "release"}
              /\ \A s \in Assets : mine'[d].steps[s].made = None
<1>1. /\ pc[d] \notin Over => NextOnCourse(mine[d])
      /\ mine[d].revision = 0 =>
           /\ pc[d] \in Over \cup {"open", "release"}
           /\ \A s \in Assets : mine[d].steps[s].made = None
      /\ mine[d].revision \in Nat
  BY CopiesStay, FieldsTyped DEF PointersMoveOn, KInv, DriverTyped
<1>2. CASE Ended(d)
  BY <1>1, <1>2, AbsentKnown DEF Ended, Over
<1>3. CASE Entered(d)
  <2>1. CASE \E promote \in BOOLEAN :
               pc'[d] = "open" /\ mine'[d] = FromPlan(Carries[d], promote)
    <3>1. /\ mine'[d].revision = 0
          /\ \A s \in Assets :
               /\ mine'[d].steps[s].made = None
               /\ mine'[d].steps[s].before \in {current'[s], Before(s)}
      <4>1. PICK promote : mine'[d] = FromPlan(Carries[d], promote)
        BY <2>1
      <4>2. current' = current
        BY <1>3 DEF Entered
      <4>3. FromPlan(Carries[d], promote).revision = 0
        BY DEF FromPlan, Absent
      <4> QED BY <4>1, <4>2, <4>3, PlanKnown
    <3>2. NextOnCourse(mine'[d])
      BY <3>1 DEF NextOnCourse, NextWas
    <3> QED BY <2>1, <3>1, <3>2
  <2>2. CASE /\ pc'[d] = "claim" /\ mine'[d] = manifest[Carries[d]]
             /\ manifest[Carries[d]].status # "absent"
    <3>1. Carries[d] \in Runs /\ manifest[Carries[d]].revision # 0
      BY <2>2, AbsentKnown, DagAssumption DEF PointersMoveOn
    <3> QED BY <2>2, <3>1, StoredStays
  <2> QED BY <1>3, <2>1, <2>2 DEF Entered
<1>4. CASE Proceeded(d)
  <2>1. mine'[d] = mine[d] /\ NextOnCourse(mine[d])
        /\ pc[d] \notin Over
    BY <1>1, <1>4 DEF Proceeded
  <2>2. pc'[d] = "release" \/ pc[d] \in {"loop", "execute"}
    BY <1>4 DEF Proceeded
  <2> QED BY <1>1, <2>1, <2>2 DEF Over
<1>5. CASE Changed(d) \/ Saved(d)
  <2>1. NextOnCourse(mine'[d])
    BY <1>1, <1>5, GoingStays DEF Changed, Saved, Over
  <2>2. mine'[d].revision # 0
    BY <1>1, <1>5 DEF Changed, Saved, Over
  <2> QED BY <2>1, <2>2
<1> QED BY <1>2, <1>3, <1>4, <1>5 DEF Moved

LEMMA MovesOn ==
  ASSUME KInv, PointersMoveOn, Onward, NEW d \in Drivers, Moved(d)
  PROVE  PointersMoveOn'
<1>1. ASSUME NEW r \in Runs
      PROVE  IF manifest'[r].revision = 0 THEN manifest'[r] = Absent
                                          ELSE NextOnCourse(manifest'[r])
  BY StoredMoveOn
<1>2. ASSUME NEW e \in Drivers
      PROVE  /\ pc'[e] \notin Over => NextOnCourse(mine'[e])
             /\ mine'[e].revision = 0 =>
                  /\ pc'[e] \in Over \cup {"open", "release"}
                  /\ \A s \in Assets : mine'[e].steps[s].made = None
  <2>1. CASE e = d
    BY <2>1, OwnMovesOn
  <2>2. CASE e # d
    <3>1. mine'[e] = mine[e] /\ pc'[e] = pc[e] /\ at'[e] = at[e]
      BY <2>2 DEF Moved, Alone
    <3> QED BY <3>1, CopiesStay DEF PointersMoveOn
  <2> QED BY <2>1, <2>2
<1> QED BY <1>1, <1>2
        DEF PointersMoveOn, OnCourse, WasCurrent, NextOnCourse, NextWas

-----------------------------------------------------------------------------
(* Attempts are counted, and every record knows the count. *)

\* Attempts of the stored manifests never go down.
AttemptsKept ==
  \A r \in Runs, s \in Assets :
    /\ manifest[r].steps[s].attempts \in Nat /\ manifest'[r].steps[s].attempts \in Nat
    /\ manifest[r].steps[s].attempts <= manifest'[r].steps[s].attempts

LEMMA AttemptsStay ==
  ASSUME KInv, KInv', AttemptsAreCounted, NEW d \in Drivers, Moved(d)
  PROVE  AttemptsKept
<1> SUFFICES ASSUME NEW r \in Runs, NEW s \in Assets
             PROVE  /\ manifest[r].steps[s].attempts \in Nat
                    /\ manifest'[r].steps[s].attempts \in Nat
                    /\ manifest[r].steps[s].attempts <= manifest'[r].steps[s].attempts
  BY DEF AttemptsKept
<1>1. manifest[r].steps[s].attempts \in Nat /\ manifest'[r].steps[s].attempts \in Nat
  <2>1. manifest[r] \in Manifests /\ manifest'[r] \in Manifests
    BY DEF KInv, LakeTyped
  <2>2. manifest[r].steps[s] \in Steps /\ manifest'[r].steps[s] \in Steps
    BY <2>1, FieldsTyped
  <2> QED BY <2>2 DEF Steps
<1>2. CASE manifest'[r].steps = manifest[r].steps
  BY <1>1, <1>2
<1>3. CASE Saved(d) /\ r = Carries[d]
  <2>1. mine[d].steps[s].attempts = manifest[r].steps[s].attempts
    BY <1>3 DEF Saved, AttemptsAreCounted
  <2>2. mine[d].steps[s].attempts <= manifest'[r].steps[s].attempts
    BY <1>3 DEF Saved, Goes
  <2> QED BY <1>1, <2>1, <2>2
<1> QED BY <1>1, <1>2, <1>3 DEF Moved, Ended, Entered, Proceeded, Changed, Saved

\* The copy of the driver that has moved.
LEMMA OwnCount ==
  ASSUME KInv, PointersMoveOn, AttemptsAreCounted, NEW d \in Drivers, Moved(d),
         mine'[d].revision = manifest'[Carries[d]].revision, NEW s \in Assets
  PROVE  mine'[d].steps[s].attempts = manifest'[Carries[d]].steps[s].attempts
<1> DEFINE r == Carries[d]
<1>1. /\ r \in Runs /\ manifest[r].revision \in Nat
      /\ mine[d].revision = manifest[r].revision =>
           mine[d].steps[s].attempts = manifest[r].steps[s].attempts
      /\ manifest[r].revision = 0 => manifest[r] = Absent
  BY DagAssumption, FieldsTyped DEF KInv, LakeTyped, AttemptsAreCounted, PointersMoveOn
<1>2. CASE Ended(d)
  <2>1. CASE manifest'[r] = manifest[r] /\ mine'[d] = Absent
    BY <1>1, <2>1, AbsentKnown
  <2>2. CASE manifest'[r] = manifest[r] /\ mine'[d] = mine[d]
    BY <1>1, <2>2
  <2>3. CASE manifest'[r].revision = manifest[r].revision + 1
    <3>1. mine'[d] = Absent => mine'[d].revision = 0
      BY AbsentKnown
    <3>2. mine[d].revision \in Nat /\ mine[d].revision <= manifest[r].revision
      BY FieldsTyped DEF KInv, DriverTyped, Copies, CopyHolds
    <3> QED BY <1>1, <1>2, <2>3, <3>1, <3>2 DEF Ended
  <2> QED BY <1>1, <1>2, <2>1, <2>2, <2>3 DEF Ended
<1>3. CASE Entered(d)
  <2>1. CASE \E promote \in BOOLEAN : mine'[d] = FromPlan(r, promote)
    <3>1. PICK promote : mine'[d] = FromPlan(r, promote)
      BY <2>1
    <3>2. mine'[d].revision = 0 /\ mine'[d].steps[s].attempts = 0
      BY <3>1, PlanKnown
    <3> QED BY <1>1, <1>3, <3>2, AbsentKnown DEF Entered
  <2>2. CASE mine'[d] = manifest[r]
    BY <1>3, <2>2 DEF Entered
  <2> QED BY <1>3, <2>1, <2>2 DEF Entered
<1>4. CASE Proceeded(d) \/ Changed(d)
  BY <1>1, <1>4 DEF Proceeded, Changed
<1>5. CASE Saved(d)
  BY <1>5 DEF Saved
<1> QED BY <1>2, <1>3, <1>4, <1>5 DEF Moved

\* A copy at the stored revision has the stored counts.
LEMMA CountsStay ==
  ASSUME KInv, PointersMoveOn, AttemptsAreCounted, NEW d \in Drivers, Moved(d),
         NEW e \in Drivers, mine'[e].revision = manifest'[Carries[e]].revision,
         NEW s \in Assets
  PROVE  mine'[e].steps[s].attempts = manifest'[Carries[e]].steps[s].attempts
<1>1. CASE e = d
  BY <1>1, OwnCount
<1>2. CASE e # d
  <2>1. /\ mine'[e] = mine[e] /\ Carries[e] \in Runs /\ mine[e] \in Manifests
        /\ manifest[Carries[e]] \in Manifests
        /\ mine[e].revision <= manifest[Carries[e]].revision
        /\ mine[e].revision = manifest[Carries[e]].revision =>
             mine[e].steps[s].attempts = manifest[Carries[e]].steps[s].attempts
    BY <1>2, DagAssumption
       DEF Moved, Alone, KInv, LakeTyped, DriverTyped, Copies, CopyHolds, AttemptsAreCounted
  <2>2. CASE manifest'[Carries[e]] = manifest[Carries[e]]
    BY <2>1, <2>2
  <2>3. CASE manifest'[Carries[e]].revision = manifest[Carries[e]].revision + 1
    BY <2>1, <2>3, FieldsTyped
  <2>4. CASE Saved(d) /\ Carries[e] = Carries[d]
    BY <2>3, <2>4 DEF Saved
  <2> QED BY <2>1, <2>2, <2>3, <2>4 DEF Moved, Ended, Entered, Proceeded, Changed, Saved
<1> QED BY <1>1, <1>2

\* Records are only added, by the driver that has moved, while the manifests
\* stay as they are.
LEMMA RecordsGrow ==
  ASSUME NEW d \in Drivers, Moved(d)
  PROVE  \/ records' = records
         \/ /\ records' = records \cup {NewRecord(d)} /\ pc[d] = "execute" /\ Supplied(d)
            /\ pc'[d] # "execute" /\ manifest' = manifest
BY DEF Moved, Ended, Entered, Proceeded, Changed, Saved

LEMMA NewRecordKnown ==
  ASSUME KInv, NEW d \in Drivers, pc[d] = "execute"
  PROVE  LET new == NewRecord(d) IN
         /\ Here(d) \in Assets
         /\ new.by = d /\ new.id.run = Carries[d] /\ new.id.asset = Here(d)
         /\ new.since = manifest[Carries[d]].steps[Here(d)].attempts
<1>1. Here(d) \in Assets
  BY HereTyped DEF KInv, DriverTyped, Working, Making
<1>2. NewRecord(d).since = manifest[Carries[d]].steps[Here(d)].attempts
      /\ NewRecord(d).by = d
  BY DEF NewRecord
<1> QED BY <1>1, <1>2, RecordTyped DEF KInv

\* A driver that begins an attempt has no record of this attempt.
LEMMA BeginsWithout ==
  ASSUME KInv, KInv', PointersMoveOn, AttemptsAreCounted, NEW d \in Drivers, Moved(d),
         NEW e \in Drivers, pc'[e] = "execute", NEW x \in records', x.by = e,
         x.id.asset = Order[at'[e]]
  PROVE  x.since < manifest'[Carries[e]].steps[Order[at'[e]]].attempts
<1>k. AttemptsKept /\ Carries[e] \in Runs
  BY AttemptsStay, DagAssumption
<1>1. x \in records
  BY RecordsGrow, NewRecordKnown DEF Moved, Alone
<1>2. x.since \in Nat /\ x.id.asset \in Assets
  BY <1>1 DEF KInv, LakeTyped, RecordIds
<1>3. CASE e # d \/ ~Saved(d)
  <2>1. /\ pc[e] = "execute" /\ at'[e] = at[e]
    BY <1>3 DEF Moved, Alone, Ended, Entered, Proceeded, Changed, Over
  <2>2. x.since < manifest[Carries[e]].steps[Order[at[e]]].attempts
    BY <1>1, <2>1 DEF AttemptsAreCounted, Here
  <2> QED BY <1>2, <1>k, <2>1, <2>2 DEF AttemptsKept
<1>4. CASE e = d /\ Saved(d)
  <2>1. /\ Here(d) = Order[at'[d]] /\ Here(d) \in Assets
        /\ manifest'[Carries[d]].steps[Here(d)].attempts
             = mine[d].steps[Here(d)].attempts + 1
        /\ mine[d].steps[Here(d)].attempts
             = manifest[Carries[d]].steps[Here(d)].attempts
    BY <1>4 DEF Saved, Here, AttemptsAreCounted
  <2>2. x.since <= manifest[Carries[d]].steps[Here(d)].attempts
    BY <1>1, <1>4, <2>1 DEF AttemptsAreCounted
  <2> QED BY <1>2, <1>4, <1>k, <2>1, <2>2 DEF AttemptsKept
<1> QED BY <1>3, <1>4

\* Of two records of a driver for one asset only one is of the last attempt.
LEMMA RecordsStayApart ==
  ASSUME KInv, KInv', PointersMoveOn, AttemptsAreCounted, NEW d \in Drivers, Moved(d),
         NEW x \in records'
  PROVE  LET last == manifest'[Carries[x.by]].steps[x.id.asset].attempts IN
         /\ x.id.run = Carries[x.by]
         /\ x.since <= last
         /\ \A y \in records' :
              x.by = y.by /\ x.id.asset = y.id.asset /\ x # y =>
                x.since < last \/ y.since < last
<1> DEFINE now(z) == manifest[Carries[z.by]].steps[z.id.asset].attempts
           next(z) == manifest'[Carries[z.by]].steps[z.id.asset].attempts
<1>1. ASSUME NEW z \in records'
      PROVE  /\ z.since \in Nat /\ z.by \in Drivers /\ z.id.asset \in Assets
             /\ now(z) \in Nat /\ next(z) \in Nat /\ now(z) <= next(z)
  <2>1. z.since \in Nat /\ z.by \in Drivers /\ z.id.asset \in Assets
    BY <1>1 DEF KInv, LakeTyped, RecordIds
  <2>2. Carries[z.by] \in Runs
    BY <2>1, DagAssumption
  <2> QED BY <2>1, <2>2, AttemptsStay DEF AttemptsKept
<1>2. ASSUME NEW z \in records
      PROVE  /\ z.id.run = Carries[z.by] /\ z.since <= now(z)
             /\ \A y \in records :
                  z.by = y.by /\ z.id.asset = y.id.asset /\ z # y =>
                    z.since < now(z) \/ y.since < now(z)
  BY <1>2 DEF AttemptsAreCounted
<1>3. records \subseteq records'
  BY RecordsGrow
<1>4. ASSUME NEW new \in records', new \notin records
      PROVE  /\ new.id.run = Carries[new.by] /\ new.since = next(new)
             /\ \A y \in records :
                  y.by = new.by /\ y.id.asset = new.id.asset => y.since < next(new)
  <2>1. new = NewRecord(d) /\ pc[d] = "execute" /\ manifest' = manifest
    BY <1>4, RecordsGrow
  <2>2. /\ new.by = d /\ new.id.run = Carries[d] /\ new.id.asset = Here(d)
        /\ new.since = manifest[Carries[d]].steps[Here(d)].attempts
    BY <2>1, NewRecordKnown
  <2> QED BY <2>1, <2>2 DEF AttemptsAreCounted
<1>5. x.id.run = Carries[x.by] /\ x.since <= next(x)
  BY <1>1, <1>2, <1>4
<1>6. ASSUME NEW y \in records', x.by = y.by, x.id.asset = y.id.asset, x # y
      PROVE  x.since < next(x) \/ y.since < next(x)
  <2>1. next(x) = next(y) /\ now(x) = now(y)
    BY <1>6
  <2>2. CASE x \in records /\ y \in records
    <3>1. x.since < now(x) \/ y.since < now(x)
      BY <1>2, <1>6, <2>2
    <3>2. /\ x.since \in Nat /\ y.since \in Nat
          /\ now(x) \in Nat /\ next(x) \in Nat /\ now(x) <= next(x)
      BY <1>1, <1>6
    <3> HIDE DEF now, next
    <3> QED BY <3>1, <3>2
  <2>3. CASE x \notin records /\ y \in records
    BY <1>4, <1>6, <2>3
  <2>4. CASE x \in records /\ y \notin records
    BY <1>4, <1>6, <2>1, <2>4
  <2>5. CASE x \notin records /\ y \notin records
    BY <1>6, <2>5, RecordsGrow
  <2> QED BY <2>2, <2>3, <2>4, <2>5
<1> QED BY <1>5, <1>6

LEMMA AttemptsMoveOn ==
  ASSUME KInv, KInv', PointersMoveOn, AttemptsAreCounted, NEW d \in Drivers, Moved(d)
  PROVE  AttemptsAreCounted'
BY CountsStay, BeginsWithout, RecordsStayApart DEF AttemptsAreCounted, Here

-----------------------------------------------------------------------------
(* Every record has an identifier of its own. *)

NextAttempted(e) ==
  Made(Carries[e], Order[at'[e]], mine'[e].steps[Order[at'[e]]].attempts)

\* Whoever is at work in the next state was so before, or has begun just now
\* with one attempt more than anyone before.
LEMMA AtWorkNext ==
  ASSUME KInv, AttemptsAreCounted, NEW d \in Drivers, Moved(d),
         NEW e \in Drivers, pc'[e] = "execute"
  PROVE  \/ /\ e # d /\ pc[e] = "execute" /\ NextAttempted(e) = Attempted(e)
            /\ mine'[e] = mine[e] /\ at'[e] = at[e]
         \/ LET s == Order[at'[d]]
                n == manifest[Carries[d]].steps[s].attempts
            IN /\ e = d /\ s \in Assets /\ records' = records
               /\ mine'[d].steps[s].attempts = n + 1
               /\ manifest'[Carries[d]].steps[s].attempts = n + 1
               /\ NextAttempted(d) = Made(Carries[d], s, n + 1)
<1>1. CASE e # d
  <2>1. mine'[e] = mine[e] /\ pc'[e] = pc[e] /\ at'[e] = at[e]
    BY <1>1 DEF Moved, Alone
  <2> QED BY <1>1, <2>1 DEF NextAttempted, Attempted, Here, HereStep
<1>2. CASE e = d
  <2>1. Saved(d)
    BY <1>2 DEF Moved, Ended, Entered, Proceeded, Changed, Over
  <2>2. /\ Order[at'[d]] = Here(d) /\ Here(d) \in Assets /\ records' = records
        /\ mine'[d].steps[Here(d)].attempts = mine[d].steps[Here(d)].attempts + 1
        /\ manifest'[Carries[d]] = mine'[d]
    BY <1>2, <2>1 DEF Saved, Here
  <2>3. mine[d].steps[Here(d)].attempts = manifest[Carries[d]].steps[Here(d)].attempts
    BY <2>1, <2>2 DEF Saved, AttemptsAreCounted
  <2> QED BY <1>2, <2>2, <2>3 DEF NextAttempted
<1> QED BY <1>1, <1>2

\* The attempts at one step of one run are told apart by their number.
LEMMA AttemptsDiffer ==
  ASSUME NEW r, NEW s, NEW m, NEW q, NEW t, NEW n, Made(r, s, m) = Made(q, t, n)
  PROVE  r = q /\ s = t /\ m = n
BY DEF Made

LEMMA RecordsMoveOn ==
  ASSUME KInv, KInv', AttemptsAreCounted, RecordsAreDistinct, NEW d \in Drivers, Moved(d),
         NEW x \in records'
  PROVE  /\ x.id.attempt <= manifest'[Carries[x.by]].steps[x.id.asset].attempts
         /\ \A t \in Dependencies[x.id.asset] : x.parents[t] # None
         /\ \A y \in records' : x.id = y.id => x = y
<1>1. /\ x.by \in Drivers /\ x.id.asset \in Assets /\ x.id.attempt \in Nat
      /\ Carries[x.by] \in Runs
  BY DagAssumption DEF KInv, LakeTyped, RecordIds
<1>2. /\ AttemptsKept
      /\ manifest[Carries[x.by]].steps[x.id.asset].attempts \in Nat
      /\ manifest'[Carries[x.by]].steps[x.id.asset].attempts \in Nat
      /\ manifest[Carries[x.by]].steps[x.id.asset].attempts
           <= manifest'[Carries[x.by]].steps[x.id.asset].attempts
  BY <1>1, AttemptsStay DEF AttemptsKept
<1>3. ASSUME NEW z \in records', z \notin records
      PROVE  /\ z = NewRecord(d) /\ pc[d] = "execute" /\ Supplied(d) /\ manifest' = manifest
             /\ z.id = Attempted(d)
             /\ z.id.attempt = HereStep(d).attempts /\ z.id.asset = Here(d) /\ z.by = d
             /\ \A t \in Dependencies[Here(d)] : z.parents[t] # None
             /\ \A y \in records : y.id # z.id
  <2>1. z = NewRecord(d) /\ pc[d] = "execute" /\ Supplied(d) /\ manifest' = manifest
    BY <1>3, RecordsGrow
  <2>2. /\ z.id = Attempted(d) /\ z.by = d /\ z.parents = Parents(mine[d], Here(d))
        /\ z.id.attempt = HereStep(d).attempts /\ z.id.asset = Here(d)
    BY <2>1 DEF NewRecord, Attempted, Made
  <2> QED BY <2>1, <2>2 DEF Supplied, RecordsAreDistinct
<1>4. CASE x \in records
  <2>1. /\ x.id.attempt <= manifest[Carries[x.by]].steps[x.id.asset].attempts
        /\ \A t \in Dependencies[x.id.asset] : x.parents[t] # None
        /\ \A y \in records : x.id = y.id => x = y
    BY <1>4 DEF RecordsAreDistinct
  <2>2. \A y \in records' : x.id = y.id => x = y
    BY <1>3, <1>4, <2>1
  <2>3. x.id.attempt <= manifest'[Carries[x.by]].steps[x.id.asset].attempts
    BY <1>1, <1>2, <2>1
  <2> QED BY <2>1, <2>2, <2>3
<1>5. CASE x \notin records
  <2>1. /\ x = NewRecord(d) /\ pc[d] = "execute" /\ manifest' = manifest
        /\ x.id.attempt = HereStep(d).attempts /\ x.id.asset = Here(d) /\ x.by = d
        /\ \A t \in Dependencies[Here(d)] : x.parents[t] # None
        /\ \A y \in records : y.id # x.id
    BY <1>3, <1>5
  <2>2. HereStep(d).attempts <= manifest[Carries[d]].steps[Here(d)].attempts
    BY <2>1 DEF RecordsAreDistinct
  <2>3. \A y \in records' : x.id = y.id => x = y
    BY <1>3, <2>1
  <2> QED BY <2>1, <2>2, <2>3
<1> QED BY <1>4, <1>5

LEMMA AttemptsStayApart ==
  ASSUME KInv, KInv', AttemptsAreCounted, RecordsAreDistinct, NEW d \in Drivers, Moved(d),
         NEW e \in Drivers, pc'[e] = "execute"
  PROVE  LET s == Order[at'[e]] IN
         /\ mine'[e].steps[s].attempts <= manifest'[Carries[e]].steps[s].attempts
         /\ \A x \in records' : x.id # NextAttempted(e)
         /\ \A f \in Drivers \ {e} : pc'[f] = "execute" => NextAttempted(f) # NextAttempted(e)
<1> DEFINE s == Order[at'[e]]
<1>1. AttemptsKept /\ Carries[e] \in Runs /\ Carries[d] \in Runs
  BY AttemptsStay, DagAssumption
<1>2. ASSUME NEW f \in Drivers, pc[f] = "execute"
      PROVE  /\ Attempted(f) = Made(Carries[f], Here(f), HereStep(f).attempts)
             /\ HereStep(f).attempts <= manifest[Carries[f]].steps[Here(f)].attempts
             /\ \A x \in records : x.id # Attempted(f)
             /\ \A g \in Drivers \ {f} : pc[g] = "execute" => Attempted(g) # Attempted(f)
             /\ Here(f) \in Assets /\ HereStep(f).attempts \in Nat
  <2>1. Here(f) \in Assets /\ HereStep(f) \in Steps
    BY <1>2, HereTyped DEF KInv, DriverTyped, Working, Making
  <2> QED BY <1>2, <2>1 DEF RecordsAreDistinct, Attempted, Steps
<1>3. ASSUME NEW n, NEW t \in Assets,
             n = manifest[Carries[d]].steps[t].attempts,
             NEW f \in Drivers, pc[f] = "execute"
      PROVE  Attempted(f) # Made(Carries[d], t, n + 1)
  <2>1. n \in Nat
    BY <1>1, <1>3 DEF AttemptsKept
  <2> QED BY <1>2, <1>3, <2>1, AttemptsDiffer
<1>4. ASSUME NEW n, NEW t \in Assets,
             n = manifest[Carries[d]].steps[t].attempts, NEW x \in records
      PROVE  x.id # Made(Carries[d], t, n + 1)
  <2>1. n \in Nat /\ x.id.attempt \in Nat
    BY <1>1, <1>4 DEF AttemptsKept, KInv, LakeTyped, RecordIds
  <2>2. /\ x.id.run = Carries[x.by]
        /\ x.id.attempt <= manifest[Carries[x.by]].steps[x.id.asset].attempts
    BY <1>4 DEF AttemptsAreCounted, RecordsAreDistinct
  <2> QED BY <1>4, <2>1, <2>2 DEF Made
<1>5. CASE e # d
  <2>1. /\ pc[e] = "execute" /\ NextAttempted(e) = Attempted(e)
        /\ mine'[e] = mine[e] /\ at'[e] = at[e]
    BY <1>5, AtWorkNext
  <2>2. mine'[e].steps[s].attempts <= manifest'[Carries[e]].steps[s].attempts
    <3>1. /\ s = Here(e) /\ mine'[e].steps[s] = HereStep(e)
      BY <2>1 DEF Here, HereStep
    <3>2. /\ manifest[Carries[e]].steps[s].attempts \in Nat
          /\ manifest'[Carries[e]].steps[s].attempts \in Nat
          /\ manifest[Carries[e]].steps[s].attempts <= manifest'[Carries[e]].steps[s].attempts
      BY <1>1, <1>2, <2>1, <3>1 DEF AttemptsKept
    <3> HIDE DEF s
    <3> QED BY <1>2, <2>1, <3>1, <3>2
  <2>3. \A x \in records' : x.id # Attempted(e)
    <3>1. pc[d] = "execute" => Attempted(d) # Attempted(e)
      BY <1>2, <1>5, <2>1
    <3>2. pc[d] = "execute" => NewRecord(d).id = Attempted(d)
      BY DEF NewRecord, Attempted
    <3> QED BY <1>2, <2>1, <3>1, <3>2, RecordsGrow
  <2>4. ASSUME NEW f \in Drivers \ {e}, pc'[f] = "execute"
        PROVE  NextAttempted(f) # Attempted(e)
    <3>1. CASE f # d
      BY <1>2, <2>1, <2>4, <3>1, AtWorkNext
    <3>2. CASE f = d
      BY <1>3, <2>1, <2>4, <3>2, AtWorkNext
    <3> QED BY <3>1, <3>2
  <2> QED BY <2>1, <2>2, <2>3, <2>4
<1>6. CASE e = d
  <2> DEFINE n == manifest[Carries[d]].steps[s].attempts
  <2>1. /\ s \in Assets /\ records' = records
        /\ mine'[d].steps[s].attempts = n + 1
        /\ manifest'[Carries[d]].steps[s].attempts = n + 1
        /\ NextAttempted(d) = Made(Carries[d], s, n + 1)
    BY <1>6, AtWorkNext
  <2>2. n \in Nat
    BY <1>1, <2>1 DEF AttemptsKept
  <2>3. \A x \in records' : x.id # NextAttempted(d)
    BY <1>4, <2>1
  <2>4. ASSUME NEW f \in Drivers \ {e}, pc'[f] = "execute"
        PROVE  NextAttempted(f) # NextAttempted(d)
    <3>1. pc[f] = "execute" /\ NextAttempted(f) = Attempted(f)
      BY <1>6, <2>4, AtWorkNext
    <3> QED BY <1>3, <2>1, <3>1
  <2>5. mine'[d].steps[s].attempts <= manifest'[Carries[d]].steps[s].attempts
    <3> HIDE DEF s, n
    <3> QED BY <2>1, <2>2
  <2> QED BY <1>6, <2>3, <2>4, <2>5
<1> QED BY <1>5, <1>6

LEMMA DistinctMoveOn ==
  ASSUME KInv, KInv', AttemptsAreCounted, RecordsAreDistinct, NEW d \in Drivers, Moved(d)
  PROVE  RecordsAreDistinct'
BY RecordsMoveOn, AttemptsStayApart
   DEF RecordsAreDistinct, Attempted, NextAttempted, Here, HereStep

-----------------------------------------------------------------------------
(* The invariant of runs that race. *)

RInv == KInv /\ PointersMoveOn /\ AttemptsAreCounted /\ RecordsAreDistinct

LEMMA InitMovesOn == Init => RInv
<1> SUFFICES ASSUME Init PROVE RInv
  OBVIOUS
<1>1. /\ manifest = [r \in Runs |-> Absent] /\ mine = [d \in Drivers |-> Absent]
      /\ pc = [d \in Drivers |-> "idle"] /\ records = {}
      /\ \A d \in Drivers : Carries[d] \in Runs
  BY DagAssumption DEF Init
<1>2. PointersMoveOn
  BY <1>1, AbsentKnown DEF PointersMoveOn, Over
<1>3. AttemptsAreCounted
  BY <1>1 DEF AttemptsAreCounted
<1>4. RecordsAreDistinct
  BY <1>1 DEF RecordsAreDistinct
<1> QED BY <1>2, <1>3, <1>4, InitKeeps DEF RInv

LEMMA NextMovesOn == RInv /\ [Next]_dagVars => RInv'
<1> SUFFICES ASSUME RInv, [Next]_dagVars PROVE RInv'
  OBVIOUS
<1>1. KInv' /\ StepKeeps
  BY KeepsStep, StepsKeep DEF RInv
<1>2. CASE UNCHANGED dagVars
  <2>1. PointersMoveOn'
    <3>1. UNCHANGED <<manifest, current, pc, mine, at>>
      BY <1>2 DEF dagVars, lakeVars, driverVars
    <3>2. Onward
      BY <1>1, <3>1 DEF Onward, StepKeeps, PlansKept, SamePlan
    <3>3. ASSUME NEW r \in Runs
          PROVE  IF manifest'[r].revision = 0 THEN manifest'[r] = Absent
                                              ELSE NextOnCourse(manifest'[r])
      BY <3>1, <3>2, StoredStays DEF RInv, PointersMoveOn
    <3>4. ASSUME NEW e \in Drivers
          PROVE  /\ pc'[e] \notin Over => NextOnCourse(mine'[e])
                 /\ mine'[e].revision = 0 =>
                      /\ pc'[e] \in Over \cup {"open", "release"}
                      /\ \A s \in Assets : mine'[e].steps[s].made = None
      BY <3>1, <3>2, CopiesStay DEF RInv, PointersMoveOn
    <3> QED BY <3>3, <3>4
            DEF PointersMoveOn, OnCourse, WasCurrent, NextOnCourse, NextWas
  <2>2. AttemptsAreCounted'
    BY <1>2 DEF RInv, dagVars, lakeVars, driverVars, AttemptsAreCounted, Here
  <2>3. RecordsAreDistinct'
    BY <1>2 DEF RInv, dagVars, lakeVars, driverVars, RecordsAreDistinct, Attempted,
                Here, HereStep
  <2> QED BY <1>1, <2>1, <2>2, <2>3 DEF RInv
<1>3. ASSUME NEW d \in Drivers, Enter(d) \/ Step(d) \/ Fail(d) \/ Crash(d)
      PROVE  RInv'
  <2>1. Moved(d)
    BY <1>3, EveryStepMoves DEF RInv
  <2>2. Onward
    BY <1>1, <2>1, PlansAreKept DEF Onward, StepKeeps, RInv
  <2> QED BY <1>1, <2>1, <2>2, MovesOn, AttemptsMoveOn, DistinctMoveOn DEF RInv
<1> QED BY <1>2, <1>3 DEF Next

\* What the runs, their copies and the pointers have in common, in every state
\* of any number of runs and drivers.
THEOREM RacingRunsInvariance == Spec => []RInv
BY InitMovesOn, NextMovesOn, PTL DEF Spec

\* A promotion that was lost stays lost: the record a step was planned on has
\* been current and does not come back, and the step's own record is promoted
\* over the one it was planned on only.
THEOREM LostStaysLostHolds == Spec => LostStaysLost
<1>1. RInv /\ [Next]_dagVars =>
        [\A r \in Runs, s \in Assets :
           LET step == manifest[r].steps[s] IN
           step.made # None /\ current[s] \notin {step.before, step.made}
             => current'[s] \notin {step.before, step.made}]_current
  <2> SUFFICES ASSUME RInv, [Next]_dagVars, NEW r \in Runs, NEW s \in Assets,
                      manifest[r].steps[s].made # None,
                      current[s] # manifest[r].steps[s].before,
                      current[s] # manifest[r].steps[s].made
               PROVE  /\ current'[s] # manifest[r].steps[s].before
                      /\ current'[s] # manifest[r].steps[s].made
    OBVIOUS
  <2>1. PromotionInOrder
    BY StepsKeep DEF RInv, StepKeeps
  <2>2. CASE current'[s] = current[s]
    BY <2>2
  <2>3. CASE current'[s] # current[s]
    <3>1. manifest[r].revision # 0 /\ manifest[r].steps[s].made.run = r
      BY DEF RInv, KInv, Stored, Empty, WellMade
    <3>2. WasCurrent(s, manifest[r].steps[s].before)
      BY <3>1 DEF RInv, PointersMoveOn, OnCourse
    <3>3. current'[s] # manifest[r].steps[s].before
      BY <2>1, <2>3, <3>2, PromotedIsNew
    <3>4. current'[s] # manifest[r].steps[s].made
      BY <2>1, <2>3, <3>1 DEF PromotionInOrder
    <3> QED BY <3>3, <3>4
  <2> QED BY <2>2, <2>3
<1> QED BY <1>1, InitMovesOn, NextMovesOn, PTL DEF Spec, LostStaysLost

\* A single driver's retries and crashes leave a resume one record at most.
THEOREM OneCandidatePerDriverHolds == Spec => []OneCandidatePerDriver
<1>1. RInv => OneCandidatePerDriver
  <2> SUFFICES ASSUME RInv, NEW r \in Runs, NEW s \in Assets,
                      NEW x \in Candidates(r, s, manifest[r].steps[s].attempts),
                      NEW y \in Candidates(r, s, manifest[r].steps[s].attempts),
                      x.by = y.by, x # y
               PROVE  FALSE
    BY DEF OneCandidatePerDriver
  <2>1. /\ x \in records /\ x.id.asset = s /\ x.id.run = r
        /\ x.since >= manifest[r].steps[s].attempts
        /\ y \in records /\ y.id.asset = s
        /\ y.since >= manifest[r].steps[s].attempts
    BY DEF Candidates
  <2>2. x.since \in Nat /\ y.since \in Nat
    BY <2>1 DEF RInv, KInv, LakeTyped
  <2>3. manifest[r].steps[s].attempts \in Nat
    BY FieldsTyped DEF RInv, KInv, LakeTyped, Steps
  <2>4. /\ x.id.run = Carries[x.by]
        /\ \/ x.since < manifest[Carries[x.by]].steps[s].attempts
           \/ y.since < manifest[Carries[x.by]].steps[s].attempts
    BY <2>1 DEF RInv, AttemptsAreCounted
  <2> QED BY <2>1, <2>2, <2>3, <2>4
<1> QED BY <1>1, RacingRunsInvariance, PTL

-----------------------------------------------------------------------------
(* What the planner takes for due.  The planner's recursion goes along the    *)
(* order of the assets, and so do the arguments about it: where the claim     *)
(* fails at all, it fails at a first place, and there it does not.            *)

LEMMA NatOrdered ==
  \E R : IsWellFoundedOn(R, Nat) /\ \A x, y \in Nat : x < y => <<x, y>> \in R
<1>1. \A x, y \in Nat : x < y => <<x, y>> \in OpToRel(<, Nat)
  BY DEF OpToRel
<1> QED BY <1>1, NatLessThanWellFounded

LEMMA LeastNumber ==
  ASSUME NEW T, T \subseteq Nat, T # {}
  PROVE  \E n \in T : \A m \in T : n <= m
<1>1. PICK R : IsWellFoundedOn(R, Nat) /\ \A x, y \in Nat : x < y => <<x, y>> \in R
  BY NatOrdered
<1>2. IsWellFoundedOn(R, Nat)
  BY <1>1
<1>3. \E x \in T : \A y \in T : ~ (<<y, x>> \in R)
  BY <1>2, WFMin, Zenon
<1>4. PICK n \in T : \A m \in T : ~ (<<m, n>> \in R)
  BY <1>3
<1>5. ASSUME NEW m \in T
      PROVE  n <= m
  <2>1. ~ (m < n)
    BY <1>1, <1>4
  <2> QED BY <2>1
<1> QED BY <1>5

\* One step of the planner's recursion.
IsDue(forced, f, s) == s \in forced \/ HasReason(s, {t \in Dependencies[s] : f[t]})

LEMMA SameDue ==
  ASSUME NEW forced, NEW f, NEW g, NEW s, \A t \in Dependencies[s] : f[t] = g[t]
  PROVE  IsDue(forced, f, s) = IsDue(forced, g, s)
<1>1. {t \in Dependencies[s] : f[t]} = {t \in Dependencies[s] : g[t]}
  OBVIOUS
<1> QED BY <1>1 DEF IsDue

\* The recursion has a solution up to each place of the order.
LEMMA DueUpTo ==
  ASSUME NEW forced
  PROVE  \E f \in [Assets -> BOOLEAN] :
           \A i \in 1 .. Len(Order) : f[Order[i]] = IsDue(forced, f, Order[i])
<1> DEFINE Solves(f, n) == \A i \in 1 .. n : f[Order[i]] = IsDue(forced, f, Order[i])
           Bad == {n \in 0 .. Len(Order) : ~ \E f \in [Assets -> BOOLEAN] : Solves(f, n)}
<1>1. Len(Order) \in Nat
  BY OrderKnown
<1>2. CASE Bad = {}
  <2>1. Len(Order) \notin Bad
    BY <1>2
  <2>2. \E f \in [Assets -> BOOLEAN] : Solves(f, Len(Order))
    BY <1>1, <2>1
  <2> QED BY <2>2
<1>3. CASE Bad # {}
  <2>1. PICK n \in Bad : \A m \in Bad : n <= m
    <3>1. Bad \subseteq Nat
      BY <1>1
    <3> QED BY <1>3, <3>1, LeastNumber
  <2>2. n \in 0 .. Len(Order) /\ ~ \E f \in [Assets -> BOOLEAN] : Solves(f, n)
    BY <2>1
  <2>3. n # 0
    <3>1. Solves([s \in Assets |-> FALSE], 0)
      OBVIOUS
    <3> QED BY <2>2, <3>1
  <2>4. n - 1 \in 0 .. Len(Order) /\ n - 1 \notin Bad
    <3>1. n - 1 \in 0 .. Len(Order) /\ ~ (n <= n - 1)
      BY <1>1, <2>2, <2>3
    <3> HIDE DEF Bad
    <3> QED BY <2>1, <3>1
  <2>5. PICK f \in [Assets -> BOOLEAN] : Solves(f, n - 1)
    BY <2>4
  <2> DEFINE g == [f EXCEPT ![Order[n]] = IsDue(forced, f, Order[n])]
  <2>6. /\ n \in 1 .. Len(Order) /\ Order[n] \in Assets
        /\ \A i \in 1 .. Len(Order) : Order[i] \in Assets
        /\ \A i, j \in 1 .. Len(Order) : Order[i] = Order[j] => i = j
    BY <1>1, <2>2, <2>3, OrderKnown, DagAssumption
  <2>7. g \in [Assets -> BOOLEAN]
    <3>1. IsDue(forced, f, Order[n]) \in BOOLEAN
      BY DEF IsDue, HasReason
    <3> QED BY <2>6, <3>1
  <2>8. /\ g[Order[n]] = IsDue(forced, f, Order[n])
        /\ \A s \in Assets : s # Order[n] => g[s] = f[s]
    BY <2>6
  <2> HIDE DEF g
  <2>9. ASSUME NEW i \in 1 .. n
        PROVE  g[Order[i]] = IsDue(forced, g, Order[i])
    <3>1. \A t \in Dependencies[Order[i]] : f[t] = g[t]
      <4> SUFFICES ASSUME NEW t \in Dependencies[Order[i]] PROVE f[t] = g[t]
        OBVIOUS
      <4>1. i \in 1 .. Len(Order)
        BY <2>6
      <4>2. PICK j \in 1 .. i - 1 : Order[j] = t
        BY <4>1, OrderKnown
      <4>3. j \in 1 .. Len(Order) /\ j # n
        BY <2>6, <4>1, <4>2
      <4>4. t \in Assets /\ t # Order[n]
        BY <2>6, <4>2, <4>3
      <4> QED BY <2>8, <4>4
    <3>2. IsDue(forced, f, Order[i]) = IsDue(forced, g, Order[i])
      BY <3>1, SameDue
    <3>3. CASE i = n
      BY <2>8, <3>2, <3>3
    <3>4. CASE i # n
      <4>1. /\ i \in 1 .. n - 1 /\ Order[i] \in Assets /\ Order[i] # Order[n]
        BY <2>6, <3>4
      <4>2. f[Order[i]] = IsDue(forced, f, Order[i])
        BY <2>5, <4>1
      <4> QED BY <2>8, <3>2, <4>1, <4>2
    <3> QED BY <3>3, <3>4
  <2>10. Solves(g, n)
    BY <2>9
  <2> QED BY <2>2, <2>7, <2>10
<1> QED BY <1>2, <1>3

\* What the planner computes satisfies its equation.
LEMMA DueKnown ==
  ASSUME NEW forced
  PROVE  /\ Due(forced) \subseteq Assets
         /\ \A s \in Assets :
              s \in Due(forced) <=>
                s \in forced \/ HasReason(s, {t \in Dependencies[s] : t \in Due(forced)})
<1> DEFINE due == CHOOSE f : f = [s \in Assets |-> IsDue(forced, f, s)]
<1>1. \E f : f = [s \in Assets |-> IsDue(forced, f, s)]
  <2>1. PICK f \in [Assets -> BOOLEAN] :
          \A i \in 1 .. Len(Order) : f[Order[i]] = IsDue(forced, f, Order[i])
    BY DueUpTo
  <2>2. \A s \in Assets : f[s] = IsDue(forced, f, s)
    BY <2>1, OrderKnown
  <2>3. f = [s \in Assets |-> IsDue(forced, f, s)]
    BY <2>2
  <2> QED BY <2>3
<1>2. due = [s \in Assets |-> IsDue(forced, due, s)]
  BY <1>1
<1>3. Due(forced) = {s \in Assets : due[s]}
  BY DEF Due, IsDue
<1> HIDE DEF due
<1>4. \A s \in Assets : due[s] = IsDue(forced, due, s)
  BY <1>2
<1>5. ASSUME NEW s \in Assets
      PROVE  s \in Due(forced) <=>
               s \in forced \/ HasReason(s, {t \in Dependencies[s] : t \in Due(forced)})
  <2>1. \A t \in Dependencies[s] : t \in Assets
    BY OrderKnown
  <2>2. {t \in Dependencies[s] : due[t]} = {t \in Dependencies[s] : t \in Due(forced)}
    BY <1>3, <2>1
  <2>3. s \in Due(forced) <=> IsDue(forced, due, s)
    BY <1>3, <1>4
  <2> QED BY <2>2, <2>3 DEF IsDue
<1> QED BY <1>3, <1>5

\* A record is found by its name.
LEMMA FoundByName ==
  ASSUME RecordsAreDistinct, NEW s, current[s] # Before(s),
         NEW rec \in records, rec.id = current[s]
  PROVE  MadeFrom(s) = rec.parents
<1>1. \A x \in records : x.id = current[s] => x = rec
  BY DEF RecordsAreDistinct
<1>2. (CHOOSE x \in records : x.id = current[s]) = rec
  BY <1>1
<1> QED BY <1>2 DEF MadeFrom

\* What a promoting run has made, and is current with all the run goes by, is
\* only due again if something it was made from is.
LEMMA MadeOnDue ==
  ASSUME RInv, LineageInv, NEW r \in Runs, NEW s \in Assets,
         Status(manifest[r], s) = "succeeded", s \in Due({}),
         \A t \in Assets :
           current[t] = IF Status(manifest[r], t) = "succeeded" THEN manifest[r].steps[t].made
                                                                ELSE manifest[r].steps[t].before
  PROVE  \E t \in Dependencies[s] : t \in Due({}) /\ Status(manifest[r], t) \in Final
<1> DEFINE m == manifest[r]
           Planned == {t \in Dependencies[s] : t \in Due({})}
<1>1. /\ m.steps[s].made # None /\ m.steps[s].made.run = r /\ m.steps[s].made.asset = s
      /\ current[s] = m.steps[s].made
  BY DEF RInv, KInv, Stored, WellMade, Status
<1>2. current[s] # Before(s)
  <2>1. r # None
    BY DagAssumption
  <2> QED BY <1>1, <2>1 DEF Before
<1>3. \A t \in Dependencies[s] :
        /\ t \in Assets /\ Status(m, t) \in Final
        /\ current[t] = Parent(m, t)
  <2>1. Supports(m, s)
    BY DEF LineageInv, StoredSound, Sound, AtWork, Status
  <2>2. \A t \in Dependencies[s] : t \in Assets
    BY OrderKnown
  <2> QED BY <2>1, <2>2 DEF Supports, Status, Parent
<1>4. PICK rec \in records :
        rec.id = m.steps[s].made /\ \A t \in Dependencies[s] : rec.parents[t] = Parent(m, t)
  BY <1>1 DEF LineageInv, StoredSound, Sound, MadeIn
<1>5. /\ rec.parents \in [Dependencies[s] -> RecordIds \cup {None}]
      /\ \A t \in Dependencies[s] : rec.parents[t] # None
  BY <1>1, <1>4 DEF RInv, RecordsAreDistinct, KInv, LakeTyped
<1>6. MadeFrom(s) = [t \in Dependencies[s] |-> current[t]]
  <2>1. MadeFrom(s) = rec.parents
    BY <1>1, <1>2, <1>4, FoundByName DEF RInv
  <2>2. rec.parents = [t \in Dependencies[s] |-> rec.parents[t]]
    BY <1>5
  <2> QED BY <1>3, <1>4, <2>1, <2>2
<1>7. HasReason(s, Planned)
  BY DueKnown
<1>8. \A t \in Dependencies[s] : current[t] # None
  BY <1>3, <1>4, <1>5
<1>9. PICK t \in Dependencies[s] : t \in Planned
  BY <1>1, <1>2, <1>6, <1>7, <1>8 DEF HasReason, TooOld
<1> QED BY <1>3, <1>9

\* A run that promotes leaves nothing behind that it has made and the planner
\* would make again: of the assets for which it does, take the first in the
\* order.  What it was made from is still current, so one of its dependencies
\* is due, which the run has made, or has skipped and then it is not due.
THEOREM SucceededIsUpToDateHolds == Spec => []SucceededIsUpToDate
<1>1. RInv /\ LineageInv => SucceededIsUpToDate
  <2> SUFFICES ASSUME RInv, LineageInv, NEW r \in Runs,
                 \A t \in Assets :
                   current[t] = IF Status(manifest[r], t) = "succeeded"
                                  THEN manifest[r].steps[t].made
                                  ELSE manifest[r].steps[t].before,
                 \A t \in Due({}) : Status(manifest[r], t) # "skipped",
                 NEW s \in Due({}), Status(manifest[r], s) = "succeeded"
               PROVE  FALSE
    BY DEF SucceededIsUpToDate
  <2> DEFINE DueAgain(i) == Order[i] \in Due({}) /\ Status(manifest[r], Order[i]) = "succeeded"
             Places == {i \in 1 .. Len(Order) : DueAgain(i)}
  <2>1. Places # {} /\ Places \subseteq Nat
    <3>1. s \in Assets
      BY DueKnown
    <3>2. PICK i \in 1 .. Len(Order) : Order[i] = s
      BY <3>1, OrderKnown
    <3> QED BY <3>2, OrderKnown
  <2>2. PICK i \in Places : \A j \in Places : i <= j
    BY <2>1, LeastNumber
  <2>3. i \in 1 .. Len(Order) /\ Order[i] \in Assets /\ DueAgain(i)
    BY <2>2, OrderKnown
  <2>4. PICK t \in Dependencies[Order[i]] :
          t \in Due({}) /\ Status(manifest[r], t) \in Final
    BY <2>3, MadeOnDue
  <2>5. PICK j \in 1 .. i - 1 : Order[j] = t
    BY <2>3, OrderKnown
  <2>6. DueAgain(j)
    BY <2>4, <2>5 DEF Final
  <2>7. j \in Places
    BY <2>3, <2>5, <2>6, OrderKnown
  <2> QED BY <2>2, <2>3, <2>5, <2>7, OrderKnown
<1>2. Init => RInv /\ LineageInv
  BY InitMovesOn, InitLineage
<1>3. (RInv /\ LineageInv) /\ [Next]_dagVars => (RInv /\ LineageInv)'
  BY NextMovesOn, LineageStep
<1> QED BY <1>1, <1>2, <1>3, PTL DEF Spec

=============================================================================
