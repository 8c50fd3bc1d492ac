--------------------------- MODULE DagRun_proofs ---------------------------
(***************************************************************************)
(* Theorems about DagRun for any runs, drivers and assets.                 *)
(*                                                                         *)
(* Types alone are not inductive: a driver at work stands at a step of the *)
(* order, and has an attempt left whenever it may start or retry one.      *)
(***************************************************************************)
EXTENDS DagRun, TLAPS

\* The steps of a driver at work on one asset.
Making == {"execute", "materialized", "failing", "backoff"}
Promoting == {"promoted", "unpromoted"}
Working == Making \cup Promoting

\* A driver swaps a pointer, or tries to.
TryPromotion(d) == Promote(d) \/ LosePromotion(d) \/ FailPromotion(d)

\* Types, with what a driver at work needs of its position and its attempts.
TypeInv ==
  /\ DTypeOK
  /\ \A d \in Drivers :
       /\ pc[d] \in Working => at[d] <= Len(Order)
       /\ pc[d] \in {"loop", "execute", "backoff"} => try[d] < MaxAttempts[d]

-----------------------------------------------------------------------------
(* Facts about manifests. *)

\* The fields of a manifest.
LEMMA FieldsTyped ==
  ASSUME NEW m \in Manifests
  PROVE  /\ m.revision \in Nat /\ m.lease \in Drivers \cup {None}
         /\ m.status \in RunStatuses /\ m.promote \in BOOLEAN
         /\ m.steps \in [Assets -> Steps]
         /\ \A s \in Assets :
              /\ m.steps[s] \in Steps
              /\ m.steps[s].status \in StepStatuses
              /\ m.steps[s].before \in RecordIds \cup {None}
              /\ m.steps[s].made \in RecordIds \cup {None}
              /\ m.steps[s].attempts \in Nat /\ m.steps[s].open \in BOOLEAN
BY DEF Manifests, Steps

\* With replaces one step and leaves the others alone.
LEMMA WithTyped ==
  ASSUME NEW m \in Manifests, NEW s \in Assets, NEW step \in Steps
  PROVE  /\ With(m, s, step) \in Manifests
         /\ With(m, s, step).revision = m.revision
         /\ With(m, s, step).steps[s] = step
         /\ \A t \in Assets \ {s} : With(m, s, step).steps[t] = m.steps[t]
BY DEF With, Manifests, RunStatuses

\* A resumed manifest keeps each step's plan, and the results of a step that
\* has made a record; the others start again without one.
LEMMA PreparedTyped ==
  ASSUME NEW m \in Manifests
  PROVE  /\ Prepared(m) \in Manifests
         /\ Prepared(m).revision = m.revision
         /\ \A s \in Assets :
              LET old == m.steps[s]
                  new == Prepared(m).steps[s]
              IN /\ new.before = old.before
                 /\ \/ new = old /\ old.status \in {"succeeded", "skipped", "materialized"}
                    \/ /\ old.status = "failed" /\ old.made # None
                       /\ new.made = old.made /\ new.status = "materialized"
                    \/ /\ old.status \notin {"succeeded", "skipped", "materialized"}
                       /\ ~(old.status = "failed" /\ old.made # None)
                       /\ new.made = None /\ new.status = "planned"
<1> DEFINE Next1(s) ==
             IF Status(m, s) \in {"succeeded", "skipped", "materialized"} THEN m.steps[s]
             ELSE IF Status(m, s) = "failed" /\ m.steps[s].made # None
               THEN [m.steps[s] EXCEPT !.status = "materialized"]
             ELSE [m.steps[s] EXCEPT !.status = "planned", !.made = None,
                                     !.open = FALSE]
<1>1. \A s \in Assets : m.steps[s] \in Steps
  BY FieldsTyped
<1>2. ASSUME NEW s \in Assets
      PROVE  Next1(s) \in Steps
  BY <1>1, <1>2 DEF Steps, StepStatuses, Status
<1>3. Prepared(m) = [m EXCEPT !.status = "running", !.steps = [s \in Assets |-> Next1(s)]]
  BY DEF Prepared
<1> HIDE DEF Next1
<1> DEFINE steps == [s \in Assets |-> Next1(s)]
<1>s. steps \in [Assets -> Steps] /\ \A s \in Assets : steps[s] = Next1(s)
  BY <1>2
<1> HIDE DEF steps
<1>4. /\ Prepared(m) \in Manifests /\ Prepared(m).revision = m.revision
      /\ \A s \in Assets : Prepared(m).steps[s] = Next1(s)
  <2>1. Prepared(m) = [m EXCEPT !.status = "running", !.steps = steps]
    BY <1>3 DEF steps
  <2> QED BY <1>s, <2>1 DEF Manifests, RunStatuses
<1>5. ASSUME NEW s \in Assets
      PROVE  LET old == m.steps[s]
                 new == Next1(s)
             IN /\ new.before = old.before
                /\ \/ new = old /\ old.status \in {"succeeded", "skipped", "materialized"}
                   \/ /\ old.status = "failed" /\ old.made # None
                      /\ new.made = old.made /\ new.status = "materialized"
                   \/ /\ old.status \notin {"succeeded", "skipped", "materialized"}
                      /\ ~(old.status = "failed" /\ old.made # None)
                      /\ new.made = None /\ new.status = "planned"
  BY <1>1, <1>5 DEF Steps, Status, Next1
<1> QED BY <1>4, <1>5

\* The empty manifest and a new plan.
LEMMA PlanTyped ==
  ASSUME NEW r \in Runs, NEW promote \in BOOLEAN, DTypeOK
  PROVE  /\ Absent \in Manifests /\ Absent.revision = 0
         /\ FromPlan(r, promote) \in Manifests
         /\ FromPlan(r, promote).revision = 0
         /\ \A s \in Assets :
              /\ FromPlan(r, promote).steps[s].made = None
              /\ FromPlan(r, promote).steps[s].status \in {"planned", "skipped"}
<1>1. \A s \in Assets : Before(s) \in RecordIds \cup {None}
  BY DagAssumption DEF Before, RecordIds
<1>2. \A s \in Assets : current[s] \in RecordIds \cup {None}
  BY DEF DTypeOK
<1>3. \A status \in StepStatuses, rec \in RecordIds \cup {None} :
        /\ NewStep(status, rec) \in Steps
        /\ NewStep(status, rec).made = None /\ NewStep(status, rec).status = status
  BY DEF NewStep, Steps
<1>4. Absent \in Manifests /\ Absent.revision = 0
  BY <1>3 DEF Absent, Manifests, RunStatuses, StepStatuses
<1> DEFINE chosen == IF promote THEN Due(Forced[r]) ELSE Forced[r]
           New(s) == NewStep(IF s \in chosen THEN "planned" ELSE "skipped",
                             IF promote THEN current[s] ELSE Before(s))
<1>5. ASSUME NEW s \in Assets
      PROVE  /\ New(s) \in Steps /\ New(s).made = None
             /\ New(s).status \in {"planned", "skipped"}
  BY <1>1, <1>2, <1>3, <1>5 DEF StepStatuses
<1>6. FromPlan(r, promote) = [Absent EXCEPT !.status = "planned", !.promote = promote,
                                            !.steps = [s \in Assets |-> New(s)]]
  BY SMT DEF FromPlan
<1> HIDE DEF New
<1> DEFINE steps == [s \in Assets |-> New(s)]
<1>s. steps \in [Assets -> Steps] /\ \A s \in Assets : steps[s] = New(s)
  BY <1>5
<1> HIDE DEF steps
<1>7. /\ FromPlan(r, promote) \in Manifests /\ FromPlan(r, promote).revision = 0
      /\ \A s \in Assets : FromPlan(r, promote).steps[s] = New(s)
  <2>1. FromPlan(r, promote) = [Absent EXCEPT !.status = "planned", !.promote = promote,
                                              !.steps = steps]
    BY <1>6 DEF steps
  <2> QED BY <1>s, <1>4, <2>1 DEF Manifests, RunStatuses
<1> QED BY <1>4, <1>5, <1>7

-----------------------------------------------------------------------------
(* Types. *)

LakeTyped ==
  /\ manifest \in [Runs -> Manifests]
  /\ \A rec \in records :
       /\ rec.id \in RecordIds /\ rec.since \in Nat /\ rec.by \in Drivers
       /\ rec.parents \in [Dependencies[rec.id.asset] -> RecordIds \cup {None}]
  /\ current \in [Assets -> RecordIds \cup {None}]
  /\ recorded \subseteq Runs

DriverTyped ==
  /\ pc \in [Drivers -> PcStates]
  /\ mine \in [Drivers -> Manifests]
  /\ at \in [Drivers -> 1 .. Len(Order) + 1]
  /\ gaps \in [Drivers -> SUBSET Assets]
  /\ try \in [Drivers -> Nat]
  /\ \A d \in Drivers :
       /\ try[d] <= MaxAttempts[d]
       /\ pc[d] \in Working => at[d] <= Len(Order)
       /\ pc[d] \in {"loop", "execute", "backoff"} => try[d] < MaxAttempts[d]

\* A driver that ends, or meets an error, stays well typed.
LEMMA StopTyped ==
  ASSUME DriverTyped, NEW d \in Drivers, Stop(d)
  PROVE  DriverTyped'
<1>1. Absent \in Manifests
  BY DEF Absent, NewStep, Manifests, Steps, RunStatuses, StepStatuses
<1>2. 1 \in 1 .. Len(Order) + 1
  BY DagAssumption
<1>3. \A e \in Drivers : MaxAttempts[e] \in Nat \ {0}
  BY DagAssumption
<1> QED
  BY <1>1, <1>2, <1>3 DEF DriverTyped, Stop, GoTo, PcStates, Over, Working, Making, Promoting

LEMMA RaiseTyped ==
  ASSUME DriverTyped, NEW d \in Drivers, Raise(d)
  PROVE  DriverTyped'
<1>1. CASE mine[d].lease = d
  BY <1>1 DEF DriverTyped, Raise, GoTo, PcStates, Working, Making, Promoting
<1>2. CASE mine[d].lease # d
  BY <1>2, StopTyped DEF Raise
<1> QED BY <1>1, <1>2

\* A save keeps the types, when what it saves and where it goes have theirs.
LEMMA PersistTyped ==
  ASSUME LakeTyped, DriverTyped, NEW d \in Drivers, NEW new \in Manifests,
         NEW step \in PcStates, NEW next \in 1 .. Len(Order) + 1,
         step \in Working => next <= Len(Order),
         step \in {"execute", "backoff"} => try[d] < MaxAttempts[d],
         Persist(d, new, step, next)
  PROVE  manifest' \in [Runs -> Manifests] /\ DriverTyped'
<1> DEFINE r == Carries[d]
           saved == [new EXCEPT !.revision = mine[d].revision + 1]
<1>1. r \in Runs /\ mine[d].revision \in Nat
  BY DagAssumption, FieldsTyped DEF DriverTyped
<1>2. saved \in Manifests
  BY <1>1 DEF Manifests
<1>3. CASE manifest[r].revision = mine[d].revision
  <2>1. /\ manifest' = [manifest EXCEPT ![r] = saved]
        /\ mine' = [mine EXCEPT ![d] = saved]
        /\ at' = [at EXCEPT ![d] = next]
        /\ pc' = [pc EXCEPT ![d] = step]
        /\ gaps' = [gaps EXCEPT ![d] = IF pc[d] = "open" THEN Unavailable(r, saved) ELSE @]
        /\ try' = [try EXCEPT ![d] = IF step \in {"execute", "backoff"} THEN @ ELSE 0]
    BY <1>3 DEF Persist, GoTo
  <2>2. Unavailable(r, saved) \subseteq Assets
    BY DEF Unavailable
  <2>3. \A e \in Drivers : MaxAttempts[e] \in Nat \ {0}
    BY DagAssumption
  <2>4. manifest' \in [Runs -> Manifests]
    BY <1>1, <1>2, <2>1 DEF LakeTyped
  <2>5. /\ pc' \in [Drivers -> PcStates] /\ mine' \in [Drivers -> Manifests]
        /\ at' \in [Drivers -> 1 .. Len(Order) + 1]
        /\ gaps' \in [Drivers -> SUBSET Assets] /\ try' \in [Drivers -> Nat]
    BY <1>2, <2>1, <2>2 DEF DriverTyped
  <2>6. \A e \in Drivers :
          /\ try'[e] <= MaxAttempts[e]
          /\ pc'[e] \in Working => at'[e] <= Len(Order)
          /\ pc'[e] \in {"loop", "execute", "backoff"} => try'[e] < MaxAttempts[e]
    BY <2>1, <2>3 DEF DriverTyped, Working, Making, Promoting
  <2> QED BY <2>4, <2>5, <2>6 DEF DriverTyped
<1>4. CASE manifest[r].revision # mine[d].revision
  BY <1>4, RaiseTyped DEF Persist, LakeTyped
<1> QED BY <1>3, <1>4

\* The step a driver in the loop or at work stands at.
LEMMA HereTyped ==
  ASSUME DriverTyped, NEW d \in Drivers, at[d] <= Len(Order)
  PROVE  /\ Here(d) \in Assets /\ HereStep(d) = mine[d].steps[Here(d)]
         /\ mine[d] \in Manifests /\ HereStep(d) \in Steps
         /\ at[d] + 1 \in 1 .. Len(Order) + 1 /\ at[d] \in 1 .. Len(Order) + 1
<1>1. at[d] \in 1 .. Len(Order) /\ Len(Order) \in Nat
  BY DagAssumption DEF DriverTyped
<1>2. Here(d) \in Assets
  BY <1>1, DagAssumption DEF Here
<1> QED BY <1>1, <1>2, FieldsTyped DEF HereStep, DriverTyped

\* Saving a changed step.
LEMMA SaveTyped ==
  ASSUME LakeTyped, DriverTyped, NEW d \in Drivers, at[d] <= Len(Order),
         NEW step \in Steps,
         \/ SaveAndGoOn(d, step)
         \/ /\ SaveAndStay(d, step, "loop")
         \/ /\ \/ SaveAndStay(d, step, "execute")
               \/ SaveAndStay(d, step, "backoff")
            /\ try[d] < MaxAttempts[d]
  PROVE  manifest' \in [Runs -> Manifests] /\ DriverTyped'
<1>1. /\ With(mine[d], Here(d), step) \in Manifests
      /\ at[d] + 1 \in 1 .. Len(Order) + 1 /\ at[d] \in 1 .. Len(Order) + 1
  BY HereTyped, WithTyped
<1>2. {"loop", "execute", "backoff"} \subseteq PcStates /\ "loop" \notin Working
  BY DEF PcStates, Working, Making, Promoting
<1> QED BY <1>1, <1>2, PersistTyped DEF SaveAndGoOn, SaveAndStay

LEMMA TypeInvSplits == TypeInv <=> LakeTyped /\ DriverTyped
  BY DagAssumption DEF TypeInv, DTypeOK, LakeTyped, DriverTyped

LEMMA InitTypes == Init => TypeInv
<1> SUFFICES ASSUME Init PROVE LakeTyped /\ DriverTyped
  BY TypeInvSplits
<1>1. Absent \in Manifests
  BY DEF Absent, NewStep, Manifests, Steps, RunStatuses, StepStatuses
<1>2. 1 \in 1 .. Len(Order) + 1
  BY DagAssumption
<1>3. \A s \in Assets : Before(s) \in RecordIds \cup {None}
  BY DEF Before, RecordIds
<1>4. \A d \in Drivers : MaxAttempts[d] \in Nat \ {0}
  BY DagAssumption
<1>5. LakeTyped
  BY <1>1, <1>3 DEF Init, LakeTyped
<1>6. DriverTyped
  BY <1>1, <1>2, <1>4 DEF Init, DriverTyped, PcStates, Over, Working, Making, Promoting
<1> QED BY <1>5, <1>6

\* Every step of a driver keeps the types.
LEMMA TypesEntering ==
  ASSUME LakeTyped, DriverTyped, NEW d \in Drivers,
         Enter(d) \/ Claim(d) \/ Adopt(d) \/ Prepare(d) \/ Open(d)
  PROVE  LakeTyped' /\ DriverTyped'
<1>r. Carries[d] \in Runs /\ mine[d] \in Manifests /\ at[d] \in 1 .. Len(Order) + 1
      /\ 1 \in 1 .. Len(Order) + 1
  BY DagAssumption DEF DriverTyped
<1>s. {"open", "claim", "recover", "prepare", "loop", "over"} \subseteq PcStates
  BY DEF PcStates, Over
<1>w. \A step \in {"open", "claim", "recover", "prepare", "loop", "over"} : step \notin Working
  BY DEF Working, Making, Promoting
<1>1. CASE Enter(d)
  <2>1. PICK m \in Manifests, step \in {"open", "claim", "over"} :
          /\ mine' = [mine EXCEPT ![d] = m] /\ pc' = [pc EXCEPT ![d] = step]
          /\ UNCHANGED <<lakeVars, at, gaps, try>>
    <3>1. CASE \E promote \in Promotes[Carries[d]] :
                 /\ mine' = [mine EXCEPT ![d] = FromPlan(Carries[d], promote)]
                 /\ pc' = [pc EXCEPT ![d] = "open"]
      <4>1. \A promote \in Promotes[Carries[d]] : promote \in BOOLEAN
        BY <1>r, DagAssumption
      <4>2. DTypeOK
        BY TypeInvSplits DEF TypeInv
      <4> QED BY <1>1, <1>r, <3>1, <4>1, <4>2, PlanTyped DEF Enter
    <3>2. CASE mine' = [mine EXCEPT ![d] = manifest[Carries[d]]] /\ pc' = [pc EXCEPT ![d] = "claim"]
      BY <1>1, <1>r, <3>2 DEF Enter, LakeTyped
    <3>3. CASE mine' = mine /\ pc' = [pc EXCEPT ![d] = "over"]
      <4>1. mine' = [mine EXCEPT ![d] = mine[d]]
        BY <3>3 DEF DriverTyped
      <4> QED BY <1>1, <1>r, <3>3, <4>1 DEF Enter
    <3> QED BY <1>1, <3>1, <3>2, <3>3 DEF Enter, GoTo
  <2> QED BY <1>s, <1>w, <2>1 DEF LakeTyped, DriverTyped, lakeVars
<1>2. CASE Claim(d)
  <2>1. [mine[d] EXCEPT !.lease = d] \in Manifests
    BY <1>r DEF Manifests
  <2>2. manifest' \in [Runs -> Manifests] /\ DriverTyped'
    BY <1>2, <1>r, <1>s, <1>w, <2>1, PersistTyped, StopTyped DEF Claim, LakeTyped
  <2> QED BY <1>2, <2>2 DEF Claim, LakeTyped
<1>3. CASE Adopt(d)
  <2>1. manifest' \in [Runs -> Manifests] /\ DriverTyped'
    BY <1>3, <1>r, <1>s, <1>w, PersistTyped DEF Adopt
  <2> QED BY <1>3, <2>1 DEF Adopt, LakeTyped
<1>4. CASE Prepare(d)
  BY <1>4, <1>r, <1>s, <1>w, PreparedTyped DEF Prepare, GoTo, DriverTyped, LakeTyped, lakeVars
<1>5. CASE Open(d)
  <2>1. manifest' \in [Runs -> Manifests] /\ DriverTyped'
    BY <1>5, <1>r, <1>s, <1>w, PersistTyped DEF Open
  <2> QED BY <1>5, <2>1 DEF Open, LakeTyped
<1> QED BY <1>1, <1>2, <1>3, <1>4, <1>5

LEMMA TypesRecovering ==
  ASSUME LakeTyped, DriverTyped, NEW d \in Drivers, Recover(d)
  PROVE  LakeTyped' /\ DriverTyped'
<1>1. CASE mine' = [mine EXCEPT ![d] = Prepared(mine[d])] /\ pc' = [pc EXCEPT ![d] = "open"]
           /\ UNCHANGED <<at, gaps, try>>
  <2>1. Prepared(mine[d]) \in Manifests /\ UNCHANGED lakeVars
    BY PreparedTyped DEF Recover, DriverTyped
  <2> QED
    BY <1>1, <2>1 DEF LakeTyped, DriverTyped, lakeVars, PcStates, Working, Making, Promoting
<1>2. CASE \E s \in RunningSteps(mine[d]) :
             \E rec \in Candidates(Carries[d], s, mine[d].steps[s].attempts) :
               /\ mine' = [mine EXCEPT ![d] =
                    With(mine[d], s, [mine[d].steps[s] EXCEPT !.status = "materialized",
                                                  !.made = rec.id,
                                                  !.open = FALSE])]
               /\ pc' = [pc EXCEPT ![d] = "adopt"]
               /\ UNCHANGED <<at, gaps, try>>
  <2>1. PICK s \in RunningSteps(mine[d]) :
             \E rec \in Candidates(Carries[d], s, mine[d].steps[s].attempts) :
               /\ mine' = [mine EXCEPT ![d] =
                    With(mine[d], s, [mine[d].steps[s] EXCEPT !.status = "materialized",
                                                  !.made = rec.id,
                                                  !.open = FALSE])]
               /\ pc' = [pc EXCEPT ![d] = "adopt"]
               /\ UNCHANGED <<at, gaps, try>>
    BY <1>2
  <2>2. PICK rec \in Candidates(Carries[d], s, mine[d].steps[s].attempts) :
               /\ mine' = [mine EXCEPT ![d] =
                    With(mine[d], s, [mine[d].steps[s] EXCEPT !.status = "materialized",
                                                  !.made = rec.id,
                                                  !.open = FALSE])]
               /\ pc' = [pc EXCEPT ![d] = "adopt"]
               /\ UNCHANGED <<at, gaps, try>>
    BY <2>1
  <2>3. s \in Assets /\ rec.id \in RecordIds /\ mine[d] \in Manifests /\ UNCHANGED lakeVars
    BY DEF RunningSteps, Candidates, LakeTyped, DriverTyped, Recover
  <2>4. [mine[d].steps[s] EXCEPT !.status = "materialized", !.made = rec.id,
                                 !.open = FALSE] \in Steps
    <3>1. mine[d].steps[s] \in Steps
      BY <2>3, FieldsTyped
    <3> QED BY <2>3, <3>1 DEF Steps, StepStatuses
  <2>5. mine' \in [Drivers -> Manifests]
    BY <2>2, <2>3, <2>4, WithTyped DEF DriverTyped
  <2> QED
    BY <2>2, <2>3, <2>5 DEF LakeTyped, DriverTyped, lakeVars, PcStates, Working, Making, Promoting
<1>3. CASE Raise(d)
  BY <1>3, RaiseTyped DEF Recover, LakeTyped, lakeVars
<1> QED BY <1>1, <1>2, <1>3 DEF Recover, GoTo

\* The steps a driver may put at its position.
LEMMA StepsTyped ==
  ASSUME NEW step \in Steps
  PROVE  /\ \A status \in StepStatuses : [step EXCEPT !.status = status] \in Steps
         /\ \A status \in StepStatuses :
              [step EXCEPT !.status = status, !.open = FALSE] \in Steps
         /\ [step EXCEPT !.open = FALSE] \in Steps
         /\ [step EXCEPT !.status = "running", !.attempts = @ + 1, !.open = TRUE] \in Steps
         /\ \A id \in RecordIds :
              [step EXCEPT !.status = "materialized", !.made = id, !.open = FALSE] \in Steps
<1>1. \A status \in StepStatuses : [step EXCEPT !.status = status] \in Steps
  BY DEF Steps
<1>2. \A status \in StepStatuses : [step EXCEPT !.status = status, !.open = FALSE] \in Steps
  BY DEF Steps
<1>3. [step EXCEPT !.open = FALSE] \in Steps
  BY DEF Steps
<1>4. [step EXCEPT !.status = "running", !.attempts = @ + 1, !.open = TRUE] \in Steps
  <2>1. step.attempts + 1 \in Nat
    BY DEF Steps
  <2> QED BY <2>1 DEF Steps, StepStatuses
<1>5. \A id \in RecordIds :
        [step EXCEPT !.status = "materialized", !.made = id, !.open = FALSE] \in Steps
  BY DEF Steps, StepStatuses
<1> QED BY <1>1, <1>2, <1>3, <1>4, <1>5

LEMMA TypesWorking ==
  ASSUME LakeTyped, DriverTyped, NEW d \in Drivers,
         \/ PassStep(d) \/ BlockStep(d) \/ SkipStep(d) \/ StartAttempt(d)
         \/ RetryLater(d) \/ FailStep(d) \/ SaveMaterialized(d)
         \/ SkipPromotion(d) \/ SavePromoted(d) \/ SaveUnpromoted(d)
  PROVE  LakeTyped' /\ DriverTyped'
<1>1. at[d] <= Len(Order)
  BY DEF PassStep, BlockStep, SkipStep, StartAttempt, RetryLater, FailStep,
         SaveMaterialized, SkipPromotion, SavePromoted, SaveUnpromoted,
         Looping, StandsAt, DriverTyped, Working, Making, Promoting
<1>2. /\ Here(d) \in Assets /\ HereStep(d) \in Steps /\ mine[d] \in Manifests
      /\ at[d] + 1 \in 1 .. Len(Order) + 1
  BY <1>1, HereTyped
<1>3. {"blocked", "skipped", "failed", "succeeded"} \subseteq StepStatuses
  BY DEF StepStatuses
<1>4. CASE PassStep(d)
  BY <1>2, <1>4 DEF PassStep, Looping, StandsAt, DriverTyped, LakeTyped, lakeVars,
                    Working, Making, Promoting
<1>5. CASE BlockStep(d) \/ SkipStep(d) \/ SkipPromotion(d) \/ SavePromoted(d) \/ SaveUnpromoted(d)
  <2>1. \E step \in Steps : SaveAndGoOn(d, step)
    BY <1>2, <1>3, <1>5, StepsTyped DEF BlockStep, SkipStep, SkipPromotion, SavePromoted, SaveUnpromoted
  <2>2. manifest' \in [Runs -> Manifests] /\ DriverTyped'
    BY <1>1, <2>1, SaveTyped
  <2> QED BY <1>5, <2>2 DEF LakeTyped, BlockStep, SkipStep, SkipPromotion, SavePromoted, SaveUnpromoted
<1>6. CASE StartAttempt(d)
  <2>1. try[d] < MaxAttempts[d]
    BY <1>6 DEF StartAttempt, Looping, StandsAt, DriverTyped
  <2>2. manifest' \in [Runs -> Manifests] /\ DriverTyped'
    BY <1>1, <1>2, <1>6, <2>1, StepsTyped, SaveTyped DEF StartAttempt
  <2> QED BY <1>6, <2>2 DEF LakeTyped, StartAttempt
<1>7. CASE RetryLater(d)
  <2>1. manifest' \in [Runs -> Manifests] /\ DriverTyped'
    BY <1>1, <1>2, <1>7, StepsTyped, SaveTyped DEF RetryLater
  <2> QED BY <1>7, <2>1 DEF LakeTyped, RetryLater
<1>8. CASE FailStep(d)
  <2>1. manifest' \in [Runs -> Manifests] /\ DriverTyped'
    BY <1>1, <1>2, <1>3, <1>8, StepsTyped, SaveTyped DEF FailStep
  <2> QED BY <1>8, <2>1 DEF LakeTyped, FailStep
<1>9. CASE SaveMaterialized(d)
  <2>1. Made(Carries[d], Here(d), HereStep(d).attempts) \in RecordIds
    BY <1>2, DagAssumption DEF Made, RecordIds, Steps
  <2>2. manifest' \in [Runs -> Manifests] /\ DriverTyped'
    BY <1>1, <1>2, <1>9, <2>1, StepsTyped, SaveTyped DEF SaveMaterialized
  <2> QED BY <1>9, <2>2 DEF LakeTyped, SaveMaterialized
<1> QED BY <1>4, <1>5, <1>6, <1>7, <1>8, <1>9

\* The records that an attempt writes.
LEMMA RecordTyped ==
  ASSUME LakeTyped, DriverTyped, NEW d \in Drivers, pc[d] = "execute"
  PROVE  /\ NewRecord(d).id \in RecordIds /\ NewRecord(d).since \in Nat
         /\ NewRecord(d).by \in Drivers
         /\ NewRecord(d).parents \in
              [Dependencies[NewRecord(d).id.asset] -> RecordIds \cup {None}]
         /\ NewRecord(d).id.run = Carries[d] /\ NewRecord(d).id.asset = Here(d)
<1>1. /\ Here(d) \in Assets /\ HereStep(d) \in Steps /\ mine[d] \in Manifests
      /\ Carries[d] \in Runs
  BY HereTyped, DagAssumption DEF DriverTyped, Working, Making
<1>2. \A t \in Dependencies[Here(d)] : t \in Assets
  BY <1>1, DagAssumption
<1>3. \A t \in Dependencies[Here(d)] : Parent(mine[d], t) \in RecordIds \cup {None}
  BY <1>1, <1>2, FieldsTyped DEF Parent, Status
<1>4. Parents(mine[d], Here(d)) \in [Dependencies[Here(d)] -> RecordIds \cup {None}]
  BY <1>3 DEF Parents
<1>5. Made(Carries[d], Here(d), HereStep(d).attempts) \in RecordIds
  BY <1>1 DEF Made, RecordIds, Steps
<1>6. manifest[Carries[d]].steps[Here(d)].attempts \in Nat
  BY <1>1, FieldsTyped DEF LakeTyped
<1> QED BY <1>4, <1>5, <1>6 DEF NewRecord, Made

LEMMA TypesRest ==
  ASSUME LakeTyped, DriverTyped, NEW d \in Drivers,
         \/ Materialize(d) \/ FailAttempt(d) \/ TryPromotion(d) \/ Finish(d)
         \/ Record(d) \/ Release(d) \/ Fail(d) \/ Crash(d)
  PROVE  LakeTyped' /\ DriverTyped'
<1>r. Carries[d] \in Runs /\ \A e \in Drivers : MaxAttempts[e] \in Nat \ {0}
  BY DagAssumption
<1>1. CASE Materialize(d)
  <2>1. pc[d] = "execute"
    BY <1>1 DEF Materialize, StandsAt
  <2> QED BY <1>1, <2>1, RecordTyped
          DEF Materialize, GoTo, LakeTyped, DriverTyped, PcStates, Working, Making, Promoting
<1>2. CASE FailAttempt(d)
  <2>1. pc[d] = "execute"
    BY <1>2 DEF FailAttempt, StandsAt
  <2>2. LakeTyped'
    BY <1>2, <2>1, RecordTyped DEF FailAttempt, LakeTyped
  <2> QED BY <1>2, <1>r, <2>1, <2>2
          DEF FailAttempt, GoTo, DriverTyped, PcStates, Working, Making, Promoting
<1>3. CASE TryPromotion(d)
  <2>1. /\ at[d] <= Len(Order) /\ pc[d] = "loop" /\ try[d] < MaxAttempts[d]
        /\ UNCHANGED <<manifest, records, recorded, mine, at, gaps>>
    BY <1>3 DEF TryPromotion, Promote, LosePromotion, FailPromotion, ToPromote, Looping,
                StandsAt, DriverTyped
  <2>2. Here(d) \in Assets /\ HereStep(d).made \in RecordIds \cup {None}
    BY <2>1, HereTyped DEF Steps
  <2>3. LakeTyped'
    BY <1>3, <2>1, <2>2
       DEF TryPromotion, Promote, LosePromotion, FailPromotion, Swap, LakeTyped
  <2>4. CASE Promote(d) \/ LosePromotion(d)
    BY <1>r, <2>1, <2>3, <2>4
       DEF Promote, LosePromotion, GoTo, DriverTyped, PcStates, Working, Making, Promoting
  <2>5. CASE FailPromotion(d)
    <3>1. /\ try' = [try EXCEPT ![d] = try[d] + 1]
          /\ \/ try[d] + 1 < MaxAttempts[d] /\ UNCHANGED pc
             \/ pc' = [pc EXCEPT ![d] = "unpromoted"]
      BY <2>5 DEF FailPromotion, GoTo
    <3>2. PICK step \in {"loop", "unpromoted"} :
            /\ pc' = [pc EXCEPT ![d] = step]
            /\ step = "loop" => try[d] + 1 < MaxAttempts[d]
      BY <2>1, <3>1 DEF DriverTyped
    <3>3. try[d] + 1 \in Nat /\ try[d] + 1 <= MaxAttempts[d]
      BY <1>r, <2>1 DEF DriverTyped
    <3>4. step \in PcStates /\ step \notin {"execute", "backoff"}
      BY <3>2 DEF PcStates
    <3>5. DriverTyped'
      BY <1>r, <2>1, <3>1, <3>2, <3>3, <3>4 DEF DriverTyped
    <3> QED BY <2>3, <3>5
  <2> QED BY <1>3, <2>3, <2>4, <2>5 DEF TryPromotion
<1>4. CASE Finish(d)
  <2>1. [mine[d] EXCEPT !.status = Verdict(mine[d]), !.lease = None] \in Manifests
    BY DEF DriverTyped, Manifests, Verdict, RunStatuses
  <2>2. manifest' \in [Runs -> Manifests] /\ DriverTyped'
    <3>1. "returned" \in PcStates /\ "returned" \notin Working /\ at[d] \in 1 .. Len(Order) + 1
      BY DEF PcStates, Working, Making, Promoting, DriverTyped
    <3> QED BY <1>4, <2>1, <3>1, PersistTyped DEF Finish
  <2> QED BY <1>4, <2>2 DEF Finish, LakeTyped
<1>5. CASE Record(d)
  <2>1. DriverTyped'
    BY <1>5, StopTyped DEF Record
  <2> QED BY <1>5, <1>r, <2>1 DEF Record, LakeTyped
<1>6. CASE Release(d)
  <2>1. DriverTyped'
    BY <1>6, StopTyped DEF Release
  <2>2. manifest[Carries[d]] \in Manifests
    BY <1>r DEF LakeTyped
  <2>3. manifest' \in [Runs -> Manifests]
    BY <1>6, <1>r, <2>2 DEF Release, LakeTyped, Manifests
  <2> QED BY <1>6, <2>1, <2>3 DEF Release, LakeTyped
<1>7. CASE Fail(d) \/ Crash(d)
  BY <1>7, StopTyped, RaiseTyped DEF Fail, Crash, LakeTyped, lakeVars
<1> QED BY <1>1, <1>2, <1>3, <1>4, <1>5, <1>6, <1>7

LEMMA TypesStep == TypeInv /\ [Next]_dagVars => TypeInv'
<1> SUFFICES ASSUME LakeTyped, DriverTyped, [Next]_dagVars PROVE LakeTyped' /\ DriverTyped'
  <2>1. TypeInv' <=> LakeTyped' /\ DriverTyped'
    BY TypeInvSplits, PTL
  <2> QED BY <2>1, TypeInvSplits
<1>1. CASE UNCHANGED dagVars
  BY <1>1 DEF dagVars, lakeVars, driverVars, LakeTyped, DriverTyped
<1>2. ASSUME NEW d \in Drivers, Enter(d) \/ Step(d) \/ Fail(d) \/ Crash(d)
      PROVE  LakeTyped' /\ DriverTyped'
  BY <1>2, TypesEntering, TypesRecovering, TypesWorking, TypesRest DEF Step, TryPromotion
<1> QED BY <1>1, <1>2 DEF Next

\* Every state of the executor is well typed, and no driver makes more
\* attempts at a step than its policy allows.
THEOREM DagTypesHold == Spec => []DTypeOK
<1>1. TypeInv => DTypeOK
  BY DEF TypeInv
<1> QED BY <1>1, InitTypes, TypesStep, PTL DEF Spec

(***************************************************************************)
(* What the runs of the asset DAG make is made in order and from the run's *)
(* own records, for any runs, drivers and assets.                          *)
(*                                                                         *)
(* The argument is about one manifest, the stored one or a driver's copy:  *)
(* the dependencies of a step that is at work or has a record are final,   *)
(* so what the step was made from does not change under it.  Nothing has   *)
(* to be said of two drivers: each save is of one driver's copy.           *)
(***************************************************************************)

Final == {"succeeded", "skipped"}
Settled == Final \cup {"failed", "blocked"}
AtWork == {"running", "materialized", "succeeded"}

Supports(m, s) == \A t \in Dependencies[s] : m.steps[t].status \in Final

\* A record among recs that was made from what m has for the dependencies of s.
MadeIn(recs, m, s, id) ==
  \E rec \in recs :
    rec.id = id /\ \A t \in Dependencies[s] : rec.parents[t] = Parent(m, t)

\* One manifest: what is at work or made has final dependencies, and what is
\* made was made from theirs.
Sound(recs, m) ==
  \A s \in Assets :
    /\ m.steps[s].status \in AtWork \/ m.steps[s].made # None => Supports(m, s)
    /\ m.steps[s].made # None => MadeIn(recs, m, s, m.steps[s].made)

\* The copy of a driver of run r before a step, at position i: the loop leaves
\* nothing unsettled behind, and one step at most is running.
CopySound(recs, r, m, step, i) ==
  /\ Sound(recs, m)
  /\ step \in {"loop"} \cup Working =>
       \A j \in 1 .. i - 1 : m.steps[Order[j]].status \in Settled
  /\ step \in {"open", "loop"} \cup Promoting =>
       \A s \in Assets : m.steps[s].status # "running"
  /\ step \in Making =>
       /\ m.steps[Order[i]].status = "running"
       /\ \A s \in Assets \ {Order[i]} : m.steps[s].status # "running"
  /\ step \in Promoting => m.steps[Order[i]].status = "materialized"
  /\ step = "materialized" =>
       MadeIn(recs, m, Order[i], Made(r, Order[i], m.steps[Order[i]].attempts))

StoredSound == \A r \in Runs : Sound(records, manifest[r])
CopiesSound ==
  \A d \in Drivers : CopySound(records, Carries[d], mine[d], pc[d], at[d])

LineageInv == LakeTyped /\ DriverTyped /\ StoredSound /\ CopiesSound

-----------------------------------------------------------------------------
(* Facts about one manifest. *)

\* No asset depends on itself, and the order has dependencies first.
LEMMA OrderKnown ==
  /\ Len(Order) \in Nat
  /\ \A i \in 1 .. Len(Order) : Order[i] \in Assets
  /\ \A s \in Assets : \E i \in 1 .. Len(Order) : Order[i] = s
  /\ \A s \in Assets : \A t \in Dependencies[s] : t \in Assets /\ t # s
  /\ \A i \in 1 .. Len(Order) : \A t \in Dependencies[Order[i]] :
       \E j \in 1 .. i - 1 : Order[j] = t
<1>1. /\ Len(Order) \in Nat
      /\ \A i \in 1 .. Len(Order) : Order[i] \in Assets
      /\ \A s \in Assets : \E i \in 1 .. Len(Order) : Order[i] = s
      /\ \A s \in Assets : \A t \in Dependencies[s] : t \in Assets
  BY DagAssumption
<1>2. \A i, j \in 1 .. Len(Order) : Order[i] \in Dependencies[Order[j]] => i < j
  BY DagAssumption
<1>3. ASSUME NEW s \in Assets, NEW t \in Dependencies[s]
      PROVE  t # s
  <2>1. PICK i \in 1 .. Len(Order) : Order[i] = s
    BY <1>1
  <2>2. t = s => i < i
    BY <1>2, <1>3, <2>1
  <2> QED BY <1>1, <2>2
<1>4. ASSUME NEW i \in 1 .. Len(Order), NEW t \in Dependencies[Order[i]]
      PROVE  \E j \in 1 .. i - 1 : Order[j] = t
  <2>1. PICK j \in 1 .. Len(Order) : Order[j] = t
    BY <1>1, <1>4
  <2>2. j < i
    BY <1>2, <1>4, <2>1
  <2> QED BY <1>1, <2>1, <2>2
<1> QED BY <1>1, <1>3, <1>4

\* Only the steps count.
LEMMA SoundSteps ==
  ASSUME NEW recs, NEW m, NEW n, m.steps = n.steps, Sound(recs, m)
  PROVE  Sound(recs, n)
BY DEF Sound, Supports, MadeIn, Parent, Status

LEMMA CopySoundSteps ==
  ASSUME NEW recs, NEW r, NEW m, NEW n, NEW step, NEW i, m.steps = n.steps,
         CopySound(recs, r, m, step, i)
  PROVE  CopySound(recs, r, n, step, i)
BY SoundSteps DEF CopySound, MadeIn, Parent, Status

\* Records are only added.
LEMMA MoreRecords ==
  ASSUME NEW recs, NEW more, recs \subseteq more, NEW r, NEW m, NEW step, NEW i
  PROVE  /\ Sound(recs, m) => Sound(more, m)
         /\ CopySound(recs, r, m, step, i) => CopySound(more, r, m, step, i)
<1>1. \A s, id : MadeIn(recs, m, s, id) => MadeIn(more, m, s, id)
  BY DEF MadeIn
<1>2. Sound(recs, m) => Sound(more, m)
  BY <1>1 DEF Sound
<1> QED BY <1>1, <1>2 DEF CopySound

LEMMA AbsentSound ==
  ASSUME NEW recs, NEW r, NEW i
  PROVE  Sound(recs, Absent) /\ CopySound(recs, r, Absent, "over", i)
<1>1. \A s \in Assets : Absent.steps[s].made = None /\ Absent.steps[s].status = "skipped"
  BY DEF Absent, NewStep
<1>2. Sound(recs, Absent)
  BY <1>1 DEF Sound, AtWork
<1> QED BY <1>2 DEF CopySound, Working, Making, Promoting

\* Changing a step that is not final changes nothing for the others.
LEMMA WithSound ==
  ASSUME NEW recs, NEW m \in Manifests, Sound(recs, m), NEW s \in Assets, NEW step \in Steps,
         m.steps[s].status \notin Final,
         step.status \in AtWork \/ step.made # None => Supports(m, s),
         step.made # None => MadeIn(recs, m, s, step.made)
  PROVE  Sound(recs, With(m, s, step))
<1> DEFINE new == With(m, s, step)
<1>1. /\ new.steps[s] = step /\ \A t \in Assets \ {s} : new.steps[t] = m.steps[t]
  BY WithTyped
<1>2. \A t \in Assets \ {s} : Parent(new, t) = Parent(m, t)
  BY <1>1 DEF Parent, Status
<1> HIDE DEF new
<1>3. ASSUME NEW x \in Assets, Supports(m, x)
      PROVE  /\ Supports(new, x)
             /\ \A id : MadeIn(recs, m, x, id) => MadeIn(recs, new, x, id)
  <2>1. \A t \in Dependencies[x] : t \in Assets /\ t # s
    BY <1>3, OrderKnown DEF Supports
  <2> QED BY <1>1, <1>2, <1>3, <2>1 DEF Supports, MadeIn
<1>4. ASSUME NEW x \in Assets
      PROVE  /\ new.steps[x].status \in AtWork \/ new.steps[x].made # None => Supports(new, x)
             /\ new.steps[x].made # None => MadeIn(recs, new, x, new.steps[x].made)
  <2>1. CASE x = s
    BY <1>1, <1>3, <2>1
  <2>2. CASE x # s
    BY <1>1, <1>3, <2>2 DEF Sound
  <2> QED BY <2>1, <2>2
<1> QED BY <1>4 DEF Sound, new

\* A resumed manifest starts steps again, but none that is final.
LEMMA PreparedSound ==
  ASSUME NEW recs, NEW m \in Manifests, Sound(recs, m)
  PROVE  /\ Sound(recs, Prepared(m))
         /\ \A s \in Assets : Prepared(m).steps[s].status # "running"
<1> DEFINE new == Prepared(m)
<1>1. ASSUME NEW s \in Assets
      PROVE  LET old == m.steps[s] IN
             \/ new.steps[s] = old /\ old.status \in Final \cup {"materialized"}
             \/ /\ old.made # None /\ new.steps[s].made = old.made
                /\ old.status \notin Final /\ new.steps[s].status = "materialized"
             \/ /\ new.steps[s].made = None /\ old.status \notin Final
                /\ new.steps[s].status = "planned"
  BY <1>1, PreparedTyped DEF Final
<1> HIDE DEF new
<1>2. ASSUME NEW s \in Assets, m.steps[s].status \in Final
      PROVE  new.steps[s] = m.steps[s] /\ Parent(new, s) = Parent(m, s)
  BY <1>1, <1>2 DEF Parent, Status, Final
<1>3. ASSUME NEW s \in Assets, Supports(m, s)
      PROVE  /\ Supports(new, s)
             /\ \A id : MadeIn(recs, m, s, id) => MadeIn(recs, new, s, id)
  BY <1>2, <1>3, OrderKnown DEF Supports, MadeIn
<1>4. ASSUME NEW s \in Assets
      PROVE  /\ new.steps[s].status \in AtWork \/ new.steps[s].made # None => Supports(new, s)
             /\ new.steps[s].made # None => MadeIn(recs, new, s, new.steps[s].made)
  BY <1>1, <1>3, <1>4 DEF Sound, AtWork
<1>5. \A s \in Assets : new.steps[s].status # "running"
  BY <1>1 DEF Final
<1> QED BY <1>4, <1>5 DEF Sound, new

-----------------------------------------------------------------------------
(* Steps by kind. *)

\* A step of driver d that leaves the stored manifests alone.
LEMMA LineageMove ==
  ASSUME LineageInv, NEW d \in Drivers, records \subseteq records', UNCHANGED manifest,
         \A e \in Drivers \ {d} : mine'[e] = mine[e] /\ pc'[e] = pc[e] /\ at'[e] = at[e],
         CopySound(records', Carries[d], mine'[d], pc'[d], at'[d])
  PROVE  StoredSound' /\ CopiesSound'
<1>1. StoredSound'
  BY MoreRecords DEF LineageInv, StoredSound
<1>2. ASSUME NEW e \in Drivers
      PROVE  CopySound(records', Carries[e], mine'[e], pc'[e], at'[e])
  <2>1. CASE e = d
    BY <2>1
  <2>2. CASE e # d
    BY <2>2, MoreRecords DEF LineageInv, CopiesSound
  <2> QED BY <2>1, <2>2
<1> QED BY <1>1, <1>2 DEF CopiesSound

LEMMA LineageStopping ==
  ASSUME LineageInv, NEW d \in Drivers, Stop(d) \/ Raise(d), UNCHANGED <<manifest, records>>
  PROVE  StoredSound' /\ CopiesSound'
<1>1. CASE Stop(d)
  <2>1. /\ mine'[d] = Absent /\ pc'[d] = "over"
        /\ \A e \in Drivers \ {d} : mine'[e] = mine[e] /\ pc'[e] = pc[e] /\ at'[e] = at[e]
    BY <1>1 DEF Stop, GoTo, LineageInv, DriverTyped
  <2> QED BY <2>1, AbsentSound, LineageMove
<1>2. CASE mine[d].lease = d /\ Raise(d)
  <2>1. /\ mine'[d] = mine[d] /\ pc'[d] = "release" /\ at'[d] = at[d]
        /\ \A e \in Drivers \ {d} : mine'[e] = mine[e] /\ pc'[e] = pc[e] /\ at'[e] = at[e]
    BY <1>2 DEF Raise, GoTo, LineageInv, DriverTyped
  <2>2. CopySound(records, Carries[d], mine[d], "release", at[d])
    BY DEF LineageInv, CopiesSound, CopySound, Working, Making, Promoting
  <2> QED BY <2>1, <2>2, LineageMove
<1> QED BY <1>1, <1>2 DEF Raise

\* A save of a sound copy.
LEMMA LineageSaving ==
  ASSUME LineageInv, NEW d \in Drivers, NEW new \in Manifests, NEW step \in PcStates,
         NEW next \in 1 .. Len(Order) + 1, Persist(d, new, step, next), UNCHANGED records,
         CopySound(records, Carries[d], new, step, next)
  PROVE  StoredSound' /\ CopiesSound'
<1> DEFINE r == Carries[d]
           saved == [new EXCEPT !.revision = mine[d].revision + 1]
<1>1. CASE manifest[r].revision = mine[d].revision
  <2>1. /\ manifest' = [manifest EXCEPT ![r] = saved]
        /\ mine' = [mine EXCEPT ![d] = saved]
        /\ at' = [at EXCEPT ![d] = next] /\ pc' = [pc EXCEPT ![d] = step]
    BY <1>1 DEF Persist, GoTo
  <2>2. saved.steps = new.steps /\ r \in Runs
    BY DagAssumption DEF Manifests
  <2> HIDE DEF saved
  <2>3. CopySound(records, r, saved, step, next)
    BY <2>2, CopySoundSteps
  <2>4. /\ mine'[d] = saved /\ pc'[d] = step /\ at'[d] = next
        /\ \A e \in Drivers \ {d} : mine'[e] = mine[e] /\ pc'[e] = pc[e] /\ at'[e] = at[e]
        /\ manifest'[r] = saved /\ \A q \in Runs \ {r} : manifest'[q] = manifest[q]
    BY <2>1, <2>2 DEF LineageInv, DriverTyped, LakeTyped
  <2>5. StoredSound'
    BY <2>3, <2>4 DEF LineageInv, StoredSound, CopySound
  <2>6. CopiesSound'
    BY <2>3, <2>4 DEF LineageInv, CopiesSound
  <2> QED BY <2>5, <2>6
<1>2. CASE manifest[r].revision # mine[d].revision
  BY <1>2, LineageStopping DEF Persist
<1> QED BY <1>1, <1>2

\* The loop saves a step that is not final yet.
LEMMA LineageSavingStep ==
  ASSUME LineageInv, NEW d \in Drivers, at[d] <= Len(Order), NEW step \in Steps,
         UNCHANGED records, pc[d] \in {"loop"} \cup Working, HereStep(d).status \notin Final,
         step.status \in AtWork \/ step.made # None => Supports(mine[d], Here(d)),
         step.made # None => MadeIn(records, mine[d], Here(d), step.made),
         \/ SaveAndGoOn(d, step) /\ step.status \in Settled
         \/ SaveAndStay(d, step, "loop") /\ step.status = "materialized"
         \/ /\ SaveAndStay(d, step, "execute") \/ SaveAndStay(d, step, "backoff")
            /\ step.status = "running"
  PROVE  StoredSound' /\ CopiesSound'
<1> DEFINE new == With(mine[d], Here(d), step)
           i == at[d]
<1>1. /\ new \in Manifests /\ new.steps[Here(d)] = step
      /\ \A t \in Assets \ {Here(d)} : new.steps[t] = mine[d].steps[t]
      /\ Here(d) = Order[i] /\ Here(d) \in Assets /\ HereStep(d) = mine[d].steps[Here(d)]
      /\ i + 1 \in 1 .. Len(Order) + 1 /\ i \in 1 .. Len(Order) /\ Len(Order) \in Nat
      /\ i \in 1 .. Len(Order) + 1 /\ mine[d] \in Manifests
  BY HereTyped, WithTyped, OrderKnown DEF Here, LineageInv, DriverTyped
<1>2. CopySound(records, Carries[d], mine[d], pc[d], i)
  BY DEF LineageInv, CopiesSound
<1>3. Sound(records, new)
  BY <1>1, <1>2, WithSound DEF CopySound
<1>4. \A j \in 1 .. i - 1 : Order[j] \in Assets \ {Here(d)} /\ mine[d].steps[Order[j]].status \in Settled
  <2>1. \A j \in 1 .. i - 1 : j \in 1 .. Len(Order) /\ j # i
    BY <1>1
  <2>2. \A j \in 1 .. i - 1 : Order[j] # Order[i] /\ Order[j] \in Assets
    <3>1. \A j, k \in 1 .. Len(Order) : Order[j] = Order[k] => j = k
      BY DagAssumption
    <3> HIDE DEF i
    <3> QED BY <1>1, <2>1, <3>1, OrderKnown
  <2>3. \A j \in 1 .. i - 1 : mine[d].steps[Order[j]].status \in Settled
    <3> HIDE DEF i
    <3> QED BY <1>2 DEF CopySound
  <2> HIDE DEF i
  <2> QED BY <1>1, <2>2, <2>3
<1>5. \A s \in Assets \ {Here(d)} : mine[d].steps[s].status # "running"
  BY <1>1, <1>2 DEF CopySound, Working
<1> HIDE DEF new, i
<1>6. /\ \A j \in 1 .. i - 1 : new.steps[Order[j]].status \in Settled
      /\ \A s \in Assets \ {Here(d)} : new.steps[s].status # "running"
  BY <1>1, <1>4, <1>5
<1>7. {"loop", "execute", "backoff"} \subseteq PcStates
  BY DEF PcStates
<1>8. CASE SaveAndGoOn(d, step) /\ step.status \in Settled
  <2>1. Persist(d, new, "loop", i + 1)
    BY <1>8 DEF SaveAndGoOn, new, i
  <2>2. \A j \in 1 .. (i + 1) - 1 : new.steps[Order[j]].status \in Settled
    <3>1. \A j \in 1 .. (i + 1) - 1 : j \in 1 .. i - 1 \/ j = i
      BY <1>1
    <3> QED BY <1>1, <1>6, <1>8, <3>1
  <2>3. \A s \in Assets : new.steps[s].status # "running"
    BY <1>1, <1>6, <1>8 DEF Settled, Final
  <2>4. CopySound(records, Carries[d], new, "loop", i + 1)
    BY <1>3, <2>2, <2>3 DEF CopySound, Making, Promoting
  <2> QED BY <1>1, <1>7, <2>1, <2>4, LineageSaving
<1>9. CASE SaveAndStay(d, step, "loop") /\ step.status = "materialized"
  <2>1. Persist(d, new, "loop", i)
    BY <1>9 DEF SaveAndStay, new, i
  <2>2. \A s \in Assets : new.steps[s].status # "running"
    BY <1>1, <1>6, <1>9
  <2>3. CopySound(records, Carries[d], new, "loop", i)
    BY <1>3, <1>6, <2>2 DEF CopySound, Making, Promoting
  <2> QED BY <1>1, <1>7, <2>1, <2>3, LineageSaving
<1>10. CASE /\ SaveAndStay(d, step, "execute") \/ SaveAndStay(d, step, "backoff")
            /\ step.status = "running"
  <2>1. PICK pcNext \in {"execute", "backoff"} : Persist(d, new, pcNext, i)
    BY <1>10 DEF SaveAndStay, new, i
  <2>2. CopySound(records, Carries[d], new, pcNext, i)
    BY <1>1, <1>3, <1>6, <1>10 DEF CopySound, Making, Promoting
  <2> QED BY <1>1, <1>7, <2>1, <2>2, LineageSaving
<1> QED BY <1>8, <1>9, <1>10

\* The driver at a step of the loop.
LEMMA HereSound ==
  ASSUME LineageInv, NEW d \in Drivers, at[d] <= Len(Order)
  PROVE  LET old == HereStep(d) IN
         /\ Here(d) \in Assets /\ old \in Steps /\ old = mine[d].steps[Here(d)]
         /\ Here(d) = Order[at[d]] /\ mine[d] \in Manifests /\ Carries[d] \in Runs
         /\ CopySound(records, Carries[d], mine[d], pc[d], at[d])
         /\ old.status \in AtWork \/ old.made # None => Supports(mine[d], Here(d))
         /\ old.made # None => MadeIn(records, mine[d], Here(d), old.made)
         /\ pc[d] \in Making => old.status = "running"
         /\ pc[d] \in Promoting => old.status = "materialized"
<1>1. /\ Here(d) \in Assets /\ HereStep(d) \in Steps /\ HereStep(d) = mine[d].steps[Here(d)]
      /\ Here(d) = Order[at[d]] /\ mine[d] \in Manifests /\ Carries[d] \in Runs
  BY HereTyped, DagAssumption DEF Here, LineageInv
<1>2. CopySound(records, Carries[d], mine[d], pc[d], at[d])
  BY DEF LineageInv, CopiesSound
<1> QED BY <1>1, <1>2 DEF CopySound, Sound

\* The fields of the steps the loop saves.
LEMMA StepFields ==
  ASSUME NEW step \in Steps
  PROVE  /\ \A status \in StepStatuses :
              /\ [step EXCEPT !.status = status].status = status
              /\ [step EXCEPT !.status = status].made = step.made
              /\ [step EXCEPT !.status = status, !.open = FALSE].status = status
              /\ [step EXCEPT !.status = status, !.open = FALSE].made = step.made
         /\ {"blocked", "skipped", "failed", "succeeded"} \subseteq StepStatuses \cap Settled
BY DEF Steps, StepStatuses, Settled, Final

\* The saves of the loop.
LEMMA LineageLooping ==
  ASSUME LineageInv, NEW d \in Drivers,
         \/ BlockStep(d) \/ SkipStep(d) \/ StartAttempt(d) \/ RetryLater(d) \/ FailStep(d)
         \/ SaveMaterialized(d) \/ SkipPromotion(d) \/ SavePromoted(d) \/ SaveUnpromoted(d)
  PROVE  StoredSound' /\ CopiesSound'
<1>1. at[d] <= Len(Order) /\ UNCHANGED records /\ pc[d] \in {"loop"} \cup Working
  BY DEF BlockStep, SkipStep, StartAttempt, RetryLater, FailStep, SaveMaterialized,
         SkipPromotion, SavePromoted, SaveUnpromoted, Looping, StandsAt, LineageInv, DriverTyped,
         Working, Making, Promoting
<1> DEFINE old == HereStep(d)
<1>2. /\ Here(d) \in Assets /\ old \in Steps /\ old = mine[d].steps[Here(d)]
      /\ Here(d) = Order[at[d]] /\ mine[d] \in Manifests /\ Carries[d] \in Runs
      /\ CopySound(records, Carries[d], mine[d], pc[d], at[d])
      /\ old.status \in AtWork \/ old.made # None => Supports(mine[d], Here(d))
      /\ old.made # None => MadeIn(records, mine[d], Here(d), old.made)
      /\ pc[d] \in Making => old.status = "running"
      /\ pc[d] \in Promoting => old.status = "materialized"
  BY <1>1, HereSound
<1> HIDE DEF old
<1>3. CASE BlockStep(d) \/ SkipStep(d) \/ FailStep(d) \/ SkipPromotion(d)
           \/ SavePromoted(d) \/ SaveUnpromoted(d)
  <2>1. old.status \notin Final
    BY <1>2, <1>3 DEF BlockStep, SkipStep, FailStep, SkipPromotion, SavePromoted, SaveUnpromoted,
                      StandsAt, Final, old, Making, Promoting
  <2>2. \E step \in Steps :
          /\ SaveAndGoOn(d, step) /\ step.status \in Settled /\ step.made = old.made
          /\ step.status \in AtWork => old.status \in AtWork
    <3>1. CASE BlockStep(d) \/ SkipStep(d) \/ SaveUnpromoted(d)
      <4>1. PICK status \in {"blocked", "skipped", "failed"} :
              SaveAndGoOn(d, [old EXCEPT !.status = status])
        BY <3>1 DEF BlockStep, SkipStep, SaveUnpromoted, old
      <4>2. status \in StepStatuses \cap Settled /\ status \notin AtWork
        BY <1>2, StepFields DEF AtWork
      <4> DEFINE step == [old EXCEPT !.status = status]
      <4>3. step \in Steps /\ step.status = status /\ step.made = old.made
        BY <1>2, <4>2, StepsTyped, StepFields
      <4>4. SaveAndGoOn(d, step)
        BY <4>1
      <4> HIDE DEF step
      <4> QED BY <4>2, <4>3, <4>4
    <3>2. CASE FailStep(d)
      <4>1. PICK status \in {"failed"} :
              SaveAndGoOn(d, [old EXCEPT !.status = status, !.open = FALSE])
        BY <3>2 DEF FailStep, old
      <4>2. status \in StepStatuses \cap Settled /\ status \notin AtWork
        BY <1>2, StepFields DEF AtWork
      <4> DEFINE step == [old EXCEPT !.status = status, !.open = FALSE]
      <4>3. step \in Steps /\ step.status = status /\ step.made = old.made
        BY <1>2, <4>2, StepsTyped, StepFields
      <4>4. SaveAndGoOn(d, step)
        BY <4>1
      <4> HIDE DEF step
      <4> QED BY <4>2, <4>3, <4>4
    <3>3. CASE SkipPromotion(d) \/ SavePromoted(d)
      <4>0. old.status = "materialized"
        BY <1>2, <3>3 DEF SkipPromotion, SavePromoted, StandsAt, Promoting, old
      <4>1. PICK status \in {"succeeded"} : SaveAndGoOn(d, [old EXCEPT !.status = status])
        BY <3>3 DEF SkipPromotion, SavePromoted, old
      <4>2. status \in StepStatuses \cap Settled /\ old.status \in AtWork
        BY <1>2, <4>0, <4>1, StepFields DEF AtWork
      <4> DEFINE step == [old EXCEPT !.status = status]
      <4>3. step \in Steps /\ step.status = status /\ step.made = old.made
        BY <1>2, <4>2, StepsTyped, StepFields
      <4>4. SaveAndGoOn(d, step)
        BY <4>1
      <4> HIDE DEF step
      <4> QED BY <4>2, <4>3, <4>4
    <3> QED BY <1>3, <3>1, <3>2, <3>3
  <2> QED BY <1>1, <1>2, <2>1, <2>2, LineageSavingStep DEF old
<1>4. CASE StartAttempt(d)
  <2> DEFINE step == [old EXCEPT !.status = "running", !.attempts = @ + 1, !.open = TRUE]
  <2>1. /\ step \in Steps /\ step.status = "running" /\ SaveAndStay(d, step, "execute")
        /\ step.made = old.made
    BY <1>2, <1>4, StepsTyped DEF StartAttempt, Steps, old
  <2>2. CASE pc[d] = "backoff"
    <3>1. old.status = "running"
      BY <1>2, <2>2 DEF Making
    <3>2. Supports(mine[d], Here(d)) /\ old.status \notin Final
      BY <1>2, <3>1 DEF AtWork, Final
    <3> HIDE DEF step
    <3> QED BY <1>1, <1>2, <2>1, <3>2, LineageSavingStep DEF old
  <2>3. CASE pc[d] = "loop" /\ old.status = "planned" /\ BlockedBy(mine[d], Here(d)) = {}
    <3>1. \A t \in Dependencies[Here(d)] : mine[d].steps[t].status \in Settled
      <4>1. at[d] \in 1 .. Len(Order)
        BY <1>1, OrderKnown DEF LineageInv, DriverTyped
      <4>2. \A t \in Dependencies[Here(d)] : \E j \in 1 .. at[d] - 1 : Order[j] = t
        BY <1>2, <4>1, OrderKnown
      <4> QED BY <1>2, <2>3, <4>2 DEF CopySound
    <3>2. Supports(mine[d], Here(d))
      BY <2>3, <3>1 DEF Supports, BlockedBy, Status, Settled
    <3>3. old.status \notin Final
      BY <2>3 DEF Final
    <3> HIDE DEF step
    <3> QED BY <1>1, <1>2, <2>1, <3>2, <3>3, LineageSavingStep DEF old
  <2> QED BY <1>4, <2>2, <2>3 DEF StartAttempt, Looping, StandsAt, old
<1>5. CASE RetryLater(d)
  <2> DEFINE step == [old EXCEPT !.open = FALSE]
  <2>1. /\ step \in Steps /\ step.status = old.status /\ SaveAndStay(d, step, "backoff")
        /\ step.made = old.made /\ old.status = "running"
    BY <1>2, <1>5, StepsTyped DEF RetryLater, StandsAt, Steps, old, Making
  <2>2. Supports(mine[d], Here(d)) /\ old.status \notin Final
    BY <1>2, <2>1 DEF AtWork, Final
  <2> HIDE DEF step
  <2> QED BY <1>1, <1>2, <2>1, <2>2, LineageSavingStep DEF old
<1>6. CASE SaveMaterialized(d)
  <2> DEFINE id == Made(Carries[d], Here(d), old.attempts)
             step == [old EXCEPT !.status = "materialized", !.made = id, !.open = FALSE]
  <2>1. id \in RecordIds
    BY <1>2, DagAssumption DEF Made, RecordIds, Steps
  <2>2. /\ step \in Steps /\ SaveAndStay(d, step, "loop") /\ step.status = "materialized"
        /\ step.made = id /\ pc[d] = "materialized"
    BY <1>2, <1>6, <2>1, StepsTyped DEF SaveMaterialized, StandsAt, old, Steps
  <2>3. Supports(mine[d], Here(d)) /\ old.status \notin Final
    BY <1>2, <2>2 DEF AtWork, Final, Making
  <2>4. MadeIn(records, mine[d], Here(d), id)
    BY <1>2, <2>2 DEF CopySound
  <2> HIDE DEF step, id
  <2> QED BY <1>1, <1>2, <2>2, <2>3, <2>4, LineageSavingStep DEF old
<1> QED BY <1>3, <1>4, <1>5, <1>6
-----------------------------------------------------------------------------
(* The steps outside the saves of the loop. *)

\* A new plan is sound, and so is what is read from the store.
LEMMA LineageEntering ==
  ASSUME LineageInv, NEW d \in Drivers, Enter(d)
  PROVE  StoredSound' /\ CopiesSound'
<1>1. UNCHANGED <<manifest, records, at>> /\ Carries[d] \in Runs
  BY DagAssumption DEF Enter, lakeVars
<1>2. ASSUME NEW m, NEW step, CopySound(records, Carries[d], m, step, at[d]),
             mine' = [mine EXCEPT ![d] = m], pc' = [pc EXCEPT ![d] = step]
      PROVE  StoredSound' /\ CopiesSound'
  <2>1. /\ mine'[d] = m /\ pc'[d] = step
        /\ \A e \in Drivers \ {d} : mine'[e] = mine[e] /\ pc'[e] = pc[e] /\ at'[e] = at[e]
    BY <1>1, <1>2 DEF LineageInv, DriverTyped
  <2> QED BY <1>1, <1>2, <2>1, LineageMove
<1>3. ASSUME NEW promote \in Promotes[Carries[d]],
             mine' = [mine EXCEPT ![d] = FromPlan(Carries[d], promote)],
             pc' = [pc EXCEPT ![d] = "open"]
      PROVE  StoredSound' /\ CopiesSound'
  <2> DEFINE m == FromPlan(Carries[d], promote)
  <2>1. promote \in BOOLEAN /\ DTypeOK
    BY <1>1, DagAssumption, TypeInvSplits DEF TypeInv, LineageInv
  <2>2. \A s \in Assets : m.steps[s].made = None /\ m.steps[s].status \in {"planned", "skipped"}
    BY <1>1, <2>1, PlanTyped
  <2> HIDE DEF m
  <2>3. CopySound(records, Carries[d], m, "open", at[d])
    BY <2>2 DEF CopySound, Sound, AtWork, Working, Making, Promoting
  <2> QED BY <1>2, <1>3, <2>3 DEF m
<1>4. CASE mine' = [mine EXCEPT ![d] = manifest[Carries[d]]] /\ pc' = [pc EXCEPT ![d] = "claim"]
  <2>1. CopySound(records, Carries[d], manifest[Carries[d]], "claim", at[d])
    BY <1>1 DEF LineageInv, StoredSound, CopySound, Working, Making, Promoting
  <2> QED BY <1>2, <1>4, <2>1
<1>5. CASE mine' = mine /\ pc' = [pc EXCEPT ![d] = "over"]
  <2>1. mine' = [mine EXCEPT ![d] = mine[d]]
    BY <1>5 DEF LineageInv, DriverTyped
  <2>2. CopySound(records, Carries[d], mine[d], "over", at[d])
    BY DEF LineageInv, CopiesSound, CopySound, Working, Making, Promoting
  <2> QED BY <1>2, <1>5, <2>1, <2>2
<1> QED BY <1>3, <1>4, <1>5 DEF Enter, GoTo

\* The saves before and after the loop.
LEMMA LineageOpening ==
  ASSUME LineageInv, NEW d \in Drivers, Claim(d) \/ Adopt(d) \/ Open(d) \/ Finish(d)
  PROVE  StoredSound' /\ CopiesSound'
<1>1. /\ mine[d] \in Manifests /\ at[d] \in 1 .. Len(Order) + 1 /\ Len(Order) \in Nat
      /\ 1 \in 1 .. Len(Order) + 1
      /\ CopySound(records, Carries[d], mine[d], pc[d], at[d])
      /\ {"recover", "prepare", "loop", "returned"} \subseteq PcStates
  BY OrderKnown DEF LineageInv, CopiesSound, DriverTyped, PcStates
<1>2. ASSUME NEW new \in Manifests, new.steps = mine[d].steps,
             NEW step \in {"recover", "prepare", "returned"}, UNCHANGED records,
             Persist(d, new, step, at[d])
      PROVE  StoredSound' /\ CopiesSound'
  <2>1. CopySound(records, Carries[d], mine[d], step, at[d])
    BY <1>1 DEF CopySound, Working, Making, Promoting
  <2>2. CopySound(records, Carries[d], new, step, at[d])
    BY <1>2, <2>1, CopySoundSteps
  <2> QED BY <1>1, <1>2, <2>2, LineageSaving
<1>3. CASE Claim(d)
  <2>1. CASE Persist(d, [mine[d] EXCEPT !.lease = d], "recover", at[d])
    <3>1. /\ [mine[d] EXCEPT !.lease = d] \in Manifests
          /\ [mine[d] EXCEPT !.lease = d].steps = mine[d].steps
      BY <1>1 DEF Manifests
    <3> QED BY <1>2, <1>3, <2>1, <3>1 DEF Claim
  <2>2. CASE Stop(d) /\ UNCHANGED manifest
    BY <1>3, <2>2, LineageStopping DEF Claim
  <2> QED BY <1>3, <2>1, <2>2 DEF Claim
<1>4. CASE Adopt(d)
  BY <1>1, <1>2, <1>4 DEF Adopt
<1>5. CASE Open(d)
  <2>1. CopySound(records, Carries[d], mine[d], "loop", 1)
    <3>1. pc[d] = "open" /\ \A j \in 1 .. 1 - 1 : FALSE
      BY <1>5 DEF Open, StandsAt
    <3> QED BY <1>1, <3>1 DEF CopySound, Making, Promoting
  <2> QED BY <1>1, <1>5, <2>1, LineageSaving DEF Open
<1>6. CASE Finish(d)
  <2> DEFINE new == [mine[d] EXCEPT !.status = Verdict(mine[d]), !.lease = None]
  <2>1. new \in Manifests /\ new.steps = mine[d].steps
    <3>1. Verdict(mine[d]) \in RunStatuses
      BY DEF Verdict, RunStatuses
    <3> QED BY <1>1, <3>1 DEF Manifests
  <2> QED BY <1>2, <1>6, <2>1 DEF Finish
<1> QED BY <1>3, <1>4, <1>5, <1>6

\* A resumed copy, with the record of the interrupted attempt or without one.
LEMMA LineageRecovering ==
  ASSUME LineageInv, NEW d \in Drivers, Recover(d) \/ Prepare(d)
  PROVE  StoredSound' /\ CopiesSound'
<1> DEFINE m == mine[d]
<1>1. /\ m \in Manifests /\ CopySound(records, Carries[d], m, pc[d], at[d])
      /\ UNCHANGED <<manifest, records>>
  BY DEF LineageInv, CopiesSound, DriverTyped, Recover, Prepare, lakeVars
<1>2. ASSUME NEW new, NEW step \in {"open", "adopt"}, UNCHANGED at,
             mine' = [mine EXCEPT ![d] = new], pc' = [pc EXCEPT ![d] = step],
             CopySound(records, Carries[d], new, step, at[d])
      PROVE  StoredSound' /\ CopiesSound'
  <2>1. /\ mine'[d] = new /\ pc'[d] = step
        /\ \A e \in Drivers \ {d} : mine'[e] = mine[e] /\ pc'[e] = pc[e] /\ at'[e] = at[e]
    BY <1>2 DEF LineageInv, DriverTyped
  <2> QED BY <1>1, <1>2, <2>1, LineageMove
<1>3. CASE mine' = [mine EXCEPT ![d] = Prepared(m)] /\ pc' = [pc EXCEPT ![d] = "open"]
           /\ UNCHANGED at
  <2>1. CopySound(records, Carries[d], Prepared(m), "open", at[d])
    <3>1. Sound(records, m)
      BY <1>1 DEF CopySound
    <3> QED BY <1>1, <3>1, PreparedSound DEF CopySound, Working, Making, Promoting
  <2> QED BY <1>2, <1>3, <2>1
<1>4. ASSUME NEW s \in RunningSteps(m), NEW rec \in Candidates(Carries[d], s, m.steps[s].attempts),
             rec.parents = Parents(m, s),
             mine' = [mine EXCEPT ![d] =
               With(m, s, [m.steps[s] EXCEPT !.status = "materialized",
                                             !.made = rec.id, !.open = FALSE])],
             pc' = [pc EXCEPT ![d] = "adopt"], UNCHANGED at
      PROVE  StoredSound' /\ CopiesSound'
  <2> DEFINE step == [m.steps[s] EXCEPT !.status = "materialized",
                                        !.made = rec.id, !.open = FALSE]
  <2>1. s \in Assets /\ m.steps[s].status = "running" /\ rec \in records /\ m.steps[s] \in Steps
    BY <1>1, FieldsTyped DEF RunningSteps, Candidates, Status
  <2>2. rec.id \in RecordIds
    BY <2>1 DEF LineageInv, LakeTyped
  <2>3. step \in Steps /\ step.status = "materialized" /\ step.made = rec.id
    BY <2>1, <2>2, StepsTyped DEF Steps
  <2>4. Supports(m, s) /\ m.steps[s].status \notin Final /\ Sound(records, m)
    BY <1>1, <2>1 DEF CopySound, Sound, AtWork, Final
  <2>5. MadeIn(records, m, s, rec.id)
    <3>1. \A t \in Dependencies[s] : rec.parents[t] = Parent(m, t)
      BY <1>4 DEF Parents
    <3> QED BY <2>1, <3>1 DEF MadeIn
  <2> HIDE DEF step, m
  <2>6. Sound(records, With(m, s, step))
    BY <1>1, <2>1, <2>3, <2>4, <2>5, WithSound
  <2>7. CopySound(records, Carries[d], With(m, s, step), "adopt", at[d])
    BY <2>6 DEF CopySound, Working, Making, Promoting
  <2> QED BY <1>2, <1>4, <2>7 DEF step, m
<1>5. CASE Raise(d)
  BY <1>1, <1>5, LineageStopping
<1>6. CASE Recover(d)
  BY <1>3, <1>4, <1>5, <1>6 DEF Recover, GoTo
<1>7. CASE Prepare(d)
  BY <1>3, <1>7 DEF Prepare, GoTo
<1> QED BY <1>6, <1>7

\* Steps that leave a driver's copy as it is.
LEMMA LineageWorking ==
  ASSUME LineageInv, NEW d \in Drivers,
         PassStep(d) \/ Materialize(d) \/ FailAttempt(d) \/ TryPromotion(d)
  PROVE  StoredSound' /\ CopiesSound'
<1>1. at[d] <= Len(Order) /\ UNCHANGED <<manifest, mine>> /\ at[d] \in 1 .. Len(Order)
      /\ pc[d] \in {"loop", "execute"}
  BY OrderKnown DEF PassStep, Materialize, FailAttempt, TryPromotion, Promote, LosePromotion,
                    FailPromotion, ToPromote, Looping, StandsAt, LineageInv, DriverTyped,
                    Working, Making, lakeVars
<1>2. /\ Here(d) \in Assets /\ HereStep(d) = mine[d].steps[Here(d)]
      /\ Here(d) = Order[at[d]] /\ HereStep(d).status \in StepStatuses
      /\ CopySound(records, Carries[d], mine[d], pc[d], at[d])
  BY <1>1, HereSound, FieldsTyped
<1>3. ASSUME records \subseteq records', NEW step, NEW next,
             pc' = [pc EXCEPT ![d] = step], at' = [at EXCEPT ![d] = next],
             CopySound(records', Carries[d], mine[d], step, next)
      PROVE  StoredSound' /\ CopiesSound'
  <2>1. /\ pc'[d] = step /\ at'[d] = next
        /\ \A e \in Drivers \ {d} : mine'[e] = mine[e] /\ pc'[e] = pc[e] /\ at'[e] = at[e]
    BY <1>1, <1>3 DEF LineageInv, DriverTyped
  <2> QED BY <1>1, <1>3, <2>1, LineageMove
<1>4. pc = [pc EXCEPT ![d] = pc[d]] /\ at = [at EXCEPT ![d] = at[d]]
  BY DEF LineageInv, DriverTyped
<1>5. CASE PassStep(d)
  <2>1. /\ pc[d] = "loop" /\ HereStep(d).status \notin {"planned", "materialized"}
        /\ UNCHANGED <<records, pc>> /\ at' = [at EXCEPT ![d] = at[d] + 1]
    BY <1>5 DEF PassStep, Looping, StandsAt, lakeVars
  <2>2. mine[d].steps[Order[at[d]]].status \in Settled
    BY <1>2, <2>1 DEF CopySound, Settled, Final, StepStatuses
  <2>3. \A j \in 1 .. (at[d] + 1) - 1 : j \in 1 .. at[d] - 1 \/ j = at[d]
    BY <1>1
  <2>4. CopySound(records, Carries[d], mine[d], "loop", at[d] + 1)
    BY <1>2, <2>1, <2>2, <2>3 DEF CopySound, Making, Promoting
  <2> QED BY <1>3, <1>4, <2>1, <2>4
<1>6. CASE Materialize(d)
  <2>1. /\ pc[d] = "execute" /\ records' = records \cup {NewRecord(d)}
        /\ pc' = [pc EXCEPT ![d] = "materialized"] /\ UNCHANGED at
    BY <1>6 DEF Materialize, StandsAt, GoTo
  <2>2. MadeIn(records', mine[d], Order[at[d]],
               Made(Carries[d], Order[at[d]], mine[d].steps[Order[at[d]]].attempts))
    <3>1. NewRecord(d) \in records'
      BY <2>1
    <3>2. /\ NewRecord(d).id = Made(Carries[d], Here(d), HereStep(d).attempts)
          /\ NewRecord(d).parents = Parents(mine[d], Here(d))
      BY DEF NewRecord
    <3>3. \A t \in Dependencies[Here(d)] : NewRecord(d).parents[t] = Parent(mine[d], t)
      BY <3>2 DEF Parents
    <3> QED BY <1>2, <3>1, <3>2, <3>3 DEF MadeIn
  <2>3. CopySound(records', Carries[d], mine[d], "execute", at[d])
    BY <1>2, <2>1, MoreRecords
  <2>4. CopySound(records', Carries[d], mine[d], "materialized", at[d])
    BY <2>2, <2>3 DEF CopySound, Working, Making, Promoting
  <2> QED BY <1>3, <1>4, <2>1, <2>4
<1>7. CASE FailAttempt(d)
  <2>1. /\ pc[d] = "execute" /\ records \subseteq records'
        /\ pc' = [pc EXCEPT ![d] = "failing"] /\ UNCHANGED at
    BY <1>7 DEF FailAttempt, StandsAt, GoTo
  <2>2. CopySound(records', Carries[d], mine[d], "execute", at[d])
    BY <1>2, <2>1, MoreRecords
  <2>3. CopySound(records', Carries[d], mine[d], "failing", at[d])
    BY <2>2 DEF CopySound, Working, Making, Promoting
  <2> QED BY <1>3, <1>4, <2>1, <2>3
<1>8. CASE TryPromotion(d)
  <2>1. PICK step \in {"loop", "promoted", "unpromoted"} : pc' = [pc EXCEPT ![d] = step]
    BY <1>1, <1>4, <1>8 DEF TryPromotion, Promote, LosePromotion, FailPromotion, ToPromote,
                            Looping, StandsAt, GoTo
  <2>2. /\ pc[d] = "loop" /\ HereStep(d).status = "materialized"
        /\ UNCHANGED <<records, at>>
    BY <1>8 DEF TryPromotion, Promote, LosePromotion, FailPromotion, ToPromote, Looping, StandsAt
  <2>3. CopySound(records, Carries[d], mine[d], step, at[d])
    BY <1>2, <2>1, <2>2 DEF CopySound, Working, Making, Promoting
  <2> QED BY <1>3, <1>4, <2>1, <2>2, <2>3
<1> QED BY <1>5, <1>6, <1>7, <1>8

LEMMA LineageEnding ==
  ASSUME LineageInv, NEW d \in Drivers, Record(d) \/ Fail(d) \/ Crash(d)
  PROVE  StoredSound' /\ CopiesSound'
<1>1. (Stop(d) \/ Raise(d)) /\ UNCHANGED <<manifest, records>>
  BY DEF Record, Fail, Crash, lakeVars
<1> QED BY <1>1, LineageStopping

\* Releasing the lease changes no step.
LEMMA LineageReleasing ==
  ASSUME LineageInv, NEW d \in Drivers, Release(d)
  PROVE  StoredSound' /\ CopiesSound'
<1>1. Stop(d) /\ UNCHANGED records /\ Carries[d] \in Runs
  BY DagAssumption DEF Release
<1>2. ASSUME NEW r \in Runs
      PROVE  manifest'[r].steps = manifest[r].steps
  <2>1. manifest[r] \in Manifests
    BY <1>2 DEF LineageInv, LakeTyped
  <2> QED BY <1>1, <1>2, <2>1 DEF Release, LineageInv, LakeTyped, Manifests
<1>3. StoredSound'
  BY <1>1, <1>2, SoundSteps DEF LineageInv, StoredSound
<1>4. /\ mine'[d] = Absent /\ pc'[d] = "over"
      /\ \A e \in Drivers \ {d} : mine'[e] = mine[e] /\ pc'[e] = pc[e] /\ at'[e] = at[e]
  BY <1>1 DEF Stop, GoTo, LineageInv, DriverTyped
<1>5. ASSUME NEW e \in Drivers
      PROVE  CopySound(records, Carries[e], mine'[e], pc'[e], at'[e])
  <2>1. CASE e = d
    BY <1>4, <2>1, AbsentSound
  <2>2. CASE e # d
    BY <1>4, <2>2 DEF LineageInv, CopiesSound
  <2> QED BY <2>1, <2>2
<1> QED BY <1>1, <1>3, <1>5 DEF CopiesSound

-----------------------------------------------------------------------------
LEMMA InitLineage == Init => LineageInv
<1> SUFFICES ASSUME Init PROVE LineageInv
  OBVIOUS
<1>1. LakeTyped /\ DriverTyped
  BY InitTypes, TypeInvSplits
<1>2. StoredSound
  BY AbsentSound DEF Init, StoredSound
<1>3. CopiesSound
  BY AbsentSound DEF Init, CopiesSound, CopySound, Working, Making, Promoting
<1> QED BY <1>1, <1>2, <1>3 DEF LineageInv

LEMMA LineageStep == LineageInv /\ [Next]_dagVars => LineageInv'
<1> SUFFICES ASSUME LineageInv, [Next]_dagVars PROVE LineageInv'
  OBVIOUS
<1>1. LakeTyped' /\ DriverTyped'
  <2>1. TypeInv'
    BY TypeInvSplits, TypesStep DEF LineageInv
  <2>2. TypeInv' <=> LakeTyped' /\ DriverTyped'
    BY TypeInvSplits, PTL
  <2> QED BY <2>1, <2>2
<1>2. CASE UNCHANGED dagVars
  <2>1. UNCHANGED <<manifest, records, pc, mine, at>>
    BY <1>2 DEF dagVars, lakeVars, driverVars
  <2>2. StoredSound' /\ CopiesSound'
    BY <2>1 DEF LineageInv, StoredSound, CopiesSound
  <2> QED BY <1>1, <2>2 DEF LineageInv
<1>3. ASSUME NEW d \in Drivers, Enter(d) \/ Step(d) \/ Fail(d) \/ Crash(d)
      PROVE  StoredSound' /\ CopiesSound'
  <2>1. CASE Enter(d)
    BY <2>1, LineageEntering
  <2>2. CASE Claim(d) \/ Adopt(d) \/ Open(d) \/ Finish(d)
    BY <2>2, LineageOpening
  <2>3. CASE Recover(d) \/ Prepare(d)
    BY <2>3, LineageRecovering
  <2>4. CASE PassStep(d) \/ Materialize(d) \/ FailAttempt(d) \/ TryPromotion(d)
    BY <2>4, LineageWorking
  <2>5. CASE \/ BlockStep(d) \/ SkipStep(d) \/ StartAttempt(d) \/ RetryLater(d) \/ FailStep(d)
             \/ SaveMaterialized(d) \/ SkipPromotion(d) \/ SavePromoted(d) \/ SaveUnpromoted(d)
    BY <2>5, LineageLooping
  <2>6. CASE Record(d) \/ Fail(d) \/ Crash(d)
    BY <2>6, LineageEnding
  <2>7. CASE Release(d)
    BY <2>7, LineageReleasing
  <2> QED BY <1>3, <2>1, <2>2, <2>3, <2>4, <2>5, <2>6, <2>7 DEF Step, TryPromotion
<1> QED BY <1>1, <1>2, <1>3 DEF Next, LineageInv

\* Every record that a stored manifest names was made from what the run itself
\* has for the dependencies, also when the run was resumed since.
THEOREM LineageHoldsAlways == Spec => []LineageHolds
<1>1. LineageInv => LineageHolds
  BY DEF LineageInv, StoredSound, Sound, MadeIn, LineageHolds
<1> QED BY <1>1, InitLineage, LineageStep, PTL DEF Spec

\* No asset is worked on before its dependencies are done, and none of them is
\* taken back while it is or once it has a record.
THEOREM DependenciesFirstHolds == Spec => []DependenciesFirst
<1>1. LineageInv => DependenciesFirst
  BY DEF LineageInv, StoredSound, Sound, Supports, AtWork, Final, DependenciesFirst, Status
<1> QED BY <1>1, InitLineage, LineageStep, PTL DEF Spec

=============================================================================
