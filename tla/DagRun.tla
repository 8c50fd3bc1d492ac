------------------------------- MODULE DagRun -------------------------------
(***************************************************************************)
(* Runs of the asset DAG: AssetDagExecutor::execute and ::resume           *)
(* (src/backend/src/assets/executor.rs) over the run manifest              *)
(* (assets/run_manifest.rs) and the materialization records and current    *)
(* pointers (assets/materialization.rs) in the lake.                       *)
(*                                                                         *)
(* A driver is one process that carries a run for its caller, here         *)
(* materialize_society of src/backend/src/catalog.rs: it executes the run  *)
(* if its manifest is absent, resumes it otherwise, and records the result *)
(* with its caller.  Drivers of one run overlap whenever the caller's own  *)
(* lease has passed to another process.                                    *)
(*                                                                         *)
(* Time is counted in attempts: record_for_run_attempt compares the time   *)
(* of a record with the start of a step's latest attempt, so a record      *)
(* carries the number of the step's attempts started when it was made.     *)
(***************************************************************************)
EXTENDS Naturals, Sequences, FiniteSets

CONSTANTS
  Runs,         \* run ids
  Drivers,      \* processes; each is also the id of its resume lease
  Carries,      \* the run each driver was started for
  Assets,
  Dependencies, \* the required dependencies of each asset
  Order,        \* a topological order of the assets
  Forced,       \* the assets each run is to materialize in any case
  Manual,       \* the assets that are first made only on request
  Stale,        \* the assets whose record from before the runs is too old
  NoInput,      \* the source assets each run's collectors brought no input for
  Promotes,     \* the values of promote_current each run may be given
  Pinned,       \* the assets that have a record from before the runs
  Required,     \* the asset the callers need
  MaxAttempts,  \* retry_policy.max_attempts as each driver was started with
  None

\* The identifiers of records: the run, the asset and the step's attempt.
RecordIds == [run : Runs \cup {None}, asset : Assets, attempt : Nat]

ASSUME DagAssumption ==
  /\ Forced \in [Runs -> SUBSET Assets] /\ NoInput \in [Runs -> SUBSET Assets]
  /\ Promotes \in [Runs -> SUBSET BOOLEAN]
  /\ Pinned \subseteq Assets /\ Manual \subseteq Assets /\ Stale \subseteq Pinned
  /\ Required \in Assets
  /\ Dependencies \in [Assets -> SUBSET Assets]
  /\ Order \in Seq(Assets)
  /\ \A s \in Assets : \E i \in 1 .. Len(Order) : Order[i] = s
  /\ \A i, j \in 1 .. Len(Order) :
       /\ Order[i] = Order[j] => i = j
       /\ Order[i] \in Dependencies[Order[j]] => i < j
  /\ Carries \in [Drivers -> Runs]
  /\ MaxAttempts \in [Drivers -> Nat \ {0}]
  /\ None \notin Drivers \cup Runs \cup RecordIds

VARIABLES
  manifest,  \* the stored manifest of each run
  records,   \* the materialization records in the lake
  current,   \* the current pointer of each asset
  recorded,  \* runs whose result their caller has saved
  pc,        \* the next step of each driver
  mine,      \* its copy of the manifest
  at,        \* the position of its loop over the steps
  gaps,      \* the steps it found unavailable when it began the loop
  try        \* the attempts it has made at this step

lakeVars == <<manifest, records, current, recorded>>
driverVars == <<pc, mine, at, gaps, try>>
dagVars == <<lakeVars, driverVars>>

-----------------------------------------------------------------------------
StepStatuses == {"planned", "running", "materialized", "skipped", "succeeded",
                 "failed", "blocked"}
RunStatuses == {"absent", "planned", "running", "succeeded", "warnings", "failed"}

\* The record a step's n-th attempt makes in a run; Before names the one an
\* asset had before.
Made(r, s, n) == [run |-> r, asset |-> s, attempt |-> n]
Before(s) == IF s \in Pinned THEN [run |-> None, asset |-> s, attempt |-> 0] ELSE None

\* A step: the record it was planned on and the one it has made, the number
\* of its attempts, and whether the last of them is still open.
NewStep(status, record) ==
  [status |-> status, before |-> record, made |-> None,
   attempts |-> 0, open |-> FALSE]

Absent == [revision |-> 0, lease |-> None, status |-> "absent",
           promote |-> FALSE,
           steps |-> [s \in Assets |-> NewStep("skipped", None)]]

\* The records that the current record of an asset was made from.
MadeFrom(s) ==
  IF current[s] = Before(s) THEN [t \in Dependencies[s] |-> Before(t)]
  ELSE (CHOOSE rec \in records : rec.id = current[s]).parents

\* asset_freshness: what the runs make themselves is fresh.
TooOld(s) == current[s] = Before(s) /\ s \in Stale

\* plan_reason: an asset that is not forced is made when it is missing and not
\* manual, has a dependency that is planned or missing, was made from other
\* records than the current ones, or is older than its cadence allows.
HasReason(s, planned) ==
  IF current[s] = None THEN s \notin Manual
  ELSE \/ \E t \in Dependencies[s] : t \in planned \/ current[t] = None
       \/ MadeFrom(s) # [t \in Dependencies[s] |-> current[t]]
       \/ TooOld(s)

\* plan_partition_details_with_forced, dependencies first.
Due(forced) ==
  LET due[s \in Assets] ==
        s \in forced \/ HasReason(s, {t \in Dependencies[s] : due[t]})
  IN {s \in Assets : due[s]}

\* plan and from_plan: the steps to make are planned, all others skipped.  A
\* run that promotes makes what is due and is planned on the current records;
\* one that does not makes what is forced, on the records its caller pins.
FromPlan(r, promote) ==
  LET chosen == IF promote THEN Due(Forced[r]) ELSE Forced[r] IN
  [Absent EXCEPT
     !.status = "planned",
     !.promote = promote,
     !.steps = [s \in Assets |->
       NewStep(IF s \in chosen THEN "planned" ELSE "skipped",
               IF promote THEN current[s] ELSE Before(s))]]

With(m, s, step) == [m EXCEPT !.steps[s] = step, !.status = "running"]
Status(m, s) == m.steps[s].status

\* restore_succeeded_records, load_dependency_snapshot and resolved_
\* dependency_record: the run's own record of a dependency that succeeded in
\* it, else the record it was planned on.
Parent(m, t) ==
  IF Status(m, t) = "succeeded" THEN m.steps[t].made ELSE m.steps[t].before

\* Mutated form of Parents: the run's own records are not looked up.
ParentsAsPlanned(m, s) == [t \in Dependencies[s] |-> m.steps[t].before]

Parents(m, s) == [t \in Dependencies[s] |-> Parent(m, t)]

-----------------------------------------------------------------------------
(* The pure parts of the manifest. *)

\* Mutated form of BlockedBy: only a blocked dependency blocks.
BlockedByBlocked(m, s) == {t \in Dependencies[s] : Status(m, t) = "blocked"}

\* blocked_dependencies
BlockedBy(m, s) == {t \in Dependencies[s] : Status(m, t) \in {"failed", "blocked"}}

\* unavailable_planned_assets: no source input, an unavailable dependency, or
\* neither planned nor pinned.
Unavailable(r, m) ==
  LET gap[s \in Assets] ==
        /\ Status(m, s) = "planned" \/ m.steps[s].before = None
        /\ \/ s \in NoInput[r]
           \/ \E t \in Dependencies[s] : gap[t]
           \/ Status(m, s) # "planned"
  IN {s \in Assets : gap[s]}

\* Mutated form of Prepared: every unfinished step starts again.
PreparedFromScratch(m) ==
  [m EXCEPT
     !.status = "running",
     !.steps = [s \in Assets |->
       IF Status(m, s) \in {"succeeded", "skipped"} THEN m.steps[s]
       ELSE [m.steps[s] EXCEPT !.status = "planned", !.made = None,
                               !.open = FALSE]]]

\* prepare_resume: finished steps stay, a materialized step stays so even if
\* its promotion failed, every other one starts again.
Prepared(m) ==
  [m EXCEPT
     !.status = "running",
     !.steps = [s \in Assets |->
       IF Status(m, s) \in {"succeeded", "skipped", "materialized"} THEN m.steps[s]
       ELSE IF Status(m, s) = "failed" /\ m.steps[s].made # None
         THEN [m.steps[s] EXCEPT !.status = "materialized"]
       ELSE [m.steps[s] EXCEPT !.status = "planned", !.made = None,
                               !.open = FALSE]]]

\* terminal_steps_succeeded: the assets no other depends on.
TerminalsSucceeded(m) ==
  \A s \in Assets :
    (\A t \in Assets : s \notin Dependencies[t]) =>
      Status(m, s) \in {"succeeded", "skipped"}

\* finish
Verdict(m) ==
  IF \E s \in Assets : Status(m, s) \in {"failed", "blocked"}
    THEN IF TerminalsSucceeded(m) THEN "warnings" ELSE "failed"
    ELSE "succeeded"

\* ensure_resumable
Resumable(status) == status \in {"running", "warnings", "failed"}

\* Mutated form of Candidates: every record of the run counts, whichever
\* attempt it was made after.
CandidatesOfRun(r, s, n) ==
  {rec \in records : rec.id.run = r /\ rec.id.asset = s}

\* record_for_run_attempt: the records made since a step's n-th attempt began.
Candidates(r, s, n) ==
  {rec \in records : rec.id.run = r /\ rec.id.asset = s /\ rec.since >= n}

-----------------------------------------------------------------------------
Init ==
  /\ manifest = [r \in Runs |-> Absent]
  /\ records = {}
  /\ current = [s \in Assets |-> Before(s)]
  /\ recorded = {}
  /\ pc = [d \in Drivers |-> "idle"]
  /\ mine = [d \in Drivers |-> Absent]
  /\ at = [d \in Drivers |-> 1]
  /\ gaps = [d \in Drivers |-> {}]
  /\ try = [d \in Drivers |-> 0]

StandsAt(d, step) == pc[d] = step
GoTo(d, step) == pc' = [pc EXCEPT ![d] = step]

\* A driver that ends forgets everything.
Stop(d) ==
  /\ GoTo(d, "over")
  /\ mine' = [mine EXCEPT ![d] = Absent]
  /\ at' = [at EXCEPT ![d] = 1]
  /\ gaps' = [gaps EXCEPT ![d] = {}]
  /\ try' = [try EXCEPT ![d] = 0]

\* An error: resume releases its lease first, execute holds none.
Raise(d) ==
  IF mine[d].lease = d
    THEN GoTo(d, "release") /\ UNCHANGED <<mine, at, gaps, try>>
    ELSE Stop(d)

\* The step the loop of execute_manifest stands at.
Here(d) == Order[at[d]]
HereStep(d) == mine[d].steps[Here(d)]

\* Mutated form of Persist: write_manifest instead of write_manifest_cas.
PersistUnchecked(d, new, step, next) ==
  LET r == Carries[d]
      saved == [new EXCEPT !.revision = mine[d].revision + 1]
  IN
  /\ manifest' = [manifest EXCEPT ![r] = saved]
  /\ mine' = [mine EXCEPT ![d] = saved]
  /\ at' = [at EXCEPT ![d] = next]
  /\ GoTo(d, step)
  /\ gaps' = [gaps EXCEPT ![d] = IF pc[d] = "open" THEN Unavailable(r, saved) ELSE @]
  /\ try' = [try EXCEPT ![d] = IF step \in {"execute", "backoff"} THEN @ ELSE 0]

\* persist_manifest: renew the lease and write onto the revision last seen.
\* A driver whose manifest has changed under it ends with an error.
Persist(d, new, step, next) ==
  LET r == Carries[d]
      saved == [new EXCEPT !.revision = mine[d].revision + 1]
  IN
  IF manifest[r].revision = mine[d].revision
    THEN /\ manifest' = [manifest EXCEPT ![r] = saved]
         /\ mine' = [mine EXCEPT ![d] = saved]
         /\ at' = [at EXCEPT ![d] = next]
         /\ GoTo(d, step)
         /\ gaps' = [gaps EXCEPT ![d] = IF pc[d] = "open" THEN Unavailable(r, saved) ELSE @]
         /\ try' = [try EXCEPT ![d] = IF step \in {"execute", "backoff"} THEN @ ELSE 0]
    ELSE /\ Raise(d)
         /\ UNCHANGED manifest

\* A step of the loop is saved, and the loop goes on, or stays at the step.
SaveAndStay(d, step, pcNext) ==
  Persist(d, With(mine[d], Here(d), step), pcNext, at[d])
SaveAndGoOn(d, step) ==
  Persist(d, With(mine[d], Here(d), step), "loop", at[d] + 1)

-----------------------------------------------------------------------------
(* Entering a run. *)

\* The manifest is read: execute plans a new run, resume refuses a run that
\* is not in a resumable status.
Enter(d) ==
  LET r == Carries[d] IN
  /\ StandsAt(d, "idle")
  /\ r \notin recorded
  /\ \/ /\ manifest[r].status = "absent"
        /\ \E promote \in Promotes[r] :
             mine' = [mine EXCEPT ![d] = FromPlan(r, promote)]
        /\ GoTo(d, "open")
     \/ /\ Resumable(manifest[r].status)
        /\ mine' = [mine EXCEPT ![d] = manifest[r]]
        /\ GoTo(d, "claim")
     \/ /\ manifest[r].status # "absent"
        /\ ~Resumable(manifest[r].status)
        /\ GoTo(d, "over")
        /\ UNCHANGED mine
  /\ UNCHANGED <<lakeVars, at, gaps, try>>

\* acquire_resume_lease: refused while another owner's lease runs.  A lease is
\* renewed with each save, and an owner may take longer than its hour over one
\* asset, so a recorded lease may or may not have expired.
Claim(d) ==
  /\ StandsAt(d, "claim")
  /\ \/ Persist(d, [mine[d] EXCEPT !.lease = d], "recover", at[d])
     \/ /\ mine[d].lease # None
        /\ Stop(d)
        /\ UNCHANGED manifest
  /\ UNCHANGED <<records, current, recorded>>

RunningSteps(m) == {s \in Assets : Status(m, s) = "running"}

\* recover_interrupted_materialization: look for the record of the attempt
\* that was running when the run was left.
\* With none the step starts again; with several, or with one of an attempt
\* that is closed already, it is an error.
Recover(d) ==
  LET m == mine[d] IN
  /\ StandsAt(d, "recover")
  /\ \/ /\ RunningSteps(m) = {}
        /\ mine' = [mine EXCEPT ![d] = Prepared(m)]
        /\ GoTo(d, "open")
        /\ UNCHANGED <<at, gaps, try>>
     \/ \E s \in RunningSteps(m) :
          LET found == Candidates(Carries[d], s, m.steps[s].attempts) IN
          \/ /\ found = {}
             /\ mine' = [mine EXCEPT ![d] = Prepared(m)]
             /\ GoTo(d, "open")
             /\ UNCHANGED <<at, gaps, try>>
          \/ \E rec \in found :
               /\ found = {rec}
               /\ m.steps[s].open
               /\ rec.parents = Parents(m, s)
               /\ mine' = [mine EXCEPT ![d] =
                    With(m, s, [m.steps[s] EXCEPT !.status = "materialized",
                                                  !.made = rec.id,
                                                  !.open = FALSE])]
               /\ GoTo(d, "adopt")
               /\ UNCHANGED <<at, gaps, try>>
          \/ /\ found # {}
             /\ ~ \E rec \in found :
                    /\ found = {rec}
                    /\ m.steps[s].open
                    /\ rec.parents = Parents(m, s)
             /\ Raise(d)
  /\ UNCHANGED lakeVars

\* The adopted step is saved before the other steps are prepared.
Adopt(d) ==
  /\ StandsAt(d, "adopt")
  /\ Persist(d, mine[d], "prepare", at[d])
  /\ UNCHANGED <<records, current, recorded>>

Prepare(d) ==
  /\ StandsAt(d, "prepare")
  /\ mine' = [mine EXCEPT ![d] = Prepared(mine[d])]
  /\ GoTo(d, "open")
  /\ UNCHANGED <<lakeVars, at, gaps, try>>

\* The first save of execute_manifest.
Open(d) ==
  /\ StandsAt(d, "open")
  /\ Persist(d, mine[d], "loop", 1)
  /\ UNCHANGED <<records, current, recorded>>

-----------------------------------------------------------------------------
(* The loop of execute_manifest over the steps. *)

Looping(d) == StandsAt(d, "loop") /\ at[d] <= Len(Order)

\* A step that is neither planned nor waiting for its promotion.
PassStep(d) ==
  /\ Looping(d)
  /\ HereStep(d).status \notin {"planned", "materialized"}
  /\ at' = [at EXCEPT ![d] = @ + 1]
  /\ UNCHANGED <<lakeVars, pc, mine, gaps, try>>

BlockStep(d) ==
  /\ Looping(d)
  /\ HereStep(d).status = "planned"
  /\ BlockedBy(mine[d], Here(d)) # {}
  /\ SaveAndGoOn(d, [HereStep(d) EXCEPT !.status = "blocked"])
  /\ UNCHANGED <<records, current, recorded>>

SkipStep(d) ==
  /\ Looping(d)
  /\ HereStep(d).status = "planned"
  /\ BlockedBy(mine[d], Here(d)) = {}
  /\ Here(d) \in gaps[d]
  /\ SaveAndGoOn(d, [HereStep(d) EXCEPT !.status = "skipped"])
  /\ UNCHANGED <<records, current, recorded>>

\* mark_step_running, for the first attempt and for each retry.
StartAttempt(d) ==
  /\ \/ /\ Looping(d)
        /\ HereStep(d).status = "planned"
        /\ BlockedBy(mine[d], Here(d)) = {}
        /\ Here(d) \notin gaps[d]
     \/ StandsAt(d, "backoff")
  /\ SaveAndStay(d, [HereStep(d) EXCEPT !.status = "running",
                                        !.attempts = @ + 1,
                                        !.open = TRUE], "execute")
  /\ UNCHANGED <<records, current, recorded>>

\* The record an executing driver writes: its id is fresh, its creation time
\* is compared with the attempts the stored manifest has started by then.
NewRecord(d) ==
  LET r == Carries[d]
      s == Here(d)
  IN [id |-> Made(r, s, HereStep(d).attempts),
      since |-> manifest[r].steps[s].attempts,
      by |-> d,
      parents |-> Parents(mine[d], s)]

\* dependency_materialization_records: an asset without one of its required
\* records is not made.
Supplied(d) == \A t \in Dependencies[Here(d)] : Parents(mine[d], Here(d))[t] # None

\* execute_asset returns a record it has written.
Materialize(d) ==
  /\ StandsAt(d, "execute")
  /\ Supplied(d)
  /\ records' = records \cup {NewRecord(d)}
  /\ GoTo(d, "materialized")
  /\ UNCHANGED <<manifest, current, recorded, mine, at, gaps, try>>

\* execute_asset fails or times out, before or after the record is written:
\* the record is put before its lookup.
FailAttempt(d) ==
  /\ StandsAt(d, "execute")
  /\ try' = [try EXCEPT ![d] = @ + 1]
  /\ \/ UNCHANGED records
     \/ Supplied(d) /\ records' = records \cup {NewRecord(d)}
  /\ GoTo(d, "failing")
  /\ UNCHANGED <<manifest, current, recorded, mine, at, gaps>>

\* Mutated form of RetryLater: one attempt more than the policy allows.
RetryOnceMore(d) ==
  /\ StandsAt(d, "failing")
  /\ try[d] <= MaxAttempts[d]
  /\ SaveAndStay(d, [HereStep(d) EXCEPT !.open = FALSE], "backoff")
  /\ UNCHANGED <<records, current, recorded>>

\* mark_step_attempt_failed: the attempt is closed, the step stays running
\* over the back-off.
RetryLater(d) ==
  /\ StandsAt(d, "failing")
  /\ try[d] < MaxAttempts[d]
  /\ SaveAndStay(d, [HereStep(d) EXCEPT !.open = FALSE], "backoff")
  /\ UNCHANGED <<records, current, recorded>>

\* mark_step_failed: not retryable, or the attempts are used up.
FailStep(d) ==
  /\ StandsAt(d, "failing")
  /\ SaveAndGoOn(d, [HereStep(d) EXCEPT !.status = "failed", !.open = FALSE])
  /\ UNCHANGED <<records, current, recorded>>

\* mark_step_materialized
SaveMaterialized(d) ==
  /\ StandsAt(d, "materialized")
  /\ SaveAndStay(d, [HereStep(d) EXCEPT !.status = "materialized",
                                        !.made = Made(Carries[d], Here(d), HereStep(d).attempts),
                                        !.open = FALSE], "loop")
  /\ UNCHANGED <<records, current, recorded>>

-----------------------------------------------------------------------------
(* Promotion. *)
\* A run that is not to promote only marks the step.
SkipPromotion(d) ==
  /\ Looping(d)
  /\ HereStep(d).status = "materialized"
  /\ ~mine[d].promote
  /\ SaveAndGoOn(d, [HereStep(d) EXCEPT !.status = "succeeded"])
  /\ UNCHANGED <<records, current, recorded>>

\* promote_materialization_with_retry calls compare_and_swap_current for a
\* materialized step, against the record the step was planned on or the step's
\* own record when it has been promoted before.
ToPromote(d) ==
  /\ Looping(d)
  /\ HereStep(d).status = "materialized"
  /\ mine[d].promote
Swappable(d) == current[Here(d)] \in {HereStep(d).before, HereStep(d).made}
Swap(d) == current' = [current EXCEPT ![Here(d)] = HereStep(d).made]

\* Mutated form of Promote: the pointer is put unconditionally.
PromoteAlways(d) ==
  /\ ToPromote(d)
  /\ Swap(d)
  /\ GoTo(d, "promoted")
  /\ UNCHANGED <<manifest, records, recorded, mine, at, gaps, try>>

\* Ok(true): the pointer names the step's record now.
Promote(d) ==
  /\ ToPromote(d)
  /\ Swappable(d)
  /\ Swap(d)
  /\ GoTo(d, "promoted")
  /\ UNCHANGED <<manifest, records, recorded, mine, at, gaps, try>>

\* Ok(false): the pointer names a record of another run.
LosePromotion(d) ==
  /\ ToPromote(d)
  /\ ~Swappable(d)
  /\ GoTo(d, "unpromoted")
  /\ UNCHANGED <<manifest, records, current, recorded, mine, at, gaps, try>>

\* Err: the put failed, or took effect and its answer was lost.  The swap is
\* repeated after a retryable error while attempts are left.
FailPromotion(d) ==
  /\ ToPromote(d)
  /\ \/ UNCHANGED current
     \/ Swappable(d) /\ Swap(d)
  /\ try' = [try EXCEPT ![d] = @ + 1]
  /\ \/ try[d] + 1 < MaxAttempts[d] /\ UNCHANGED pc
     \/ GoTo(d, "unpromoted")
  /\ UNCHANGED <<manifest, records, recorded, mine, at, gaps>>

\* mark_step_promoted
SavePromoted(d) ==
  /\ StandsAt(d, "promoted")
  /\ SaveAndGoOn(d, [HereStep(d) EXCEPT !.status = "succeeded"])
  /\ UNCHANGED <<records, current, recorded>>

\* mark_materialized_step_failed, whatever the error was: the step's record may
\* be current all the same.
SaveUnpromoted(d) ==
  /\ StandsAt(d, "unpromoted")
  /\ SaveAndGoOn(d, [HereStep(d) EXCEPT !.status = "failed"])
  /\ UNCHANGED <<records, current, recorded>>

-----------------------------------------------------------------------------
(* The end of a run. *)

\* finish and the last save, which drops the lease.  The pointer to a
\* partition's latest run, which the executor never reads, is left out.
Finish(d) ==
  /\ StandsAt(d, "loop")
  /\ at[d] > Len(Order)
  /\ Persist(d, [mine[d] EXCEPT !.status = Verdict(mine[d]), !.lease = None],
             "returned", at[d])
  /\ UNCHANGED <<records, current, recorded>>

\* The caller writes what it makes of the result and saves its own record,
\* unless the run failed or the asset it needs did not succeed.
Record(d) ==
  /\ StandsAt(d, "returned")
  /\ recorded' = IF /\ mine[d].status # "failed"
                     /\ Status(mine[d], Required) = "succeeded"
                  THEN recorded \cup {Carries[d]} ELSE recorded
  /\ Stop(d)
  /\ UNCHANGED <<manifest, records, current>>

\* release_resume_lease
Release(d) ==
  LET r == Carries[d] IN
  /\ StandsAt(d, "release")
  /\ IF manifest[r].lease = d
       THEN manifest' = [manifest EXCEPT ![r].lease = None, ![r].revision = @ + 1]
       ELSE UNCHANGED manifest
  /\ Stop(d)
  /\ UNCHANGED <<records, current, recorded>>

Over == {"idle", "over"}

\* Any step may fail on the lake or on corrupt data, but a promotion once begun
\* has its errors saved with the step.
Fail(d) ==
  /\ pc[d] \notin Over \cup {"release"}
  /\ ~(StandsAt(d, "loop") /\ try[d] > 0)
  /\ IF pc[d] \in {"claim", "returned"} THEN Stop(d) ELSE Raise(d)
  /\ UNCHANGED lakeVars

Crash(d) ==
  /\ pc[d] \notin Over
  /\ Stop(d)
  /\ UNCHANGED lakeVars

-----------------------------------------------------------------------------
Step(d) ==
  \/ Claim(d) \/ Recover(d) \/ Adopt(d) \/ Prepare(d) \/ Open(d)
  \/ PassStep(d) \/ BlockStep(d) \/ SkipStep(d) \/ StartAttempt(d)
  \/ Materialize(d) \/ FailAttempt(d) \/ RetryLater(d) \/ FailStep(d)
  \/ SaveMaterialized(d)
  \/ SkipPromotion(d) \/ Promote(d) \/ LosePromotion(d) \/ FailPromotion(d)
  \/ SavePromoted(d) \/ SaveUnpromoted(d)
  \/ Finish(d) \/ Record(d) \/ Release(d)

Next ==
  \/ \E d \in Drivers :
       \/ Enter(d)
       \/ Step(d)
       \/ Fail(d)
       \/ Crash(d)

Spec == Init /\ [][Next]_dagVars

-----------------------------------------------------------------------------
(* Properties. *)

Steps == [status : StepStatuses, before : RecordIds \cup {None},
          made : RecordIds \cup {None}, attempts : Nat, open : BOOLEAN]
Manifests == [revision : Nat, lease : Drivers \cup {None}, status : RunStatuses,
              promote : BOOLEAN,
              steps : [Assets -> Steps]]
PcStates == Over \cup
  {"open", "claim", "recover", "adopt", "prepare", "loop", "execute",
   "materialized", "failing", "backoff", "promoted", "unpromoted", "returned",
   "release"}

DTypeOK ==
  /\ manifest \in [Runs -> Manifests]
  /\ \A rec \in records :
       /\ rec.id \in RecordIds /\ rec.since \in Nat /\ rec.by \in Drivers
       /\ rec.parents \in [Dependencies[rec.id.asset] -> RecordIds \cup {None}]
  /\ current \in [Assets -> RecordIds \cup {None}]
  /\ recorded \subseteq Runs
  /\ pc \in [Drivers -> PcStates]
  /\ mine \in [Drivers -> Manifests]
  /\ at \in [Drivers -> 1 .. Len(Order) + 1]
  /\ gaps \in [Drivers -> SUBSET Assets]
  /\ try \in [Drivers -> Nat] /\ \A d \in Drivers : try[d] <= MaxAttempts[d]

\* The record a step of a run names is in the lake, and was computed from the
\* records that the run itself, not an earlier one, has for its dependencies:
\* also when the attempt that made it belongs to a driver that is gone and
\* the run was resumed, perhaps twice, since.
LineageHolds ==
  \A r \in Runs, s \in Assets :
    LET step == manifest[r].steps[s] IN
    step.made # None =>
      \E rec \in records :
        /\ rec.id = step.made
        /\ \A t \in Dependencies[s] : rec.parents[t] = Parent(manifest[r], t)

\* An asset is only worked on after all its dependencies: while a step has an
\* attempt running or a record, none of them is failed, blocked or unfinished.
DependenciesFirst ==
  \A r \in Runs, s \in Assets :
    Status(manifest[r], s) \in {"running", "materialized", "succeeded"} =>
      \A t \in Dependencies[s] :
        Status(manifest[r], t) \in {"succeeded", "skipped"}

\* A record becomes current only when the run's stored manifest names it, so
\* a driver that was deposed while it executed never promotes its own record.
CurrentIsRecorded ==
  \A s \in Assets :
    current[s] # Before(s) =>
      manifest[current[s].run].steps[s].made = current[s]

\* Two runs never overwrite one another: a record that a run promotes
\* replaces the record that run was planned on.
PromotedOnItsPlan ==
  [][\A s \in Assets :
       current'[s] # current[s] =>
         manifest[current'[s].run].steps[s].before = current[s]]_current

\* A promotion lost to another run stays lost, also when the step, marked
\* failed for it, is promoted anew by every resumption of its run: once the
\* pointer has left both the record a step was planned on and the step's own,
\* it comes back to neither.
LostStaysLost ==
  [][\A r \in Runs, s \in Assets :
       LET step == manifest[r].steps[s] IN
       step.made # None /\ current[s] \notin {step.before, step.made}
         => current'[s] \notin {step.before, step.made}]_current

\* What the stored manifest has of a step's result is never lost or replaced,
\* whichever driver saves, fails or resumes: a step that has made a record
\* keeps that record, and a step that succeeded stays so.
ResultsAreKept ==
  [][\A r \in Runs, s \in Assets :
       LET old == manifest[r].steps[s]
           new == manifest'[r].steps[s]
       IN /\ old.made # None => new.made = old.made
          /\ old.status = "succeeded" => new.status = "succeeded"]_manifest

\* What a promoting run has made is not due again, as long as nobody promotes
\* anything else and nothing that it skipped is due: what the executor records
\* as the parents of a record is what the planner expects of them, also for a
\* run that was resumed.
SucceededIsUpToDate ==
  \A r \in Runs :
    LET m == manifest[r]
        result(s) == IF Status(m, s) = "succeeded" THEN m.steps[s].made
                                                   ELSE m.steps[s].before
    IN
    /\ m.status \in {"succeeded", "warnings"}
    /\ m.promote
    /\ \A s \in Assets : current[s] = result(s)
    /\ \A s \in Due({}) : Status(m, s) # "skipped"
    => \A s \in Due({}) : Status(m, s) # "succeeded"

\* Retries and crashes of a single process never leave two records between
\* which a resume cannot choose; that takes two drivers at the same step.
OneCandidatePerDriver ==
  \A r \in Runs, s \in Assets :
    LET step == manifest[r].steps[s] IN
    step.status = "running" =>
      \A x, y \in Candidates(r, s, step.attempts) : x.by = y.by => x = y

\* "required dependency ... was unavailable; skipped" (executor.rs): a step that
\* was planned is skipped for want of its own input or of a dependency that was
\* skipped itself, never of one that the run has made.
SkippedIsUnavailable ==
  \A r \in Runs : \A s \in Forced[r] :
    manifest[r].status # "absent" /\ Status(manifest[r], s) = "skipped" =>
      \/ s \in NoInput[r]
      \/ \E t \in Dependencies[s] : Status(manifest[r], t) = "skipped"

\* "unfinished operation ... use its original code to resume"
\* (catalog/apply.rs): a run that nobody carries any more and whose result
\* its caller has not recorded can be resumed.
UnfinishedIsResumable ==
  \A r \in Runs :
    /\ manifest[r].status # "absent"
    /\ r \notin recorded
    /\ \A d \in Drivers : Carries[d] = r => pc[d] \in Over
    => Resumable(manifest[r].status)
-----------------------------------------------------------------------------
(* The inductive strengthening behind the properties above. *)

\* A record that the pointer of an asset names or has named: the one from
\* before the runs, or one a run has made and promoted.  A record that is not
\* current any more was not planned on the one that is.
WasCurrent(s, id) ==
  \/ id \in {Before(s), current[s]}
  \/ /\ id # None /\ id.run \in Runs
     /\ manifest[id.run].steps[s].made = id
     /\ manifest[id.run].steps[s].before # current[s]

OnCourse(m) == \A s \in Assets : WasCurrent(s, m.steps[s].before)

\* Stored manifests and copies were planned on records that have been current.
PointersMoveOn ==
  /\ \A r \in Runs :
       IF manifest[r].revision = 0 THEN manifest[r] = Absent
                                   ELSE OnCourse(manifest[r])
  /\ \A d \in Drivers :
       /\ pc[d] \notin Over => OnCourse(mine[d])
       /\ mine[d].revision = 0 =>
            /\ pc[d] \in Over \cup {"open", "release"}
            /\ \A s \in Assets : mine[d].steps[s].made = None

\* A copy that can be saved counts the attempts the stored manifest counts,
\* and of two records of one driver only the last is of the last attempt.
AttemptsAreCounted ==
  /\ \A d \in Drivers :
       LET m == manifest[Carries[d]] IN
       /\ mine[d].revision = m.revision =>
            \A s \in Assets : mine[d].steps[s].attempts = m.steps[s].attempts
       /\ pc[d] = "execute" =>
            \A x \in records :
              x.by = d /\ x.id.asset = Here(d) => x.since < m.steps[Here(d)].attempts
  /\ \A x \in records :
       LET last == manifest[Carries[x.by]].steps[x.id.asset].attempts IN
       /\ x.id.run = Carries[x.by]
       /\ x.since <= last
       /\ \A y \in records :
            x.by = y.by /\ x.id.asset = y.id.asset /\ x # y =>
              x.since < last \/ y.since < last

\* The record that a driver at work is about to write.
Attempted(d) == Made(Carries[d], Here(d), HereStep(d).attempts)

\* No two attempts write the same record, and none writes one that was not
\* made from a record of each dependency.
RecordsAreDistinct ==
  /\ \A x \in records :
       /\ x.id.attempt <= manifest[Carries[x.by]].steps[x.id.asset].attempts
       /\ \A t \in Dependencies[x.id.asset] : x.parents[t] # None
       /\ \A y \in records : x.id = y.id => x = y
  /\ \A d \in Drivers :
       pc[d] = "execute" =>
         /\ HereStep(d).attempts <= manifest[Carries[d]].steps[Here(d)].attempts
         /\ \A x \in records : x.id # Attempted(d)
         /\ \A e \in Drivers \ {d} : pc[e] = "execute" => Attempted(e) # Attempted(d)
=============================================================================
