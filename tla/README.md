# A verification of the OpenEstates backend

TLA+ modules, TLC configurations and TLAPS proofs about the backend of OpenEstates
(`src/backend`, Rust). This document says which parts the system has, which of them are
modelled and how, what each check and proof shows, and what comes next.

Paths without a directory (`catalog.rs`, `apply.rs`) are under `src/backend/src/` and
`src/backend/src/catalog/`.

## 1. The system and its parts

OpenEstates collects evidence about housing societies, curates it into a *catalog* of immutable
snapshots in a *lake* (a directory or an object store), builds a *serving bundle* from it, and
answers search requests over the bundle from memory.

| Component | State it keeps | Operations | What makes it correct |
|---|---|---|---|
| **Catalog control plane** `catalog.rs`, `catalog/apply.rs` | the catalog pointer (revision, current, previous generation); one operation record per operation id with revision, lease, base, per-society work, candidate roster, generation, outcome; rosters | `apply` (open, claim the lease, recover, collect, prepare, publish, close, release), `undo` | one publication per base, nothing overwritten, outcomes true, recorded progress durable, no operation wedged |
| **Catalog cleanup** `catalog.rs` (`gc`) | the keys of snapshots, rosters and bundles | list, check for unfinished operations, delete by prefix, after an undo | what is served, what undo restores and what an unfinished operation holds is never deleted |
| **Lake store** `lake/store.rs` | objects, their versions; lock files of the local store | get, put, compare-and-put, list, delete | compare-and-put is atomic, whoever dies or is slow; a call is answered in the end |
| **Asset DAG executor** `assets/planner.rs`, `executor.rs`, `run_manifest.rs`, `materialization.rs` | run manifest with a resume lease, materialization records, current pointers | plan, execute a step, record, promote, resume | what a step has made is kept and rests on the run's own inputs; a promotion replaces the record its run was planned on; what has been made is not due again |
| Asset definitions, compaction `assets/` | none beyond the rows of one run | decode, validate, merge, compact | merging is idempotent and keeps the newest evidence |
| DAG configuration `dag_config/` | loaded once | load, resolve, validate | a resolved graph has no cycle and no dangling reference |
| Serving bundle `serving/` | files of one bundle | build, validate, load | what validates loads |
| **Runtime serving state** `state.rs`, `routes/properties.rs`, `routes/search_revisions.rs`, `routes/admin.rs` | served snapshot; caches of search responses, plans, listings and recommendations; revision idempotency cache; reservations and their waiters | search, revise, resume, list, recommend, reload | one computation per key and per mutation, each answer from the snapshot its request has loaded, nobody waits for a leader that is gone, caches keep their limits |
| **Admission and execution** `security/` | semaphores and gauges by route class | admit, execute with timeout | permits are returned whatever becomes of the request; overload is refused, not queued without bound |
| Search, knowledge, scoring, recommendations | immutable indexes | query | pure functions of a query and an index |
| HTTP surface, command line tools | none | routing, serialisation | contracts |
| Web frontend, Python pipeline, film, scripts, data | their own | | outside the backend |

Interaction: the command line tools run `apply` and `undo` as separate processes that share only
the lake. `apply` runs the collectors (Python) as child processes, writes snapshots and a roster,
has the serving bundle built and validated, and publishes by swapping the pointer. The HTTP
backend loads the bundle that the pointer names and swaps it in on `reload`.

The hard behaviours are in the parts in bold: several processes over one store with nothing but a
compare-and-put between them, leases that expire under their owner, crashes between any two
writes, a collector that deletes by a list it made earlier, and, inside the serving process,
requests that are dropped wherever they wait while others wait for them. `PROJECT.json` ("components")
divides the lake store into its conditional put, which is modelled, and its files, and the serving state
into the caches and the reload, which are modelled, and the requests, whose validation is left out. Its
"hazards" list what can go wrong, each at its line.

## 2. Modules

| Module | What it is |
|---|---|
| `CatalogPublication` | the abstract protocol: which generations are served, against which base an operation was opened, how it is reported. No leases, crashes, copies or files |
| `CatalogApply` | the detailed control plane: concurrent invocations of `apply` and `undo` over the lake; properties, inductive invariant, refinement mapping, fairness |
| `CatalogCleanup` | `CatalogApply` composed with the immutable objects (snapshots, rosters, bundles) and the collector that follows an undo |
| `MCCatalogApply`, `MCCatalogCleanup` | instances for TLC: requests, symmetry, restricted next-state relations |
| `CatalogApply_proofs` | the inductive invariant and the safety theorems |
| `CatalogPublication_proofs` | `CatalogApply` implements `CatalogPublication`; what records and rosters hold: no update is lost, progress is kept, leases are cleared |
| `CatalogCleanup_proofs` | the composition is still `CatalogApply`; what the collector spares |
| `LakePutIf` | the abstract store: a put that replaces one object in the instant in which the caller's condition holds of it |
| `LakeLocalStore` | `put_json_if` on a local directory: the lock file of the key, its age, its removal by others and by its owner |
| `LakeObjectStore` | `put_json_if` on an object store: the loop of versioned reads and conditional puts |
| `MCLakeLocalStore`, `MCLakeObjectStore` | instances for TLC: the conditions of the callers, restricted next-state relations |
| `LakeLocalStore_proofs`, `LakeObjectStore_proofs` | their safety theorems, and that both implement `LakePutIf` |
| `DagRun` | runs of the asset DAG: plan, manifest, lease, recovery, retries, promotion, verdict |
| `MCDagRun` | its instances for TLC |
| `DagRun_proofs` | its type correctness; records are made in order and from the run's own records |
| `DagResults_proofs` | its results are kept, promoted in order and not made again; what a resume may find |
| `WeightedLru` | the size-bounded least-recently-used cache, as operators |
| `Reservations` | the watch channels between the leader of a computation and those who wait for it |
| `SearchResponseCache` | responses by query and runtime version, one leader per key |
| `SearchRevisionCache` | responses of revisions by mutation, their eviction, and the outputs of plans |
| `SearchServing` | composes the caches with the requests, the compute lane, admission and reloads |
| `MCSearchServing` | the mixtures of requests that TLC checks |
| `SearchServing_proofs` | who leads, who waits and who has a slot; what the caches hold and what is answered from them, for any traffic |

`CatalogApply` uses a compare-and-put of the lake as one step; `LakePutIf` is that step stated by
itself, and the two store modules say when the code provides it.

### 2.1 State of `CatalogApply`

| Variable | In the code |
|---|---|
| `pointer` | `manifests/catalog/dev.json` (`CatalogPointer`, `catalog.rs:113`); an absent file is revision 0 with no generations |
| `record[op]` | `manifests/catalog/operations/<id>.json` (`Operation`, `apply.rs:152`); `Unopened` stands for an absent file. `outcome` folds `report` and `terminal_failure` |
| `expired[op]` | whether the recorded `lease_expires_at` has passed. It is a fact about the record and the clock, so every write that renews the lease clears it |
| `rosters[a]` | `manifests/catalog/rosters/<id>.json` of the generation that attempt `a` prepares |
| `pc[a]`, `target[a]`, `local[a]` | where an invocation stands in `apply_with_provider` / `apply_operation`, its operation id, its in-memory `Operation` |
| `upc[u]`, `seen[u]` | an invocation of `undo` and the pointer it read |
| `history` | ghost: the generations served, in order |

An attempt is one invocation that wins a lease. The fresh ids of the code (lease owner, snapshot,
roster and bundle ids) are all named by the attempt, because none is shared between two of
them. A roster maps a society to the attempt whose snapshot it pins.

### 2.2 Actions and code

| Action | Code |
|---|---|
| `Start`, `Load`, `Create`, `Claim` | `apply.rs:216-330`: fresh owner id; read the record; if absent, put a new one against the pointer just read and read it back; refuse a running lease; claim by compare-and-put |
| `Recover` | `apply.rs:331-352`: was the recorded generation published, was the base replaced, where does the record resume |
| `CollectSociety`, `SaveCandidate` | `apply.rs:516-960`: per society a new snapshot or the kept base entry, saved; then the candidate roster, saved |
| `PrepareGeneration`, `SaveGeneration` | `catalog.rs:580-690`, `apply.rs:961-1070`: roster and bundle under fresh ids, then saved in the record |
| `PublishGeneration` | `catalog.rs:692-716`: compare-and-put of the pointer against the base |
| `ClosePublished`, `CloseStale` | the save of the report, or of the terminal failure |
| `Release` | `apply.rs:227-243`: on every orderly end, clear the lease if it is still ours |
| `Fail`, `Crash` | any step returns an error (the lease is then released), or the process ends and the lease stays |
| `LeaseExpires` | the hour passes, at any time |
| `UndoRead`, `UndoSwap`, `UndoFail` | `catalog.rs:766-808` |

`Save` is `save_operation` (`apply.rs:1138`), used by every saving action: it goes through only
onto the revision and the owner last seen; a refused save ends the attempt.

`CatalogCleanup` adds to each of these the objects it reads or writes (`WriteSnapshot`,
`BuildBundle`, `UndoValidate`, ...) and the collector: `GcList`, `GcCheck`, `GcListPrefix`,
`GcDelete`, `GcNextPrefix`, and `GcStop`, which ends it at any point because a store error defers
the rest. The variable `cleanupEnabled`, chosen in `CInit` and never changed, is `cleanup_enabled` of
`src/app/config/dag/catalog_enrichment.json`, which ships as `false`.

### 2.3 The store modules

Each models one key, which is what both forms of `put_json_if` guard, and callers that put once. An
object is named by the caller that put it. `Replaces(w, before, now)`, a constant operator, is the
closure that the caller passes: of the object it had read before the call and of the object in
the lake. The catalog's is `now = before`; a promotion's is "of an older generation".

`LakeLocalStore` (`lake/store.rs:163-174`, `448-501`):

| Variable, action | In the code |
|---|---|
| `lock` | the lock file. It has no content; the model names who created it, and no step of the code depends on that name |
| `old` | its age is more than thirty seconds: a fact of the file and the clock, cleared when it is created anew |
| `pc`, `tries`, `seen`, `answer` | where a caller stands, its rounds of `acquire`, what it had read before the call, its answer |
| `stolen` | ghost: a lock file was removed while the process that created it was inside |
| `Create`, `Wait`, `RemoveOld`, `OpenFails`, `GiveUp` | `acquire`: `create_new`; the file exists and is stat'ed; the file found old is removed, some time later; any other error; the rounds are used up |
| `Check`, `Write`, `Fail` | read and compare under the lock; put; an error of either, with or without effect |
| `Unlock` | the drop of the guard, which removes whichever file is there and ignores errors |
| `Crash`, `LockAges` | the process dies and its file stays; thirty seconds pass, also under a running owner |

`LakeObjectStore` (`lake/store.rs:176-213`): `version` stands for the version or e_tag, `got` for the
`UpdateVersion` a caller holds. `Get` reads and compares, `Put` is a conditional put that goes
through, `Conflict` one refused with `AlreadyExists` or `Precondition`, `Fail` an error of either,
also one that hides a put that went through, and `GiveUp` the error after the last round.

### 2.4 `DagRun`

A *driver* is one process that carries a run for its caller (`materialize_society`, `catalog.rs:1024`):
it executes the run when its manifest is absent, resumes it otherwise, and records the result.

| Variable | In the code |
|---|---|
| `manifest[r]` | the run manifest in the lake: revision, resume lease, status, `promote_current`, and per asset a step with its status, the record it was planned on (`before`), the record it has made, its attempts and whether the last is open |
| `records` | the materialization records; `parents` are the records each was computed from, `since` its creation time counted in attempts (`record_for_run_attempt` compares times) |
| `current` | the current pointer of each asset |
| `recorded` | runs whose result the caller has saved |
| `pc`, `mine`, `at`, `gaps`, `try` | where a driver stands, its copy of the manifest, its place in the loop, the steps it found unavailable, its attempts at this step |

| Action | Code |
|---|---|
| `Enter` | `execute`: plan and `from_plan` (`Due` is the planner, `planner.rs`); `resume`: `ensure_resumable` |
| `Claim` | `acquire_resume_lease` (`run_manifest.rs:521`) |
| `Recover`, `Adopt`, `Prepare` | `recover_interrupted_materialization`, its save, `prepare_resume` |
| `Open` | the first save of `execute_manifest`, and `unavailable_planned_assets` |
| `PassStep`, `BlockStep`, `SkipStep`, `StartAttempt` | the head of the loop |
| `Materialize`, `FailAttempt`, `RetryLater`, `FailStep`, `SaveMaterialized` | `execute_asset` and what is saved of it |
| `SkipPromotion`, `Promote`, `LosePromotion`, `FailPromotion` | `promote_materialization_with_retry`: not wanted, swapped, lost to another record, or an error, be it that the put failed or that it took effect and its answer was lost; an error is retried while attempts are left |
| `SavePromoted`, `SaveUnpromoted` | what is saved of it: every outcome but a swap marks the step failed, and the loop goes on (`executor.rs:531`, `656`) |
| `Finish`, `Record`, `Release` | the verdict and the last save; the caller's save; `release_resume_lease` on an error of `resume` |
| `Fail`, `Crash` | any step returns an error, or the process ends |

`Persist` is `persist_manifest`, used by every saving action: onto the revision last seen, or the driver
ends with an error. A step marked failed for its promotion may have its record current: the put took effect
and its answer was lost. `prepare_resume` carries such a step back to `materialized`, so each resumption promotes it
again, against the record it was planned on or its own. What happens to be reachable and is worth knowing: `execute` holds no resume lease,
so that a resume takes over a live first run, and the two may write records for one attempt between
which `record_for_run_attempt` refuses to choose (`OneCandidatePerDriver` says that it takes two
drivers); a crash in the back-off after an attempt that failed after its record was written makes every
resume fail with `NoRunningAttempt`, since the record found belongs to a closed attempt.

### 2.5 The serving modules

A request is one future with a place `pc`, the snapshot it has loaded (`seen`), the reservation it may
hold (`leads`), the leader it may wait for (`waitsOn`) and the outputs that `execute_plan` has returned to it
(`held`). A caller stands for one request, one
reservation id and one channel.

| Action | Code |
|---|---|
| `Arrive` | `shed_overloaded_requests` (`security/guards.rs`) and the load of the snapshot |
| `LookupResponse`, `CompleteSearch`, `DropResponse`, `ClearResponses` | `SearchResponseCache` and `SearchCacheReservation` (`state.rs`) |
| `LookupRevision`, `CompleteRevision`, `DropRevision`, `Evicting` | `SearchRevisionCaches` and `RevisionIdempotencyReservation` (`state.rs`), the loop of `revise` |
| `Wake` | a waiter's `changed`, or its error when the sender is gone |
| `StartTask`, `QueueTimeout`, `EndTask`, `FailCall` | `run_customer_compute` (`security/execution.rs`): the permit goes into the blocking task, which ends with or without its request |
| `LookupPlan`, `KeepsPlan`, `Given` | `execute_plan` (`routes/search_revisions.rs`): it returns the output that the cache of plans has under the plan and the version, whoever has computed it, or computes one and keeps it |
| `NextCall`, `AnswerJourney` | `revise_uncached` and `resume`: `After` says which call may follow which; the answer is an envelope made from an output that `execute_plan` has returned (`Envelopes`), or, when the parent cannot be rebound, from the parent alone |
| `LookupListing`, `KeepListing` | `list_properties`, which holds the lock of its one entry while it computes |
| `LookupRecommendation`, `KeepRecommendation` | `get_property_recommendations` |
| `Cancel` | the future is dropped wherever it waits, by a timeout or a client that hangs up |
| `Load`, `Clear...`, `StoreSnapshot`, `AbandonReload` | `reload_serving_bundle` (`routes/admin.rs`), statement by statement |

### 2.6 Abstractions

- In the catalog modules a compare-and-put is one atomic step. On an object store that is what
  `LakeObjectStore` implements; on a local directory `LakeLocalStore` does until a lock is stolen
  (section 5, item 3). A put that takes effect while its caller is given an error is, in
  `CatalogApply`, the successful step followed by `Fail`.
- An e_tag that repeats, because the same bytes were put again, is not modelled: the objects put by
  two callers of the modelled commands differ in owner, revision or fresh id.
- The local store's own put (a temporary file and a rename, in the `object_store` crate) is one
  step.
- A society's collection is one step whose result (new snapshot, or base entry kept) is chosen. The
  intermediate saves inside it, which renew the lease, are folded into the one at its end.
- Societies are collected in any order; the code has a fixed one (`collection_order`).
- The refresh of shared assets, which extends a request to every society of the roster, is
  not modelled; `NoLostUpdate` speaks of requests without it.
- `Load` reads the record and, when it is absent, the pointer in one step. Whatever happens between
  the two reads is seen by `Create`, which puts only onto an absent record and then reads again.
- `Release` reads and compare-and-puts in one step. Only a claim of the expired lease can come in
  between, and then the put changes nothing. A store error in it leaves the lease: that is `Crash`.
- An operation that can never be prepared (an empty catalog, a changed producer hash) stays open,
  as in the code.
- `apply` itself never runs the collector; only `undo` does.
- In `DagRun`, an asset has one record and one required dependency list per run: fan-in over
  partitions and optional dependencies are left out. A plan reads all current records in one step;
  each promotion is compared against what its own step was planned on. The run that is planned on
  pinned records never promotes, as in the catalog (`SourceEntityResolutionScope::Scoped`); one that
  promotes is planned on the current ones by the planner. `only_forced_assets` adds nothing to a run
  on pins, whose other steps are skipped at once.
- In the serving modules, what a request computes is a value that names who computed it, of what and
  from which snapshot. A synchronous section under a mutex is one step; every `await` ends one.
  Weights and limits are small numbers with the same order as in the configuration.

## 3. Properties and runs

`PROJECT.json` gives for each property a mutated form of a definition (a plausible bug) under which
TLC finds that very property violated; the mutated forms stand beside the originals, with a comment.

| Run | Instance | Checks | States |
|---|---|---|---|
| `race` | three operations on two societies (one changes both, one drops one), three invocations, one undo; crashes, expiring leases | `TypeOK`, `PointerFollowsHistory`, `NeverRebased`, `ServedIsRecorded`, `ReportedWasPublished`, `StaleWindow`, `NoLostUpdate`, `ImplementsPublication`, `RecordedProgressIsKept` | 1 508 000 |
| `retry` | two operations, two invocations, one undo, fair; failures and crashes | `OnlyACrashKeepsItsLease`, `OpenedIsClosed` | 21 900 |
| `cleanup` | collector on: three operations in sequence beside two undos with their collectors; collector off: two overlapping operations with failures and crashes, and undos | `CTypeOK`, `UnfinishedIsSpared`, `ServedIsSpared`, `WrittenBeforeNamed` | 226 000 |
| `lock` | a local directory, three processes, two rounds of `acquire`, fair; errors, crashes, slow owners | `LTypeOK`, `LockExcludes`, `ImplementsPutIf`, `CallIsAnswered` | 349 000 |
| `rounds` | an object store, four promotions, two rounds | `OTypeOK`, `LosesToOthersOnly`, `ImplementsPutIf` | 81 400 |
| `dag` | three assets; one run carried by two drivers, a second run that makes and may promote one of its assets; errors, crashes, takeovers, promotions that fail or whose answer is lost; retries where the first run is alone | `DTypeOK`, `LineageHolds`, `DependenciesFirst`, `CurrentIsRecorded`, `OneCandidatePerDriver`, `SucceededIsUpToDate`, `PromotedOnItsPlan`, `LostStaysLost`, `ResultsAreKept` | 843 000 |
| `serving` | up to three requests in six mixtures, one compute slot, two admitted searches, a reload; drops, panics, timeouts; fair | `STypeOK`, `CachesAreAccounted`, `AnsweredFromItsSnapshot`, `RevisionsRunOnce`, `ReservationsAreHeld`, `AdmittedIsNotRefused`, `NoPermitIsLost`, `RequestsEnd` | 139 000 |
| `recovery_window` | four invocations, one at a time | `StaleWasNeverPublished` (violated) | |
| `cleanup_served` | cleanup on | `ServedIsRetained` (violated) | |
| `dead_owner` | a local directory, three processes, no slow owner and no store error | `ConflictLeavesUnchanged` (violated) | |
| `dag_resume` | one run of two new assets, two drivers | `UnfinishedIsResumable` (violated) | |
| `dag_skips` | the same | `SkippedIsUnavailable` (violated) | |

What the less obvious ones say:

- `PointerFollowsHistory`: the pointer is a function of the sequence of served generations. A lost
  swap, a double undo that skips back, or an undo over a fresh publication would break it.
- `NeverRebased`: the published generation stands in the history right after its base, although
  hours of collection and any number of other invocations lie between.
- `ServedIsRecorded`: deposed owners keep saving and publishing; still the record of an operation
  names the generation that was served. Recovery depends on it.
- `NoLostUpdate`: the published roster differs from the one it replaced in the requested
  societies only.
- `RecordedProgressIsKept`: an action property; nothing recorded is taken back by a resuming or a
  deposed attempt.
- `StaleWindow`: an operation is closed as stale only if its base was replaced, and if it was
  itself the replacement, only when two more generations have followed: the precise reach of the
  recovery step.
- `UnfinishedIsSpared`, `ServedIsSpared`: what the collector's check does protect, with the window it
  leaves stated exactly.
- `WrittenBeforeNamed`: while nothing is deleted, no record and no pointer names a snapshot, roster or
  bundle that is not in the lake, at whatever step an invocation ends.
- `LockExcludes`: what the lock file does give. The files of dead processes are removed and created
  again by several waiters at once; two processes are inside only after the file of a *running*
  process was removed.
- `ImplementsPutIf`: each store as a refinement of `LakePutIf`. The instant of the abstract put is the
  write. On a local directory it holds of every step until a lock is stolen (`~stolen'`).
- `LineageHolds`: a step's record was computed from the records that the run itself has for the
  step's dependencies, also when it was adopted from a driver that died, or was made before the run
  was resumed.
- `CurrentIsRecorded`, `PromotedOnItsPlan`: promotion and its save are two writes to two objects; whoever
  dies between them, loses an answer or was deposed, no record becomes current that the run does not
  name, and runs do not overwrite one another.
- `LostStaysLost`: a step whose promotion failed is promoted again by every resumption of its run. Once the
  pointer has left both the record the step was planned on and the step's own, it comes back to neither, so
  that those retries never undo what another run has promoted. Whether a step is marked failed says nothing of
  that: its record may be current.
- `SucceededIsUpToDate`: the planner and the executor agree: what a promoting run has made and nobody
  has replaced is not due again, in particular the parents the executor writes are the ones the planner
  expects. Else each run makes everything anew. It speaks of runs that skipped nothing which is due: on
  an instance where an asset without input pins a stale one (`NoInput = {a, c}` of the first run), TLC
  refutes the form without that premise. Such a run skips the stale asset, and one that is resumed makes
  what depends on it from the old record (section 5, item 4).
- `AnsweredFromItsSnapshot`: an answer that was waited for, found in a cache or made from an output found
  there is one for the same request from the same snapshot, although requests with the old one go on filling
  the caches after a reload has cleared them, and although no reload clears the cache of plans: there only
  the version in its key (`execution_cache_key`) tells the snapshots apart. The idempotency cache of
  revisions is not cleared either and has no version in its key: what it returns belongs to the same
  revision and to the snapshot of the request that made it.
- `RevisionsRunOnce`: only the holder of a mutation's entry computes its revision, over drops of
  leaders and evictions of finished responses.
- `ReservationsAreHeld`: each reservation belongs to a live request and each waiter to such a
  reservation or to a channel that is closed. Drop, completion and the clear of a reload race here.
- `AdmittedIsNotRefused`: the answer `Overloaded` of the response cache is unreachable, because
  admission and the cache have the same limit and reservations do not outlive their requests.
- `NoPermitIsLost`, `RequestsEnd`: a slot comes back when its task ends, dropped request or not; no
  waiter, listing lock or full lane stops a request or a reload for good.
- `LosesToOthersOnly`: each conflict of a caller is a put of another that went through, so eight
  of them are eight puts by others; the loop never fails for nothing.

**Bounds.** The sets in the configurations bound everything: each operation is published at most
once, each undo swaps once and each attempt claims one lease, so revisions and the history are
finite without a counter bound. Three attempts on three operations give three competitors, or two
owners of one operation (one deposed) and a competitor; an undo moves the pointer beside them.
`race` leaves out orderly failures, which `retry` and `cleanup` have. Two generations are needed for
`previous`, three for an undo that races a publication over it, four attempts for the recovery window.
With the collector on, `cleanup` runs one `apply` at a time, since racing owners are the matter of the
other runs, but any number of collectors beside it. Attempts are symmetric everywhere but in `retry`;
operations and undos where all requests are alike; the two drivers of one run in the `dag` runs. The
runs that check liveness (`retry`, `lock`, `serving`) use no symmetry. Deadlock is not checked: when all attempts and undos are used up the system stops.

In the store runs `MaxTries = 2` stands for 500 rounds and `MaxRounds = 2` for eight: two rounds
are a removal followed by a lost race, and a conflict followed by a second read. Three processes are one that dies
and two that find its file; four promotions are two conflicts for one caller and a bystander.

In `dag`, two drivers are an owner and one that takes over; a driver ends once and does not return.
Three assets are a chain of two and one without input; one of the chain existed before. A driver makes
two attempts at an execution and two at a promotion, where the shipped policy has three, but only where the
driver of the second run has died before it saved anything (`RetriedAlone`): beside the second run
it is the driver which resumes the first that tries again. Attempts and revisions are finite because drivers are. In `serving`, one compute slot makes every request wait for
another, a limit of two with three callers makes admission refuse, and caches hold one or two entries
against three. The mixtures are: three searches of which two are alike; three different searches; three revisions
of one parent, one with another change; two listings with a recommendation; two mutations with the same change;
and a revision and a resume of its parent. In the last two the requests find in the cache of plans what the
other has left there, before and after a reload.

**Fairness** (`FairSpec` of `CatalogApply`, run `retry`). `Step(a)` is weakly fair: a started
process goes on unless it fails or crashes, and both stay possible at any time. `LeaseExpires` is weakly fair: an hour
passes. `Start`, `Load` and `Claim` are strongly fair per operation: the operator repeats the
request, and the errors which can end an invocation before it holds the lease are transient.
Nothing is assumed about failures after the claim: `OpenedIsClosed` ends in "closed, or every
attempt used up", so each crash uses up one attempt.
`FairSpec` of `LakeLocalStore` (run `lock`) assumes `Step(w)` weakly fair, a running process goes
on, and nothing of clocks, errors or owners.

`Spec` of `SearchServing` (run `serving`) assumes for each caller that its own next step, or the end of
its task, is taken in the end (tokio polls a woken future, and every task is finite), and the same of a
reload that has loaded its bundle. Arrivals, drops and reloads are not fair. The mutex of the listing and
the semaphore of the lane are first come, first served in tokio; weak fairness is less than that and is
enough here because a caller asks once.

## 4. Proofs

All theorems hold for every set of operations, attempts, undos and societies and every request
table; the assumptions are `NoneAssumption` (an absent value is none of the ids or rosters, nor is the mark of a kept entry) and
`RequestAssumption` (a request table whose entries do not both change and remove a society, which
`validate_request` refuses). The theorems about the store hold for every set of callers, every
condition and every number of rounds; `LocalAssumption` and `ObjectAssumption` say that the absent
object is none of the callers' and that rounds are counted in natural numbers. `DagAssumption` asks
for a topological order of the assets' dependencies, each asset once in it, and at least one attempt; the
registry checks the first (`assets/registry.rs:308`). `ServingAssumption` types the traffic and the weights and asks
that the cache's limit of reservations is the limit of admission, both `requests.search_concurrency` in
the code; that every capacity and every limit in bytes is at least one, which `.max(1)` in `state.rs:313-327` and
`561-566` sees to; that all requests for the listing ask for the same, as `list_properties` takes no
parameters; and that the callers are finitely many.

| Theorem | Statement |
|---|---|
| `Invariance` | `Spec => []IInv` |
| `TypesHold` | `Spec => []TypeOK` |
| `PointerHolds` | `Spec => []PointerFollowsHistory` |
| `NeverRebasedHolds` | `Spec => []NeverRebased` |
| `ServedIsRecordedHolds` | `Spec => []ServedIsRecorded` |
| `ReportsAreTrue` | `Spec => []ReportedWasPublished` |
| `StaleWindowHolds` | `Spec => []StaleWindow` |
| `Implements` | `Spec => ImplementsPublication` |
| `NoUpdateIsLost` | `Spec => []NoLostUpdate` |
| `LeasesAreCleared` | `Spec => []OnlyACrashKeepsItsLease` |
| `ProgressIsKept` | `Spec => RecordedProgressIsKept` |
| `CleanupIsApply` | `CSpec => Spec` (`CatalogCleanup`): all of the above holds with the collector too |
| `CleanupTypesHold` | `CSpec => []CTypeOK` |
| `ServedIsSparedHolds`, `UnfinishedIsSparedHolds` | `CSpec => []ServedIsSpared`, `[]UnfinishedIsSpared` |
| `WrittenBeforeNamedHolds` | `CSpec => []WrittenBeforeNamed` |
| `LockInvariance`, `LockTypesHold`, `LockExcludesHolds` | `Spec => []LInv`, `[]LTypeOK`, `[]LockExcludes` (local directory) |
| `LocalImplements` | `Spec => ImplementsPutIf` (until a lock is stolen) |
| `ObjectInvariance`, `ObjectTypesHold`, `LosesHolds` | `Spec => []OInv`, `[]OTypeOK`, `[]LosesToOthersOnly` (object store) |
| `ObjectImplements` | `Spec => ImplementsPutIf` |
| `DagTypesHold` | `Spec => []DTypeOK` (asset DAG) |
| `ResultsAreKeptHolds`, `PromotedOnItsPlanHolds` | `Spec => ResultsAreKept`, `PromotedOnItsPlan` |
| `CurrentIsRecordedHolds` | `Spec => []CurrentIsRecorded` |
| `RacingRunsInvariance` | `Spec => []RInv` |
| `LostStaysLostHolds`, `OneCandidatePerDriverHolds` | `Spec => LostStaysLost`, `Spec => []OneCandidatePerDriver` |
| `SucceededIsUpToDateHolds` | `Spec => []SucceededIsUpToDate` |
| `LineageHoldsAlways`, `DependenciesFirstHolds` | `Spec => []LineageHolds`, `[]DependenciesFirst` |
| `NoPermitIsLostHolds` | `Spec => []NoPermitIsLost` (serving) |
| `RevisionsRunOnceHolds`, `ReservationsAreHeldHolds` | `Spec => []RevisionsRunOnce`, `[]ReservationsAreHeld` |
| `AdmittedIsNotRefusedHolds` | `Spec => []AdmittedIsNotRefused` |
| `ServingTypesHold`, `CachesAreAccountedHolds` | `Spec => []STypeOK`, `[]CachesAreAccounted` |
| `AnsweredFromItsSnapshotHolds` | `Spec => []AnsweredFromItsSnapshot` |
| `AnswersAreKeptHolds` | `Spec => []AnswersAreKept` |

None of the safety properties is inductive by itself. For the catalog, `IInv` adds what each process relies on:

- `PointersArePast`: every pointer someone remembers (a record's base, an attempt's copy of it, an
  undo's `seen`) was once the catalog's, and its revision tells when. So a successful compare of
  the whole pointer means that nothing was served in between: there is no ABA.
- `Copies` (`CopyAgrees`): an attempt's copy has a revision no later than the record's, and at the
  same revision it is the record. So a successful `save_operation` writes onto exactly what the
  attempt knows, and a deposed attempt never succeeds. Even then its generation, if it has one, is
  the record's.
- `Generations`: a generation in a record was prepared by an attempt of that operation that has
  moved on to publishing, so the fresh id cannot be used for anything else.
- `Steps`: what an attempt has established when it stands before a step; for `closeStale`,
  how far the pointer must have moved when the copy is still current.
- `OnBase` and `ServedRecorded`: `NeverRebased` and `ServedIsRecorded` with their indexes in range.

The proof that `IInv` is inductive goes by kinds of steps. `AttemptMove`, `RecordMove` and
`PointerMove` say, once each, what a step that moves only an attempt, writes one record or swaps
the pointer must show of itself; the action lemmas (`LoadKeeps`, `ClaimKeeps`, `RecoverKeeps`,
`SaveKeeps`, `PublishKeeps`, `UndoSwapKeeps`, ...) reduce to them.

The refinement maps `served` to the operations of the generations in `history`, `base` to the base
revisions of the records and `outcome` to theirs. `Create` maps to `Open`, a successful
`PublishGeneration` to `Publish`, a successful `UndoSwap` to `Undo`, successful closing saves to
`ClosePublished` and `CloseStale`, and every other step to none. The heart is `PublishMaps`: when
the compare succeeds the base revision is the length of the history, so by `OnBase` the operation
was not served before and by `StaleWindow` and `ReportedWasPublished` it is not closed yet.

What the records and rosters contain is `Data`, and `DInv == IInv /\ Data` is inductive. `RecordData`: a
record's roster is that of its base, its work on a society belongs to an attempt of its own that claimed
it, and only on societies the request changes; its candidate is what these make (`Candidate`), and its
generation's roster is the candidate. `CopyData` says the same of a copy, and that a copy's candidate is the
recorded one. With `NeverRebased` that is `NoLostUpdate`. `OnlyACrashKeepsItsLease` needs that a
lease's owner is still at work, about to release it, or crashed. `ProgressIsKept` is an action property:
of each save, that the copy it writes has all the record has, at equal revisions, and only adds to it.

The cleanup composes each of the control plane's actions with what it reads or writes of the objects,
so every step of it is one of `CatalogApply` or leaves its variables alone (`CleanupIsApply`), and `DInv` is
there for the asking. `CInv` adds what the collector relies on. `Named`: a record's work, its base's roster
and its generation were written; `Authored`: only by attempts that claimed. `Collector`: an undo at work
in the lake retains the generation it restored and what it replaced, all the operations it checked are closed, and what it is
about to delete is in neither of those. `NothingMissing` and `OwnSpared` say whose fault a missing
object can be: only that of a collection after an undo that went through, and, for an unfinished
operation, only of one that listed the operations before that one was opened.

For the local store, `LInv` adds `OwnerFacts` (until a lock is stolen, the file is that of whoever is
inside, and the object still satisfies the condition of whoever is about to write) and `AnswerFacts`
(an answer is open until the last step that can change it). For the object store, `OInv` adds `ReadFacts`: as long as the
version a caller holds is the current one, the object still satisfies its condition, and the
conflicts it met are no more than the versions it has seen go by. Both mappings send the write to
`Replace`, a negative comparison to `Refuse`, every error to `Err` and the rest to no step.

For the DAG, `DTypeOK` bounds the place of a driver in its loop and its attempts at a step, which is not
inductive by itself: `TypeInv` adds that a driver at work on an asset stands inside the order, and that
whoever starts or retries an attempt has one left. The theorem holds for every set of runs, drivers and
assets, every `Dependencies` with a topological `Order`, and every retry limit (`DagAssumption`).

The results of a run (`KInv`) are an argument about copies. A driver's copy is no newer than the stored
manifest, at the same revision it has every result the manifest has, and it is made on the same plan. So
a save that goes through, which it does only onto the revision of the copy, loses nothing. A promotion
looks at no manifest, and is right because of `CopyHolds`: outside the one save that adopts a recovered
record, whatever record a copy names is the one the stored manifest names. `KeptOn...` show it action by
action.

Racing runs (`RInv`) are an argument about time, of which the records have none. `PointersMoveOn`: a record
that was current and is not any more was made by a run planned on another record than the one that is
current now (`WasCurrent`), and every run is planned on a record that is or has been current. It says nothing of
failed steps, whose records may be current. A promotion replaces the record its run was planned on
(`PromotedOnItsPlan`) by one that no other run was planned on or has made, so a pointer does not
come back to a step it has left, which is `LostStaysLost`. `AttemptsAreCounted`: a copy that can be saved counts the attempts of the
stored manifest, and of two records of one driver only the last is of the last attempt; that gives
`OneCandidatePerDriver`. `RecordsAreDistinct`: attempts write different records, each from a record of every
dependency.

`SucceededIsUpToDate` takes `RInv` and `LineageInv` together, and is the one about the plan. `Due` is recursive over the dependencies; `DueKnown` shows that the recursion
has a solution, by the first place of `Order` up to which it would have none, and so that what is due
has a reason (`HasReason`): it was made from records that are not
current, or a dependency is due. Of the assets that refute the property it takes the first in `Order`:
by lineage it was made from what is current, so one of its dependencies is due, which by the order
comes earlier and so did not succeed; and the premise says that it was not skipped either.

Lineage (`LineageInv`) is an argument about one manifest at a time: if a step is at work or has a record,
its dependencies are `succeeded` or `skipped`, and what is final is never changed (`WithSound` for the
loop, `PreparedSound` for a resume), so `Parent` of a dependency is what it was when the record was made.
`CopySound` adds what the loop knows at its position: everything before it is settled, which with the
topological order makes an unblocked step's dependencies final.

For serving, `LaneInv` counts the slots and the tasks. `SInv` says what each request is at each of its
steps (`Role`) and that reservations, waiters and the queue of eviction agree with it (`Held`). It needs
`CompletedOnce`: a mutation in the queue of eviction has its response and is there once, so that evicting
it never removes an entry that is in flight, which a waiter may hold. `AdmittedIsNotRefused` is a count:
the leaders of the reserved keys are an injection of them into the live searches (`AdmissionHolds`)
other than the one that looks up, so there is one fewer than admission lets in.

What the caches hold (`Caches`) and what is answered from them (`Answered`) complete `AInv`. A cache is
`Kept` when no key is in it twice, its count of bytes is the sum of its entries' weights and it is within its
limits; `Touched`, `Inserted` and the eviction from the oldest end (`MadeRoom`) are shown to keep that, from
lemmas about removing an element of a sequence and about sums (`Total`). A sum is a recursive function, so
each fact about it is proved by its least counterexample instead of by induction. `RevisionsCounted` is the same
for the queue of eviction of revisions. That every answer is one for the request that
finds it is `AnswersAreKept`: an entry is filed under what its content was computed of and from
(`ResponseEntries`, `PlanEntries`, `Recommendations`), what `execute_plan` has returned to a request is of one of its
own plans and from its own snapshot, whoever computed it (`HeldAreOwn`), a reserved mutation keeps the change of
its leader, and a waiter asks what its leader asks (`AnswersReach`), although in between the entries are
evicted, cleared and replaced. That the snapshot of the maker of a kept response does not change any more
(`Revised`) is why a response can outlive the request that made it (`NobodyGoesBack`).

Before each proof TLC checked the strengthening as an invariant of an instance: `Data` with two attempts of
each operation of `race` (65 700 states), `CInv` on `cleanup` (226 000, and 101 000 of the composition with racing
attempts), the parts of `RInv` on `dag`, and `AnswersAreKept` on `serving`.

Only model-checked: liveness (`OpenedIsClosed`, `CallIsAnswered`, `RequestsEnd`), which is out of the prover's
reach, as are `ENABLED` and fairness; so it is not proved, for instance, that the eviction loop ends. All
the other properties of the passing runs are theorems. Induction over data is out of reach too; where a
recursive function matters (`Due`, `Total`) what is needed of it is proved by its least counterexample,
which `WFMin` of the library gives. `Unavailable`, the other recursion of the DAG, is used only as a set of
assets.

## 5. Where the code and its documentation disagree

1. **Recovery window** (`recovery_window`, `apply.rs:344`). An operation whose process died between
   the swap and the closing save, and which is retried after two more generations were served, is
   closed as `StaleBaseRevision` although it was published: recovery looks at the pointer's current
   and previous generation only. The comment reads "Recover a crash between pointer CAS and marking
   the operation complete." `StaleWindow` states, and the proof shows, that nothing less leads
   there.
2. **Work from an old pointer** (`cleanup_served`, `catalog.rs:898`). The collector retains the
   generations of the pointer its undo wrote; a generation published while it runs loses its
   bundle, against `src/docs/serving_bundle_release.md:65`. Only with cleanup enabled.
3. **A dead owner's lock** (`dead_owner`, `lake/store.rs:475`). After a process died with the lock of
   a local directory, two waiters may both find its file old. The first removes it and creates its own;
   the second then removes that one by the same path and creates its own. Both are inside, both
   compare and both put: one pointer swap overwrites the other, against
   `src/docs/serving_bundle_release.md:48`, "CAS conflict leaves `dev` unchanged".
   `LockExcludesHolds` shows that nothing but such a removal, or an owner slower than thirty seconds,
   leads there.
4. **A resumed run skips what it could make** (`dag_skips`, `executor.rs:2645`). What is unavailable is
   decided from the records of the plan, and a promotion does not enter the new record there. A driver
   that resumes after the first of two assets succeeded, neither of which existed before, skips the
   second: "required dependency {dependency} was unavailable; skipped" (`executor.rs:2661`), although the
   run itself has made it.
5. **A run that cannot be resumed** (`dag_resume`, `run_manifest.rs:502`). A driver that dies after the
   first save leaves a manifest that says `planned`, and one that dies between the last save and its
   caller's leaves `succeeded`; `ensure_resumable` refuses both, so the operation that names the run
   cannot go on, against "use its original code to resume" (`apply.rs:355`).

Two more things the models show, which no document contradicts. With cleanup enabled the collector looks
for unfinished operations once (`catalog.rs:904`), and an operation opened after that look can lose the
snapshot it has recorded; `UnfinishedIsSpared` states what is left. And two overlapping reloads may
install the older bundle last (`routes/admin.rs:71`), while a request with the old snapshot may overwrite
the listing of the new one; both cost work and never a wrong answer.

The eight rounds of the object store are a limit and not a disagreement: `LosesToOthersOnly` says when
"conditional update contention" is answered, and the test of 64 concurrent promotions
(`src/backend/tests/lake_store_config_contract.rs:117`), which expects none to fail, relies on its
in-memory store never to make one of them lose eight times.

## 6. Not modelled, and the plan

Not modelled for lack of something a small state space could say: search and ranking over text,
scoring in floating point, the rendering of contracts, the frontend, the collectors of outside
sources. Most of the backend's lines are of this kind: the parsers and decoders of single sources
(`assets/`), text (`search/`) and contracts (`routes/`), which keep no state and race with nothing.

Left out of the modelled parts:

- of the catalog: the planning of collectors inside a society, shared assets, the failure ledger;
- of the DAG: fan-in and optional dependencies, the replay of a step (`replay_step` keeps the old
  current id of a promoted step), the put of the pointer to the latest run, which is unconditional
  and which the executor never reads;
- of the store: the verified local copies of artifacts and the pinned store;
- of serving: the queue of the search log, which drops and counts what does not fit, the rate limiters
  by address, the gauge of media streams, guarded and empty queries, request validation, tokens.

What is planned:

1. Components that keep state and are left out: the queue of the search log and the rate limiters; the
   verified local copies of artifacts (`lake/`).
2. Inside the catalog: the plan of one society's collectors with its failure ledger, and shared assets.
3. Inside the DAG: fan-in and optional dependencies, then `RInv` and `LineageInv` for them.
4. Pure algorithms against reference definitions: `collection_order`, `input_lineage_is_compatible`,
   `replace_society_contributions`, `dag_config/resolution.rs`, compaction.
