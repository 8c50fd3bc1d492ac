---------------------------- MODULE CatalogApply ----------------------------
(***************************************************************************)
(* The catalog control plane: concurrent invocations of                    *)
(* `openestates-catalog apply <request>` and `openestates-catalog undo`    *)
(* over one lake (src/backend/src/catalog.rs, catalog/apply.rs).           *)
(*                                                                         *)
(* Shared state is two kinds of JSON object, each changed only by the      *)
(* lake's compare-and-put (put_json_if): the catalog pointer               *)
(* manifests/catalog/dev.json and one operation record per operation id,   *)
(* which carries a revision number and a one-hour lease.  A third kind,    *)
(* the roster of a generation, is written once under a fresh id.           *)
(*                                                                         *)
(* One element of Attempts is one invocation of apply that wins a lease.   *)
(* Its fresh ids - the lease owner, the snapshots it writes, the roster    *)
(* and bundle of the generation it prepares - are all named by the attempt *)
(* itself, so no two attempts share one.  An invocation that ends before   *)
(* it owns a lease has left none of its ids behind: it returns to "idle",  *)
(* and the same element stands for the next such invocation.               *)
(***************************************************************************)
EXTENDS Naturals, Sequences

CONSTANTS
  Operations,   \* operation ids
  Attempts,     \* invocations of apply
  Undos,        \* invocations of undo
  Societies,    \* canonical society ids
  Request,      \* the request named by each operation id
  None,         \* an absent JSON value
  Kept          \* a society that ends the collection with its base entry

ASSUME NoneAssumption ==
  /\ None \notin Attempts /\ Kept \notin Attempts /\ None # Kept
  /\ None \notin [Societies -> Attempts \cup {None}]

\* validate_request refuses a society that is both changed and removed.
ASSUME RequestAssumption ==
  /\ Request \in [Operations ->
                    [upserts : SUBSET Societies, removals : SUBSET Societies]]
  /\ \A op \in Operations :
       Request[op].upserts \cap Request[op].removals = {}

VARIABLES
  pointer,    \* manifests/catalog/dev.json
  record,     \* manifests/catalog/operations/<id>.json
  expired,    \* the recorded lease_expires_at has passed
  rosters,    \* manifests/catalog/rosters/<id>.json, by the attempt's id
  pc,         \* the next step of each attempt
  target,     \* the operation an attempt was invoked for
  local,      \* the attempt's own copy of the operation record
  upc,        \* the next step of each undo
  seen,       \* the pointer an undo has read
  history     \* ghost: the generations served so far, in order

storeVars == <<pointer, record, expired, rosters>>
attemptVars == <<pc, target, local>>
undoVars == <<upc, seen>>
vars == <<storeVars, attemptVars, undoVars, history>>

-----------------------------------------------------------------------------
Roster == [Societies -> Attempts \cup {None}]
EmptyRoster == [s \in Societies |-> None]

Pointer == [revision : Nat,
            current  : Attempts \cup {None},
            previous : Attempts \cup {None}]
NoPointer == [revision |-> 0, current |-> None, previous |-> None]

Outcomes == {"unopened", "open", "published", "stale"}

Record == [revision   : Nat,
           lease      : Attempts \cup {None},
           base       : Pointer,
           roster     : Roster,
           work       : [Societies -> Attempts \cup {None, Kept}],
           candidate  : Roster \cup {None},
           generation : Attempts \cup {None},
           outcome    : Outcomes]

\* Stands for an operation id that names no object yet.
Unopened == [revision   |-> 0,
             lease      |-> None,
             base       |-> NoPointer,
             roster     |-> EmptyRoster,
             work       |-> [s \in Societies |-> None],
             candidate  |-> None,
             generation |-> None,
             outcome    |-> "unopened"]

RosterAt(p) == IF p.current = None THEN EmptyRoster ELSE rosters[p.current]

NewRecord(p) == [Unopened EXCEPT !.base = p,
                                 !.roster = RosterAt(p),
                                 !.outcome = "open"]

ValidRequest(op, roster) ==
  \A s \in Request[op].removals : roster[s] # None

Closed(op) == record[op].outcome \in {"published", "stale"}

\* Mutated form of Candidate: a kept society is not put back.
CandidateOfWork(op, r) ==
  [s \in Societies |->
     IF s \in Request[op].removals THEN None
     ELSE IF r.work[s] # None THEN r.work[s]
     ELSE r.roster[s]]

\* The roster a request asks for, from the base roster and what collection
\* made of each changed society.
Candidate(op, r) ==
  [s \in Societies |->
     IF s \in Request[op].removals THEN None
     ELSE IF r.work[s] \in Attempts THEN r.work[s]
     ELSE r.roster[s]]

Collected(op, r) == \A s \in Request[op].upserts : r.work[s] # None

PcStates == {"idle", "load", "create", "claim", "recover", "collect",
             "prepare", "save", "publish", "closePublished", "closeStale",
             "release", "done", "crashed"}

\* The steps an attempt takes after its claim and before it lets go.
Working == {"recover", "collect", "prepare", "save", "publish",
            "closePublished", "closeStale"}

Before(a, step) == pc[a] = step
GoTo(a, step) == pc' = [pc EXCEPT ![a] = step]

\* The process ends before it owned a lease, or after.
Leave(a) ==
  /\ pc' = [pc EXCEPT ![a] = "idle"]
  /\ target' = [target EXCEPT ![a] = None]
  /\ local' = [local EXCEPT ![a] = Unopened]
End(a, step) ==
  /\ pc' = [pc EXCEPT ![a] = step]
  /\ local' = [local EXCEPT ![a] = Unopened]
  /\ UNCHANGED target

Init ==
  /\ pointer = NoPointer
  /\ record = [op \in Operations |-> Unopened]
  /\ expired = [op \in Operations |-> FALSE]
  /\ rosters = [a \in Attempts |-> EmptyRoster]
  /\ pc = [a \in Attempts |-> "idle"]
  /\ target = [a \in Attempts |-> None]
  /\ local = [a \in Attempts |-> Unopened]
  /\ upc = [u \in Undos |-> "idle"]
  /\ seen = [u \in Undos |-> NoPointer]
  /\ history = << >>

-----------------------------------------------------------------------------
(* Opening an operation and claiming its lease. *)

\* apply_with_provider: a fresh owner id, then apply_operation.
Start(a, op) ==
  /\ Before(a, "idle")
  /\ target' = [target EXCEPT ![a] = op]
  /\ GoTo(a, "load")
  /\ UNCHANGED <<storeVars, local, undoVars, history>>

\* Read the record.  A closed operation answers with its stored report or
\* its terminal failure and nothing else happens.
Load(a) ==
  LET op == target[a] IN
  /\ Before(a, "load")
  /\ \/ /\ record[op].outcome = "unopened"
        /\ ValidRequest(op, RosterAt(pointer))
        /\ local' = [local EXCEPT ![a] = NewRecord(pointer)]
        /\ GoTo(a, "create")
        /\ UNCHANGED target
     \/ /\ record[op].outcome = "open"
        /\ local' = [local EXCEPT ![a] = record[op]]
        /\ GoTo(a, "claim")
        /\ UNCHANGED target
     \/ /\ \/ Closed(op)
           \/ /\ record[op].outcome = "unopened"
              /\ ~ValidRequest(op, RosterAt(pointer))
        /\ Leave(a)
  /\ UNCHANGED <<storeVars, undoVars, history>>

\* put_json_if(current.is_none()), then the record is read back, whoever
\* wrote it.
Create(a) ==
  LET op == target[a] IN
  /\ Before(a, "create")
  /\ IF record[op].outcome = "unopened"
       THEN record' = [record EXCEPT ![op] = local[a]]
       ELSE UNCHANGED record
  /\ GoTo(a, "load")
  /\ UNCHANGED <<pointer, expired, rosters, target, local, undoVars, history>>

\* Mutated form of Claim: an expired lease still counts as held.
ClaimUnleasedOnly(a) ==
  LET op == target[a]
      claimed == [local[a] EXCEPT !.lease = a, !.revision = @ + 1]
  IN
  /\ Before(a, "claim")
  /\ IF record[op].revision = local[a].revision /\ record[op].lease = None
       THEN /\ record' = [record EXCEPT ![op] = claimed]
            /\ local' = [local EXCEPT ![a] = claimed]
            /\ GoTo(a, "recover")
            /\ UNCHANGED target
       ELSE Leave(a) /\ UNCHANGED record
  /\ UNCHANGED <<pointer, expired, rosters, undoVars, history>>

\* Refused while another owner's lease runs; otherwise the claim succeeds if
\* the record is still the one that was read.
Claim(a) ==
  LET op == target[a]
      claimed == [local[a] EXCEPT !.lease = a, !.revision = @ + 1]
  IN
  /\ Before(a, "claim")
  /\ IF /\ record[op].revision = local[a].revision
        /\ record[op].lease = None \/ expired[op]
       THEN /\ record' = [record EXCEPT ![op] = claimed]
            /\ expired' = [expired EXCEPT ![op] = FALSE]
            /\ local' = [local EXCEPT ![a] = claimed]
            /\ GoTo(a, "recover")
            /\ UNCHANGED target
       ELSE /\ Leave(a)
            /\ UNCHANGED <<record, expired>>
  /\ UNCHANGED <<pointer, rosters, undoVars, history>>

\* The hour passes: at any time, also while the owner is still at work.
LeaseExpires(op) ==
  /\ record[op].lease # None
  /\ ~expired[op]
  /\ expired' = [expired EXCEPT ![op] = TRUE]
  /\ UNCHANGED <<pointer, record, rosters, attemptVars, undoVars, history>>

-----------------------------------------------------------------------------
(* The body of apply_operation, run by the owner of the lease. *)

\* Mutated form of Save: put_json instead of put_json_if.
SaveUnchecked(a, new, step) ==
  LET saved == [new EXCEPT !.revision = local[a].revision + 1] IN
  /\ record' = [record EXCEPT ![target[a]] = saved]
  /\ expired' = [expired EXCEPT ![target[a]] = FALSE]
  /\ local' = [local EXCEPT ![a] = saved]
  /\ GoTo(a, step)

\* save_operation: the write goes through, and renews the lease, only onto
\* the revision and the owner the attempt last saw.  Otherwise it fails with
\* "operation lease/revision changed" and the attempt ends.
Save(a, new, step) ==
  LET op == target[a]
      saved == [new EXCEPT !.revision = local[a].revision + 1]
  IN
  IF /\ record[op].revision = local[a].revision
     /\ record[op].lease = local[a].lease
    THEN /\ record' = [record EXCEPT ![op] = saved]
         /\ expired' = [expired EXCEPT ![op] = FALSE]
         /\ local' = [local EXCEPT ![a] = saved]
         /\ GoTo(a, step)
    ELSE /\ GoTo(a, "release")
         /\ UNCHANGED <<record, expired, local>>

\* Mutated form of Recover: looks for the generation in p.current only.
RecoverCurrentOnly(a) ==
  LET mine == local[a] IN
  /\ Before(a, "recover")
  /\ GoTo(a, IF mine.generation # None /\ mine.generation = pointer.current
               THEN "closePublished"
             ELSE IF pointer # mine.base THEN "closeStale"
             ELSE IF mine.candidate = None THEN "collect"
             ELSE IF mine.generation = None THEN "prepare"
             ELSE "publish")
  /\ UNCHANGED <<storeVars, target, local, undoVars, history>>

\* After the claim: was the recorded generation published already, has the
\* base been replaced, and which step does the record resume at?
Recover(a) ==
  LET mine == local[a]
      published == /\ mine.generation # None
                   /\ mine.generation \in {pointer.current, pointer.previous}
  IN
  /\ Before(a, "recover")
  /\ GoTo(a, IF published THEN "closePublished"
             ELSE IF pointer # mine.base THEN "closeStale"
             ELSE IF mine.candidate = None THEN "collect"
             ELSE IF mine.generation = None THEN "prepare"
             ELSE "publish")
  /\ UNCHANGED <<storeVars, target, local, undoVars, history>>

\* One changed society: a new snapshot, or its base entry kept because its
\* evidence is unchanged or could not be collected; then save_operation.
\* Societies whose work is recorded are skipped.  What runs inside, a run of
\* the asset DAG, is the subject of DagRun; one that cannot be resumed is a
\* collection that fails each time.
CollectSociety(a, s, entry) ==
  /\ Before(a, "collect")
  /\ s \in Request[target[a]].upserts
  /\ local[a].work[s] = None
  /\ entry \in {a, Kept}
  /\ Save(a, [local[a] EXCEPT !.work[s] = entry], "collect")
  /\ UNCHANGED <<pointer, rosters, target, undoVars, history>>

SaveCandidate(a) ==
  /\ Before(a, "collect")
  /\ Collected(target[a], local[a])
  /\ Save(a, [local[a] EXCEPT !.candidate = Candidate(target[a], local[a])],
          "prepare")
  /\ UNCHANGED <<pointer, rosters, target, undoVars, history>>

\* prepare_generation: write the roster under a fresh id and build its
\* bundle; an empty catalog is refused.
PrepareGeneration(a) ==
  /\ Before(a, "prepare")
  /\ rosters' = [rosters EXCEPT ![a] = local[a].candidate]
  /\ IF local[a].candidate = EmptyRoster
       THEN GoTo(a, "release")
       ELSE GoTo(a, "save")
  /\ UNCHANGED <<pointer, record, expired, target, local, undoVars, history>>

SaveGeneration(a) ==
  /\ Before(a, "save")
  /\ Save(a, [local[a] EXCEPT !.generation = a], "publish")
  /\ UNCHANGED <<pointer, rosters, target, undoVars, history>>

\* Mutated forms of PublishGeneration: the generation served is compared but
\* not the revision; the pointer is overwritten; a lost race goes unnoticed.
PublishOnSameGeneration(a) ==
  LET mine == local[a] IN
  /\ Before(a, "publish")
  /\ IF pointer.current = mine.base.current
       THEN /\ pointer' = [revision |-> mine.base.revision + 1,
                           current  |-> mine.generation,
                           previous |-> mine.base.current]
            /\ history' = Append(history, mine.generation)
            /\ GoTo(a, "closePublished")
       ELSE GoTo(a, "release") /\ UNCHANGED <<pointer, history>>
  /\ UNCHANGED <<record, expired, rosters, target, local, undoVars>>

PublishOverwrites(a) ==
  /\ Before(a, "publish")
  /\ pointer' = [revision |-> pointer.revision + 1,
                 current  |-> local[a].generation,
                 previous |-> pointer.current]
  /\ history' = Append(history, local[a].generation)
  /\ GoTo(a, "closePublished")
  /\ UNCHANGED <<record, expired, rosters, target, local, undoVars>>

PublishIgnoresConflict(a) ==
  LET mine == local[a] IN
  /\ Before(a, "publish")
  /\ IF pointer = mine.base
       THEN /\ pointer' = [revision |-> mine.base.revision + 1,
                           current  |-> mine.generation,
                           previous |-> mine.base.current]
            /\ history' = Append(history, mine.generation)
       ELSE UNCHANGED <<pointer, history>>
  /\ GoTo(a, "closePublished")
  /\ UNCHANGED <<record, expired, rosters, target, local, undoVars>>

\* publish_generation: compare-and-put of the pointer against the base.  It
\* looks at the pointer only, not at the lease.
PublishGeneration(a) ==
  LET mine == local[a] IN
  /\ Before(a, "publish")
  /\ IF pointer = mine.base
       THEN /\ pointer' = [revision |-> mine.base.revision + 1,
                           current  |-> mine.generation,
                           previous |-> mine.base.current]
            /\ history' = Append(history, mine.generation)
            /\ GoTo(a, "closePublished")
       ELSE /\ GoTo(a, "release")
            /\ UNCHANGED <<pointer, history>>
  /\ UNCHANGED <<record, expired, rosters, target, local, undoVars>>

ClosePublished(a) ==
  /\ Before(a, "closePublished")
  /\ Save(a, [local[a] EXCEPT !.outcome = "published"], "release")
  /\ UNCHANGED <<pointer, rosters, target, undoVars, history>>

CloseStale(a) ==
  /\ Before(a, "closeStale")
  /\ Save(a, [local[a] EXCEPT !.outcome = "stale"], "release")
  /\ UNCHANGED <<pointer, rosters, target, undoVars, history>>

\* The end of apply_with_provider: the lease is cleared if it is still the
\* attempt's.  Only a claim of the expired lease can come between its read
\* and its compare-and-put, which then changes nothing either.
Release(a) ==
  LET op == target[a] IN
  /\ Before(a, "release")
  /\ IF record[op].lease = a
       THEN record' = [record EXCEPT ![op].lease = None, ![op].revision = @ + 1]
       ELSE UNCHANGED record
  /\ End(a, "done")
  /\ UNCHANGED <<pointer, expired, rosters, undoVars, history>>

\* Mutated form of Fail: an error returns without clearing the lease.
FailKeepingLease(a) ==
  /\ \/ pc[a] \in {"load", "create", "claim"} /\ Leave(a)
     \/ pc[a] \in Working /\ End(a, "done")
  /\ UNCHANGED <<storeVars, undoVars, history>>

\* Any step may fail - a corrupt snapshot, a failed validation, a changed
\* producer hash, a store error - and returns early with the error.
Fail(a) ==
  /\ \/ pc[a] \in {"load", "create", "claim"} /\ Leave(a)
     \/ pc[a] \in Working /\ GoTo(a, "release") /\ UNCHANGED <<target, local>>
  /\ UNCHANGED <<storeVars, undoVars, history>>

\* The process dies, or cannot reach the lake to clear its lease, which stays
\* behind.
Crash(a) ==
  /\ pc[a] \in Working \cup {"release"}
  /\ End(a, "crashed")
  /\ UNCHANGED <<storeVars, undoVars, history>>

-----------------------------------------------------------------------------
(* undo: read the pointer, validate the previous generation, swap. *)

UndoRead(u) ==
  /\ upc[u] = "idle"
  /\ pointer.previous # None
  /\ seen' = [seen EXCEPT ![u] = pointer]
  /\ upc' = [upc EXCEPT ![u] = "swap"]
  /\ UNCHANGED <<storeVars, attemptVars, history>>

\* Mutated form of UndoSwap: the pointer is put without a comparison.
UndoSwapUnchecked(u) ==
  /\ upc[u] = "swap"
  /\ pointer' = [revision |-> seen[u].revision + 1,
                 current  |-> seen[u].previous,
                 previous |-> seen[u].current]
  /\ history' = Append(history, seen[u].previous)
  /\ upc' = [upc EXCEPT ![u] = "done"]
  /\ UNCHANGED <<record, expired, rosters, attemptVars, seen>>

UndoSwap(u) ==
  /\ upc[u] = "swap"
  /\ IF pointer = seen[u]
       THEN /\ pointer' = [revision |-> seen[u].revision + 1,
                           current  |-> seen[u].previous,
                           previous |-> seen[u].current]
            /\ history' = Append(history, seen[u].previous)
       ELSE UNCHANGED <<pointer, history>>
  /\ upc' = [upc EXCEPT ![u] = "done"]
  /\ UNCHANGED <<record, expired, rosters, attemptVars, seen>>

UndoFail(u) ==
  /\ upc[u] = "swap"
  /\ upc' = [upc EXCEPT ![u] = "done"]
  /\ UNCHANGED <<storeVars, attemptVars, seen, history>>

-----------------------------------------------------------------------------
\* What an attempt does of its own accord.
Step(a) ==
  \/ Load(a) \/ Create(a) \/ Claim(a) \/ Recover(a)
  \/ \E s \in Societies, entry \in {a, Kept} : CollectSociety(a, s, entry)
  \/ SaveCandidate(a) \/ PrepareGeneration(a) \/ SaveGeneration(a)
  \/ PublishGeneration(a) \/ ClosePublished(a) \/ CloseStale(a)
  \/ Release(a)

Undo(u) == UndoRead(u) \/ UndoSwap(u) \/ UndoFail(u)

Next ==
  \/ \E a \in Attempts :
       \/ \E op \in Operations : Start(a, op)
       \/ Step(a)
       \/ Fail(a)
       \/ Crash(a)
  \/ \E op \in Operations : LeaseExpires(op)
  \/ \E u \in Undos : Undo(u)

Spec == Init /\ [][Next]_vars

-----------------------------------------------------------------------------
(* Properties. *)

TypeOK ==
  /\ pointer \in Pointer
  /\ record \in [Operations -> Record]
  /\ expired \in [Operations -> BOOLEAN]
  /\ rosters \in [Attempts -> Roster]
  /\ pc \in [Attempts -> PcStates]
  /\ target \in [Attempts -> Operations \cup {None}]
  /\ local \in [Attempts -> Record]
  /\ upc \in [Undos -> {"idle", "swap", "done"}]
  /\ seen \in [Undos -> Pointer]
  /\ history \in Seq(Attempts)

\* The pointer that named the first n generations of the history.
PointerAt(n) ==
  [revision |-> n,
   current  |-> IF n = 0 THEN None ELSE history[n],
   previous |-> IF n < 2 THEN None ELSE history[n - 1]]

Published(op) ==
  \E i \in 1 .. Len(history) : history[i] = record[op].generation

\* The pointer counts every generation ever served and its "previous" is the
\* one served immediately before, through any mix of racing publications and
\* undos: no swap is lost and undo never skips back further.
PointerFollowsHistory == pointer = PointerAt(Len(history))

\* An operation that was published replaced exactly the generation it was
\* based on, whichever of its attempts published it and however many ran.
NeverRebased ==
  \A op \in Operations :
    Published(op) =>
      history[record[op].base.revision + 1] = record[op].generation

\* Every generation that was ever served is still the one its operation's
\* record names, although deposed attempts keep running and saving: that is
\* what the recovery after a crash looks for.
ServedIsRecorded ==
  \A i \in 1 .. Len(history) :
    record[target[history[i]]].generation = history[i]

\* The published roster is the base roster with the request applied: removed
\* societies are gone, changed ones hold the base entry or a snapshot of one
\* of the operation's own attempts, and every other society is as the
\* previous generation had it - no concurrent change is overwritten.
NoLostUpdate ==
  \A op \in Operations :
    Published(op) =>
      LET n == record[op].base.revision
          old == IF n = 0 THEN EmptyRoster ELSE rosters[history[n]]
          new == rosters[history[n + 1]]
      IN \A s \in Societies :
           IF s \in Request[op].removals THEN new[s] = None
           ELSE \/ new[s] = old[s]
                \/ /\ s \in Request[op].upserts
                   /\ new[s] \in Attempts
                   /\ target[new[s]] = op

\* Only a published operation is reported as published.
ReportedWasPublished ==
  \A op \in Operations :
    record[op].outcome = "published" => Published(op)

\* An operation is closed as stale only when its base was replaced, and when
\* it was itself the replacement, only after two further generations.
StaleWindow ==
  \A op \in Operations :
    record[op].outcome = "stale" =>
      /\ record[op].base.revision < Len(history)
      /\ Published(op) => record[op].base.revision + 2 < Len(history)

\* The recovery step reads "Recover a crash between pointer CAS and marking
\* the operation complete" (catalog/apply.rs): a published operation would
\* never be closed as a stale one.
StaleWasNeverPublished ==
  \A op \in Operations : record[op].outcome = "stale" => ~Published(op)

\* An invocation that ends in an orderly way leaves no lease behind that
\* would make the next one fail with "operation is already running".
OnlyACrashKeepsItsLease ==
  \A op \in Operations :
    record[op].lease # None => pc[record[op].lease] # "done"

\* What an operation has recorded - the work on a society, the candidate
\* roster, the generation, the outcome - is never taken back or replaced by
\* another attempt, so a resumed attempt continues from durable progress.
ProgressKept(old, new) ==
  /\ new.base = old.base /\ new.roster = old.roster
  /\ \A s \in Societies : old.work[s] # None => new.work[s] = old.work[s]
  /\ old.candidate # None => new.candidate = old.candidate
  /\ old.generation # None => new.generation = old.generation
  /\ old.outcome # "open" => new.outcome = old.outcome
  /\ new.revision > old.revision

RecordedProgressIsKept ==
  [][\A op \in Operations :
       record[op] # record'[op] =>
         record[op].outcome = "unopened" \/ ProgressKept(record[op], record'[op])]_record

\* The abstract publication protocol, read off this state: a generation stands
\* for the operation whose attempt prepared it.
ServedOperations == [i \in 1 .. Len(history) |-> target[history[i]]]
BaseRevisions == [op \in Operations |-> record[op].base.revision]
RecordedOutcomes == [op \in Operations |-> record[op].outcome]

Publication ==
  INSTANCE CatalogPublication WITH
    served  <- ServedOperations,
    base    <- BaseRevisions,
    outcome <- RecordedOutcomes

\* Every behaviour of the control plane is one of CatalogPublication.
ImplementsPublication == Publication!PubSpec

-----------------------------------------------------------------------------
(* The inductive strengthening behind the safety properties above. *)

\* A pointer that was once the catalog's, with its revision as its index.
Past(p) == p.revision \in 0 .. Len(history) /\ p = PointerAt(p.revision)

PointersArePast ==
  /\ \A op \in Operations : Past(record[op].base)
  /\ \A a \in Attempts : Past(local[a].base)
  /\ \A u \in Undos :
       Past(seen[u]) /\ (upc[u] = "swap" => seen[u].previous # None)

\* An attempt's copy of the record: equal to it until someone else saves, and
\* never ahead of it on the generation.
CopyAgrees(a) ==
  LET mine == local[a]
      theirs == record[target[a]]
  IN
  /\ mine.outcome = "open" /\ theirs.outcome # "unopened"
  /\ mine.base = theirs.base
  /\ mine.revision <= theirs.revision
  /\ mine.revision = theirs.revision => mine = theirs
  /\ mine.generation # None =>
       theirs.generation = mine.generation /\ mine.candidate # None

CopyFacts(a) ==
  /\ pc[a] # "idle" => target[a] \in Operations
  /\ pc[a] = "create" =>
       /\ local[a].outcome = "open" /\ local[a].revision = 0
       /\ local[a].lease = None /\ local[a].generation = None
  /\ pc[a] \in {"claim"} \cup Working => CopyAgrees(a)
  /\ pc[a] \in Working => local[a].lease = a

Copies == \A a \in Attempts : CopyFacts(a)

\* The steps of an attempt whose generation may be in the record.
Settled == {"publish", "closePublished", "release", "done", "crashed"}

\* The generation a record names was prepared by an attempt of that operation
\* which has since moved on; an unopened operation names none.
GenerationFacts(op) ==
  LET g == record[op].generation IN
  /\ g # None =>
       target[g] = op /\ pc[g] \in Settled /\ record[op].candidate # None
  /\ record[op].outcome = "unopened" => record[op] = Unopened

Generations == \A op \in Operations : GenerationFacts(op)

\* What an attempt has established when it takes a step.
StepFacts(a) ==
  LET mine == local[a]
      theirs == record[target[a]]
  IN
  /\ pc[a] \in {"collect", "prepare", "save"} => mine.generation = None
  /\ pc[a] \in {"prepare", "save"} => mine.candidate # None
  /\ pc[a] \in {"publish", "closePublished"} => mine.generation # None
  /\ pc[a] = "closePublished" => Published(target[a])
  /\ pc[a] = "closeStale" =>
       /\ mine.base.revision < Len(history)
       /\ mine.revision = theirs.revision /\ Published(target[a]) =>
            mine.base.revision + 2 < Len(history)

Steps == \A a \in Attempts : StepFacts(a)

\* NeverRebased with its index in range.
OnBase ==
  \A op \in Operations :
    Published(op) =>
      /\ record[op].base.revision < Len(history)
      /\ history[record[op].base.revision + 1] = record[op].generation

ServedRecorded ==
  \A i \in 1 .. Len(history) :
    /\ target[history[i]] \in Operations
    /\ record[target[history[i]]].generation = history[i]

Consistent ==
  /\ PointerFollowsHistory
  /\ PointersArePast
  /\ Copies
  /\ Generations
  /\ Steps
  /\ OnBase
  /\ ServedRecorded
  /\ ReportedWasPublished
  /\ StaleWindow

IInv == TypeOK /\ Consistent

\* What a record holds besides the pointers: the roster of its base, work of
\* its own attempts on the societies it changes, the candidate these make, the
\* roster of its generation, and a lease of an attempt that has not returned.
Owned == Working \cup {"release", "done", "crashed"}

RecordData(op) ==
  LET r == record[op] IN
  /\ r.roster = RosterAt(r.base)
  /\ \A s \in Societies : r.work[s] \in Attempts =>
       /\ s \in Request[op].upserts
       /\ target[r.work[s]] = op /\ pc[r.work[s]] \in Owned
  /\ r.candidate # None => r.candidate = Candidate(op, r)
  /\ r.generation # None => rosters[r.generation] = r.candidate
  /\ r.lease # None => target[r.lease] = op /\ pc[r.lease] \in Owned \ {"done"}

\* What an attempt's copy adds to CopyAgrees: a candidate is the recorded one,
\* and at "save" it is the roster the attempt has written.
CopyData(a) ==
  LET mine == local[a] IN
  /\ mine.roster = RosterAt(mine.base)
  /\ pc[a] = "create" =>
       mine.candidate = None /\ \A s \in Societies : mine.work[s] = None
  /\ pc[a] = "collect" => mine.candidate = None
  /\ pc[a] \in {"claim"} \cup Working /\ mine.candidate # None =>
       record[target[a]].candidate = mine.candidate
  /\ pc[a] = "save" => rosters[a] = mine.candidate

Data ==
  /\ \A op \in Operations : RecordData(op)
  /\ \A a \in Attempts : CopyData(a)

DInv == IInv /\ Data

-----------------------------------------------------------------------------
(* Liveness. *)

\* No attempt is left to run.
Exhausted == \A a \in Attempts : pc[a] \in {"done", "crashed"}

\* Scheduling: a started process keeps running and an hour passes; the
\* operator repeats each request, and the store errors that can end an
\* invocation before it holds the lease are transient.
Fairness ==
  /\ \A a \in Attempts : WF_vars(Step(a))
  /\ \A op \in Operations :
       /\ WF_vars(LeaseExpires(op))
       /\ SF_vars(\E a \in Attempts : Start(a, op))
       /\ SF_vars(\E a \in Attempts : target[a] = op /\ Load(a))
       /\ SF_vars(\E a \in Attempts : target[a] = op /\ Claim(a))

FairSpec == Spec /\ Fairness

\* An operation that was opened is eventually closed while its request is
\* repeated, or every invocation has ended with an error: no lease of a
\* crashed or deposed owner and no lost race wedges it.
OpenedIsClosed ==
  \A op \in Operations :
    record[op].outcome = "open" ~> Closed(op) \/ Exhausted
=============================================================================
