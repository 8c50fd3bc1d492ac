--------------------------- MODULE CatalogCleanup ---------------------------
(***************************************************************************)
(* The immutable objects behind the catalog and the collector that deletes *)
(* them (CatalogStore::gc, src/backend/src/catalog.rs), composed with the  *)
(* control plane of CatalogApply.                                          *)
(*                                                                         *)
(* Snapshots, rosters and bundles are written by apply before the record   *)
(* that names them is saved.  A successful undo runs the collector, when   *)
(* the configuration enables it: unless some operation is unfinished it    *)
(* deletes, key by key, every object that the generations of the pointer   *)
(* it has just written do not need.                                        *)
(***************************************************************************)
EXTENDS CatalogApply, Integers

VARIABLES
  cleanupEnabled,  \* cleanup_enabled of catalog_enrichment.json
  snapshots,   \* <<attempt, society>>: snapshot manifests in the lake
  rosterKeys,  \* roster objects in the lake, by the attempt's id
  bundles,     \* serving bundles in the lake, by the attempt's id
  written,     \* snapshots an attempt has itself written
  built,       \* attempts that have built and validated their bundle
  gpc,         \* the next step of each undo's validation and collection
  checked,     \* the operation records a collector has listed
  keep,        \* the snapshots a collector retains
  doomed       \* the keys left to delete of the prefix being collected

objectVars == <<snapshots, rosterKeys, bundles>>
progressVars == <<written, built>>
gcVars == <<cleanupEnabled, gpc, checked, keep, doomed>>
cleanupVars == <<vars, objectVars, progressVars, gcVars>>

Snapshot == Attempts \X Societies

CInit ==
  /\ Init
  /\ snapshots = {} /\ rosterKeys = {} /\ bundles = {}
  /\ written = {} /\ built = {}
  /\ cleanupEnabled \in BOOLEAN
  /\ gpc = [u \in Undos |-> "validate"]
  /\ checked = [u \in Undos |-> {}]
  /\ keep = [u \in Undos |-> {}]
  /\ doomed = [u \in Undos |-> {}]

\* The snapshots a roster pins.
Pins(roster) == {<<roster[s], s>> : s \in {t \in Societies : roster[t] # None}}

\* Everything the generation prepared by attempt g is served from.
Intact(g) == g \in rosterKeys /\ g \in bundles

-----------------------------------------------------------------------------
(* apply: each step of CatalogApply with the objects it reads and writes. *)

\* Mutated form of WriteSnapshot: the manifest key leaves out the society.
WriteUnkeyedSnapshot(a, s) ==
  /\ Before(a, "collect")
  /\ s \in Request[target[a]].upserts
  /\ local[a].work[s] = None
  /\ <<a, s>> \notin written
  /\ snapshots' = snapshots \cup {a}
  /\ written' = written \cup {<<a, s>>}
  /\ UNCHANGED <<vars, rosterKeys, bundles, built, gcVars>>

\* write_snapshot and the manifest put that follows it.
WriteSnapshot(a, s) ==
  /\ Before(a, "collect")
  /\ s \in Request[target[a]].upserts
  /\ local[a].work[s] = None
  /\ <<a, s>> \notin written
  /\ snapshots' = snapshots \cup {<<a, s>>}
  /\ written' = written \cup {<<a, s>>}
  /\ UNCHANGED <<vars, rosterKeys, bundles, built, gcVars>>

\* Mutated form of CCollectSociety: the record is saved before the snapshot.
CollectBeforeWrite(a, s, entry) ==
  /\ CollectSociety(a, s, entry)
  /\ UNCHANGED <<objectVars, progressVars, gcVars>>

CCollectSociety(a, s, entry) ==
  /\ CollectSociety(a, s, entry)
  /\ entry = a => <<a, s>> \in written
  /\ UNCHANGED <<objectVars, progressVars, gcVars>>

\* The body of prepare_generation: every pinned snapshot and the base bundle
\* are read, then the new bundle is built, validated and loaded.
BuildBundle(a) ==
  /\ Before(a, "prepare")
  /\ a \notin built
  /\ Pins(local[a].candidate) \subseteq snapshots
  /\ local[a].base.current \in bundles \cup {None}
  /\ rosterKeys' = rosterKeys \cup {a}
  /\ bundles' = bundles \cup {a}
  /\ built' = built \cup {a}
  /\ UNCHANGED <<vars, snapshots, written, gcVars>>

\* Mutated form of CPrepareGeneration: the bundle is left for later.
PrepareWithoutBundle(a) ==
  /\ PrepareGeneration(a)
  /\ rosterKeys' = rosterKeys \cup {a}
  /\ UNCHANGED <<snapshots, bundles, progressVars, gcVars>>

\* Its end: the roster is put a second time.
CPrepareGeneration(a) ==
  /\ PrepareGeneration(a)
  /\ local[a].candidate # EmptyRoster => a \in built
  /\ rosterKeys' = rosterKeys \cup {a}
  /\ UNCHANGED <<snapshots, bundles, progressVars, gcVars>>

\* A new operation reads the roster of the generation it is based on.
CLoad(a) ==
  /\ Load(a)
  /\ record[target[a]].outcome = "unopened"
       => pointer.current \in rosterKeys \cup {None}
  /\ UNCHANGED <<objectVars, progressVars, gcVars>>

COther(a) ==
  /\ \/ \E op \in Operations : Start(a, op)
     \/ Create(a) \/ Claim(a) \/ Recover(a) \/ SaveCandidate(a)
     \/ SaveGeneration(a) \/ PublishGeneration(a)
     \/ ClosePublished(a) \/ CloseStale(a) \/ Release(a)
  /\ UNCHANGED <<objectVars, progressVars, gcVars>>

CFail(a) ==
  /\ Fail(a) \/ Crash(a)
  /\ UNCHANGED <<objectVars, progressVars, gcVars>>

CApply(a) ==
  \/ \E s \in Societies : WriteSnapshot(a, s)
  \/ \E s \in Societies, entry \in {a, Kept} : CCollectSociety(a, s, entry)
  \/ BuildBundle(a) \/ CPrepareGeneration(a) \/ CLoad(a) \/ COther(a)

CLeaseExpires(op) ==
  LeaseExpires(op) /\ UNCHANGED <<objectVars, progressVars, gcVars>>

-----------------------------------------------------------------------------
(* undo, and the collector it ends with. *)

CUndoRead(u) ==
  UndoRead(u) /\ UNCHANGED <<objectVars, progressVars, gcVars>>

\* read_roster and validate_serving_generation of the previous generation.
UndoValidate(u) ==
  /\ upc[u] = "swap" /\ gpc[u] = "validate"
  /\ Intact(seen[u].previous)
  /\ gpc' = [gpc EXCEPT ![u] = "swap"]
  /\ UNCHANGED <<vars, objectVars, progressVars, cleanupEnabled, checked, keep, doomed>>

CUndoSwap(u) ==
  /\ gpc[u] = "swap"
  /\ UndoSwap(u)
  /\ gpc' = [gpc EXCEPT ![u] =
               IF pointer = seen[u] /\ cleanupEnabled THEN "list" ELSE "done"]
  /\ UNCHANGED <<objectVars, progressVars, cleanupEnabled, checked, keep, doomed>>

CUndoFail(u) ==
  /\ UndoFail(u)
  /\ gpc' = [gpc EXCEPT ![u] = "done"]
  /\ UNCHANGED <<objectVars, progressVars, cleanupEnabled, checked, keep, doomed>>

\* Mutated form of Retained: the generation undone is not kept.
RetainedCurrent(u) == {seen[u].previous}

\* The generations of the pointer the undo has written.
Retained(u) == {seen[u].current, seen[u].previous}

Goes(u, step, keys) ==
  /\ gpc' = [gpc EXCEPT ![u] = step]
  /\ doomed' = [doomed EXCEPT ![u] = keys]

\* The operation records are listed ...
GcList(u) ==
  /\ gpc[u] = "list"
  /\ checked' = [checked EXCEPT ![u] =
                   {op \in Operations : record[op].outcome # "unopened"}]
  /\ Goes(u, "check", {})
  /\ UNCHANGED <<vars, objectVars, progressVars, cleanupEnabled, keep>>

\* Mutated form of GcCheck: unfinished operations are not looked for.
GcCheckNothing(u) ==
  /\ gpc[u] = "check"
  /\ Retained(u) \subseteq rosterKeys
  /\ keep' = [keep EXCEPT ![u] = UNION {Pins(rosters[g]) : g \in Retained(u)}]
  /\ Goes(u, "listBundles", {})
  /\ UNCHANGED <<vars, objectVars, progressVars, cleanupEnabled, checked>>

\* ... and read one by one; the collection goes on only if all are completed.
\* Completion is final, so the last read may stand for all of them.  Then the
\* retained rosters are read for the snapshots they pin.
GcCheck(u) ==
  /\ gpc[u] = "check"
  /\ \A op \in checked[u] : Closed(op)
  /\ Retained(u) \subseteq rosterKeys
  /\ keep' = [keep EXCEPT ![u] = UNION {Pins(rosters[g]) : g \in Retained(u)}]
  /\ Goes(u, "listBundles", {})
  /\ UNCHANGED <<vars, objectVars, progressVars, cleanupEnabled, checked>>

\* An unfinished operation defers the collection; so does any store error,
\* half way through: the undo reports "catalog cleanup deferred".
GcStop(u) ==
  /\ gpc[u] \notin {"validate", "swap", "done"}
  /\ Goes(u, "done", {})
  /\ UNCHANGED <<vars, objectVars, progressVars, cleanupEnabled, checked, keep>>

\* Each prefix is listed, then its unretained keys are deleted one by one.
GcListPrefix(u) ==
  /\ \/ gpc[u] = "listBundles" /\ Goes(u, "bundles", bundles \ Retained(u))
     \/ gpc[u] = "listRosters" /\ Goes(u, "rosters", rosterKeys \ Retained(u))
     \/ gpc[u] = "listSnapshots" /\ Goes(u, "snapshots", snapshots \ keep[u])
  /\ UNCHANGED <<vars, objectVars, progressVars, cleanupEnabled, checked, keep>>

GcDelete(u, k) ==
  /\ k \in doomed[u]
  /\ doomed' = [doomed EXCEPT ![u] = @ \ {k}]
  /\ \/ gpc[u] = "bundles" /\ bundles' = bundles \ {k}
        /\ UNCHANGED <<rosterKeys, snapshots>>
     \/ gpc[u] = "rosters" /\ rosterKeys' = rosterKeys \ {k}
        /\ UNCHANGED <<bundles, snapshots>>
     \/ gpc[u] = "snapshots" /\ snapshots' = snapshots \ {k}
        /\ UNCHANGED <<bundles, rosterKeys>>
  /\ UNCHANGED <<vars, progressVars, cleanupEnabled, gpc, checked, keep>>

GcNextPrefix(u) ==
  /\ doomed[u] = {}
  /\ \/ gpc[u] = "bundles" /\ Goes(u, "listRosters", {})
     \/ gpc[u] = "rosters" /\ Goes(u, "listSnapshots", {})
     \/ gpc[u] = "snapshots" /\ Goes(u, "done", {})
  /\ UNCHANGED <<vars, objectVars, progressVars, cleanupEnabled, checked, keep>>

Collect(u) ==
  \/ GcList(u) \/ GcCheck(u) \/ GcStop(u)
  \/ GcListPrefix(u) \/ (\E k \in doomed[u] : GcDelete(u, k)) \/ GcNextPrefix(u)

CUndo(u) ==
  CUndoRead(u) \/ UndoValidate(u) \/ CUndoSwap(u) \/ CUndoFail(u) \/ Collect(u)

CNext ==
  \/ \E a \in Attempts : CApply(a) \/ CFail(a)
  \/ \E op \in Operations : CLeaseExpires(op)
  \/ \E u \in Undos : CUndo(u)

CSpec == CInit /\ [][CNext]_cleanupVars

-----------------------------------------------------------------------------
(* Properties. *)

CTypeOK ==
  /\ TypeOK
  /\ snapshots \subseteq Snapshot /\ written \subseteq Snapshot
  /\ rosterKeys \subseteq Attempts /\ bundles \subseteq Attempts
  /\ built \subseteq Attempts
  /\ cleanupEnabled \in BOOLEAN
  /\ checked \in [Undos -> SUBSET Operations]
  /\ keep \in [Undos -> SUBSET Snapshot]
  /\ doomed \in [Undos -> SUBSET (Snapshot \cup Attempts)]

Current == {pointer.current} \ {None}
Previous == {pointer.previous} \ {None}

\* A generation whose roster, bundle and pinned snapshots are all there.
Complete(g) == Intact(g) /\ Pins(rosters[g]) \subseteq snapshots

\* What an unfinished operation has recorded and will need to be resumed.
Closure(op) ==
  {<<record[op].work[s], s>> :
     s \in {t \in Societies : record[op].work[t] \in Attempts}}

ClosurePresent(op) ==
  /\ Closure(op) \subseteq snapshots
  /\ record[op].generation # None => Intact(record[op].generation)

\* A collection that may have deleted something.
Collecting(u) == gpc[u] \notin {"validate", "swap", "list", "check"}

\* An unfinished operation's recorded inputs and candidate generation are
\* complete unless its record did not exist yet when the collector listed the
\* operations: the deferral protects everything it can see.
UnfinishedIsSpared ==
  \A op \in Operations :
    record[op].outcome = "open" /\ ~ClosurePresent(op) =>
      \E u \in Undos : Collecting(u) /\ op \notin checked[u]

\* The generation being served and the one undo would restore are complete,
\* unless they came to be served after the pointer that the collector works
\* from: collections of racing undos and a collection that stops half way
\* never take a key that this pointer needs.
ServedIsSpared ==
  \A i \in {Len(history) - 1, Len(history)} \ {-1, 0} :
    ~Complete(history[i]) =>
      \E u \in Undos : Collecting(u) /\ seen[u].revision + 1 < i

\* catalog.rs says of the collector: "In-flight operations hold immutable
\* inputs and candidate generations. Deferring collection while any operation
\* is unfinished protects the entire closure."
InFlightClosureIsProtected ==
  \A op \in Operations : record[op].outcome = "open" => ClosurePresent(op)

\* serving_bundle_release.md says: "After a successful pointer swap, cleanup
\* retains only current and previous bundles, rosters, and referenced
\* gold/topology snapshots."
ServedIsRetained == \A g \in Current \cup Previous : Complete(g)

\* Both hold while the collector is off, as shipped: whatever is recorded or
\* served was written before, under crashes, takeovers and undo.
WrittenBeforeNamed ==
  ~cleanupEnabled => InFlightClosureIsProtected /\ ServedIsRetained
-----------------------------------------------------------------------------
(* The inductive strengthening behind the invariants above. *)

\* The phases of a collection that goes on, and all the phases of an undo.
Deleting == {"listBundles", "bundles", "listRosters", "rosters",
             "listSnapshots", "snapshots"}
Phases == Deleting \cup {"validate", "swap", "list", "check", "done"}

\* What a record names has been written and built: its work, the roster it is
\* based on, its generation.
Named(op) ==
  LET r == record[op] IN
  /\ \A s \in Societies :
       /\ r.work[s] \in Attempts => <<r.work[s], s>> \in written
       /\ r.roster[s] # None => <<r.roster[s], s>> \in written
  /\ r.generation # None => r.generation \in built

\* Only an attempt that has claimed its operation writes and builds.
Authored ==
  /\ \A k \in written : pc[k[1]] \in Owned
  /\ \A a \in built : pc[a] \in Owned
  /\ \A a \in Attempts : pc[a] = "save" => a \in built

\* A collector works from a pointer that was served, whose generations it
\* retains, after operations that are all closed.
Collector(u) ==
  /\ gpc[u] # "validate" => upc[u] # "idle"
  /\ gpc[u] \in Deleting \cup {"list", "check"} =>
       /\ cleanupEnabled
       /\ seen[u].previous # None
       /\ seen[u].revision < Len(history)
       /\ history[seen[u].revision + 1] = seen[u].previous
  /\ gpc[u] \in Deleting =>
       /\ \A op \in checked[u] : Closed(op)
       /\ keep[u] = UNION {Pins(rosters[g]) : g \in Retained(u)}
  /\ gpc[u] \in {"bundles", "rosters"} => doomed[u] \cap Retained(u) = {}
  /\ gpc[u] = "snapshots" => doomed[u] \cap keep[u] = {}

\* Nothing is missing unless a collection may have deleted it ...
NothingMissing ==
  \/ written \subseteq snapshots /\ built \subseteq rosterKeys \cap bundles
  \/ \E u \in Undos :
       cleanupEnabled /\ Collecting(u) /\ seen[u].revision < Len(history)

\* ... and nothing of an unfinished operation, unless by one that has not
\* seen it.
OwnPresent(op) ==
  /\ \A k \in written : target[k[1]] = op => k \in snapshots
  /\ \A a \in built : target[a] = op => Intact(a)

OwnSpared(op) ==
  \/ Closed(op) \/ OwnPresent(op)
  \/ \E u \in Undos : Collecting(u) /\ op \notin checked[u]

CInv ==
  /\ DInv
  /\ CTypeOK /\ gpc \in [Undos -> Phases]
  /\ \A op \in Operations : Named(op) /\ OwnSpared(op)
  /\ Authored
  /\ \A u \in Undos : Collector(u)
  /\ NothingMissing
  /\ ServedIsSpared
=============================================================================
