-------------------------- MODULE MCCatalogCleanup --------------------------
(***************************************************************************)
(* Small instances of CatalogCleanup for TLC.                              *)
(***************************************************************************)
EXTENDS CatalogCleanup, FiniteSets, TLC

CONSTANTS o1, o2, o3, s1

\* Each operation replaces the snapshot of the one society.
OneUpsert == [op \in Operations |-> [upserts |-> {s1}, removals |-> {}]]

CleanupSymmetry == Permutations(Attempts) \cup Permutations(Operations)
                     \cup Permutations(Undos)

\* With the collector on, invocations of apply follow one another and do not
\* fail, so none takes over a lease; undo and its collector run beside them.
Running == {a \in Attempts : pc[a] \notin {"idle", "done", "crashed"}}
SequentialNext ==
  \/ \E a \in Attempts : Running \subseteq {a} /\ CApply(a)
  \/ \E u \in Undos : CUndo(u)

\* With the collector off, two of them run at once, and anything may fail.
Used == {a \in Attempts : pc[a] # "idle"}
Tried == {target[a] : a \in Used}
OverlappingNext ==
  /\ CNext
  /\ Cardinality(Used') <= 2 /\ Cardinality(Tried') <= 2

MCNext == IF cleanupEnabled THEN SequentialNext ELSE OverlappingNext
MCSpec == CInit /\ [][MCNext]_cleanupVars
=============================================================================
