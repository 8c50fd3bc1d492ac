--------------------------- MODULE MCCatalogApply ---------------------------
(***************************************************************************)
(* Small instances of CatalogApply for TLC.                                *)
(***************************************************************************)
EXTENDS CatalogApply, TLC

CONSTANTS o1, o2, o3, s1, s2

\* o1 changes both societies, so it can stop half way through, o2 one of
\* them; o3 replaces s2 and drops s1, which it may only do once o1 is
\* published.
TwoSocieties ==
  [op \in Operations |->
     CASE op = o1 -> [upserts |-> {s1, s2}, removals |-> {}]
       [] op = o2 -> [upserts |-> {s2}, removals |-> {}]
       [] op = o3 -> [upserts |-> {s2}, removals |-> {s1}]]

OneUpsert == [op \in Operations |-> [upserts |-> {s1}, removals |-> {}]]

AttemptSymmetry == Permutations(Attempts)
FullSymmetry == Permutations(Attempts) \cup Permutations(Operations)
                  \cup Permutations(Undos)

\* The behaviours in which an invocation ends before its time only by a crash.
CrashNext ==
  \/ \E a \in Attempts : Step(a) \/ Crash(a) \/ \E op \in Operations : Start(a, op)
  \/ \E op \in Operations : LeaseExpires(op)
  \/ \E u \in Undos : Undo(u)
CrashSpec == Init /\ [][CrashNext]_vars

\* The behaviours in which one invocation runs at a time and none fails.
Running == {a \in Attempts : pc[a] \notin {"idle", "done", "crashed"}}
OneAtATime == \A a, b \in Running : a = b
SerialNext ==
  /\ \/ \E a \in Attempts : Step(a) \/ Crash(a) \/ \E op \in Operations : Start(a, op)
     \/ \E op \in Operations : LeaseExpires(op)
  /\ OneAtATime'
SerialSpec == Init /\ [][SerialNext]_vars
=============================================================================
