------------------------------ MODULE MCDagRun ------------------------------
(***************************************************************************)
(* Small instances of DagRun for TLC.                                      *)
(***************************************************************************)
EXTENDS DagRun, TLC

CONSTANTS a, b, c, r1, r2, d1, d2, d3

\* b needs a, and c stands alone.  One run finds a too old and is to make the
\* others, but the collector of c brings nothing; two drivers carry it.  A
\* second run makes a, and b when it has become due, or makes a on pins.
Trio == (a :> {}) @@ (b :> {a}) @@ (c :> {})
TrioOrder == <<c, a, b>>
TrioForced == (r1 :> {b, c}) @@ (r2 :> {a})
TrioInput == (r1 :> {c}) @@ (r2 :> {})
TrioPromotes == (r1 :> {TRUE}) @@ (r2 :> BOOLEAN)
TrioMaxAttempts == (d1 :> 2) @@ (d2 :> 2) @@ (d3 :> 1)
TrioCarries == (d1 :> r1) @@ (d2 :> r1) @@ (d3 :> r2)

\* The drivers of the first run retry an execution or a promotion only where
\* the second run's driver has died before it saved anything.
RetriedAlone ==
  (\E d \in Drivers : try[d] > 0 /\ pc[d] \in {"backoff", "loop"})
    => pc[d3] = "over" /\ manifest[r2] = Absent
TrioNext == Next /\ RetriedAlone'
TrioSpec == Init /\ [][TrioNext]_dagVars

\* One run of a and b, which have no record from before, by two drivers.
Pair == (a :> {}) @@ (b :> {a})
PairOrder == <<a, b>>
PairForced == r1 :> {a, b}
PairInput == r1 :> {}
PairPromotes == r1 :> {FALSE}
PairMaxAttempts == (d1 :> 1) @@ (d2 :> 1)
PairCarries == (d1 :> r1) @@ (d2 :> r1)

DriverSymmetry == Permutations({d1, d2})
=============================================================================
