-------------------------- MODULE MCSearchServing --------------------------
(***************************************************************************)
(* Instances of SearchServing for TLC: up to three requests at a time, in  *)
(* six mixtures, and a reload.                                             *)
(***************************************************************************)
EXTENDS SearchServing, TLC

CONSTANTS c1, c2, c3, q1, q2, q3, m1, m2, f1, f2

Ask(kind, name, change) == [kind |-> kind, name |-> name, change |-> change]
Three(x, y, z) == (c1 :> x) @@ (c2 :> y) @@ (c3 :> z)

MCWeight == (q1 :> 1) @@ (q2 :> 2) @@ (q3 :> 1) @@ (m1 :> 1) @@ (m2 :> 2)
            @@ (f1 :> 1) @@ (f2 :> 3)
MCVersions == 1 .. 2

\* Mixtures in which requests wait for each other or for a lock, compete for
\* the caches and the lane, or find the plans that others have left.
MCTraffic ==
  { Three(Ask("search", q1, None), Ask("search", q1, None), Ask("search", q2, None)),
    Three(Ask("search", q1, None), Ask("search", q2, None), Ask("search", q3, None)),
    Three(Ask("revise", m1, f1), Ask("revise", m1, f1), Ask("revise", m1, f2)),
    Three(Ask("listing", q1, None), Ask("listing", q1, None), Ask("recommend", q2, None)),
    Three(Ask("revise", m1, f1), Ask("revise", m2, f1), Ask("nothing", q1, None)),
    Three(Ask("revise", m1, f1), Ask("resume", m1, None), Ask("nothing", q1, None)) }
=============================================================================
