------------------------- MODULE CatalogPublication -------------------------
(***************************************************************************)
(* What the catalog control plane promises to its users, without leases,   *)
(* crashes, snapshots or pointer files.                                    *)
(*                                                                         *)
(* The catalog serves one generation at a time.  An operation is opened    *)
(* against the generation served at that moment and may replace exactly    *)
(* that generation, once; undo serves again the generation served just     *)
(* before.  Every operation is finally reported as published or as stale.  *)
(***************************************************************************)
EXTENDS Naturals, Sequences

CONSTANT Operations   \* the operation ids of the apply requests

VARIABLES
  served,    \* the operations whose generations have been served, in order
  base,      \* Len(served) when the operation was opened
  outcome    \* what is recorded of each operation

pubVars == <<served, base, outcome>>

Outcomes == {"unopened", "open", "published", "stale"}

Served(op) == \E i \in 1 .. Len(served) : served[i] = op

PubTypeOK ==
  /\ served \in Seq(Operations)
  /\ base \in [Operations -> Nat]
  /\ outcome \in [Operations -> Outcomes]

PubInit ==
  /\ served = << >>
  /\ base = [op \in Operations |-> 0]
  /\ outcome = [op \in Operations |-> "unopened"]

\* apply writes the operation record against the pointer it read.  The read
\* precedes the write, so the recorded base may already have been replaced.
Open(op, n) ==
  /\ outcome[op] = "unopened"
  /\ n \in 0 .. Len(served)
  /\ base' = [base EXCEPT ![op] = n]
  /\ outcome' = [outcome EXCEPT ![op] = "open"]
  /\ UNCHANGED served

\* The single commit point: nothing was served since the operation's base.
Publish(op) ==
  /\ outcome[op] = "open"
  /\ base[op] = Len(served)
  /\ ~Served(op)
  /\ served' = Append(served, op)
  /\ UNCHANGED <<base, outcome>>

\* The generation served immediately before the current one is served again.
Undo ==
  /\ Len(served) >= 2
  /\ served' = Append(served, served[Len(served) - 1])
  /\ UNCHANGED <<base, outcome>>

ClosePublished(op) ==
  /\ outcome[op] = "open"
  /\ Served(op)
  /\ outcome' = [outcome EXCEPT ![op] = "published"]
  /\ UNCHANGED <<served, base>>

\* Stale: the base was replaced.  An operation that was itself published is
\* closed as stale only when two generations have been served after its own.
CloseStale(op) ==
  /\ outcome[op] = "open"
  /\ base[op] < Len(served)
  /\ Served(op) => base[op] + 2 < Len(served)
  /\ outcome' = [outcome EXCEPT ![op] = "stale"]
  /\ UNCHANGED <<served, base>>

PubNext ==
  \/ Undo
  \/ \E op \in Operations :
       \/ \E n \in 0 .. Len(served) : Open(op, n)
       \/ Publish(op)
       \/ ClosePublished(op)
       \/ CloseStale(op)

PubSpec == PubInit /\ [][PubNext]_pubVars
=============================================================================
