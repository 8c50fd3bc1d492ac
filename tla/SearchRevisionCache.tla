------------------------- MODULE SearchRevisionCache -------------------------
(***************************************************************************)
(* SearchRevisionCaches and RevisionIdempotencyReservation                 *)
(* (src/backend/src/state.rs): the responses of revisions by mutation (the *)
(* parent revision and the client's mutation id), each bound to the        *)
(* fingerprint of the request that reserved it, and the outputs of         *)
(* compiled plans by plan and runtime version.                             *)
(***************************************************************************)
EXTENDS WeightedLru, Reservations

CONSTANTS
  Mutations,
  RevisionCapacity, RevisionMaxBytes,
  SemanticCapacity, SemanticMaxBytes

VARIABLES
  revisions,      \* the entry of each mutation
  completed,      \* the mutations with a response, the oldest first
  completedBytes, \* the bytes counted for them
  semantic        \* the outputs of plans

idempotencyVars == <<revisions, completed, completedBytes>>
revisionVars == <<idempotencyVars, semantic>>

Leading(c, change) == [leader |-> c, change |-> change, response |-> None, weight |-> 0]

RevisionInit ==
  /\ revisions = [m \in Mutations |-> None]
  /\ completed = <<>>
  /\ completedBytes = 0
  /\ semantic = EmptyCache

\* The cases of lookup_or_reserve.
Present(m) == revisions[m] # None
InFlightRevision(m) == Present(m) /\ revisions[m].response = None
SameRequest(m, change) == Present(m) /\ revisions[m].change = change

\* Mutated form of Vacant: only a finished revision is in the way.
VacantUntilComplete(m) == ~(Present(m) /\ ~InFlightRevision(m))

Vacant(m) == ~Present(m)

ReserveRevision(c, m, change) ==
  /\ revisions' = [revisions EXCEPT ![m] = Leading(c, change)]
  /\ UNCHANGED <<completed, completedBytes>>

\* The eviction loop after a completion: the oldest responses go until both
\* limits hold.  With none left and the bytes still above the limit it would
\* never end, and the lock never be released.
Evicting(entries, order, bytes) ==
  LET complete(m) == entries[m] # None /\ entries[m].response # None
      oldest(n) == SubSeq(order, 1, n)
      weight(m) == IF complete(m) THEN entries[m].weight ELSE 0
      left(n) == Less(bytes, Total([i \in 1 .. n |-> weight(order[i])]))
      fits(n) == Len(order) - n <= RevisionCapacity /\ left(n) <= RevisionMaxBytes
  IN \E n \in 0 .. Len(order) :
       /\ fits(n)
       /\ \A i \in 0 .. n - 1 : ~fits(i)
       /\ revisions' = [m \in Mutations |-> IF Contains(oldest(n), m) THEN None ELSE entries[m]]
       /\ completed' = SubSeq(order, n + 1, Len(order))
       /\ completedBytes' = left(n)

\* RevisionIdempotencyReservation::complete: the entry is taken out first, and
\* put back only if another leader has it.
CompleteRevision(c, m, response, weight) ==
  LET entry == revisions[m] IN
  IF ~InFlightRevision(m)
    THEN /\ revisions' = [revisions EXCEPT ![m] = None]
         /\ UNCHANGED <<completed, completedBytes, channel>>
  ELSE IF entry.leader # c
    THEN UNCHANGED <<idempotencyVars, channel>>
  ELSE /\ Send(c, response)
       /\ IF weight <= RevisionMaxBytes
            THEN Evicting([revisions EXCEPT ![m] =
                             [entry EXCEPT !.response = response, !.weight = weight]],
                          Append(completed, m), completedBytes + weight)
            ELSE Evicting([revisions EXCEPT ![m] = None], completed, completedBytes)

\* Drop of a reservation that was not completed.
DropRevision(c, m) ==
  IF InFlightRevision(m) /\ revisions[m].leader = c
    THEN /\ revisions' = [revisions EXCEPT ![m] = None]
         /\ Hang({c})
         /\ UNCHANGED <<completed, completedBytes>>
    ELSE UNCHANGED <<idempotencyVars, channel>>

\* semantic_get and semantic_insert
HitPlan(k) == Holds(semantic, k) /\ semantic' = Touched(semantic, k)
InsertPlan(k, output, weight) ==
  semantic' = Inserted(semantic, [key |-> k, output |-> output, weight |-> weight],
                       SemanticCapacity, SemanticMaxBytes)
=============================================================================
