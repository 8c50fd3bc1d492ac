------------------------- MODULE SearchResponseCache -------------------------
(***************************************************************************)
(* SearchResponseCache and SearchCacheReservation                          *)
(* (src/backend/src/state.rs): responses of initial searches by query and  *)
(* runtime version, and one leader per key that computes a missing one.    *)
(***************************************************************************)
EXTENDS WeightedLru, Reservations, FiniteSets

CONSTANTS
  Queries, Versions,
  Weight,            \* the bytes each query, plan and change makes
  ResponseCapacity, ResponseMaxBytes, MaxInFlight

VARIABLES
  responses,  \* the cached outputs
  inFlight    \* the leader of each key, if any

responseVars == <<responses, inFlight>>

CacheKeys == [query : Queries, version : Versions]

\* Mutated form of CacheKey: the version is not part of the key.
CacheKeyOfQuery(query, version) == [query |-> query, version |-> 1]

\* SearchCacheKey::new
CacheKey(query, version) == [query |-> query, version |-> version]

Reserved == {k \in CacheKeys : inFlight[k] # None}

ResponseInit ==
  /\ responses = EmptyCache
  /\ inFlight = [k \in CacheKeys |-> None]

\* lookup_or_reserve finds the key, finds a leader, is full, or makes c the
\* leader.
HitResponse(k) ==
  /\ Holds(responses, k)
  /\ responses' = Touched(responses, k)
  /\ UNCHANGED inFlight

Missing(k) == ~Holds(responses, k) /\ inFlight[k] = None
InFlightIsFull == Cardinality(Reserved) >= MaxInFlight

ReserveResponse(c, k) ==
  /\ inFlight' = [inFlight EXCEPT ![k] = c]
  /\ UNCHANGED responses

\* SearchCacheReservation::complete, which a clear may have deposed.
CompleteResponse(c, k, output) ==
  IF inFlight[k] = c
    THEN /\ inFlight' = [inFlight EXCEPT ![k] = None]
         /\ responses' = Inserted(responses,
              [key |-> k, output |-> output, weight |-> Weight[k.query]],
              ResponseCapacity, ResponseMaxBytes)
         /\ Send(c, output)
    ELSE UNCHANGED <<responseVars, channel>>

\* Mutated form of DropResponse: the entry outlives its leader.
ForgetResponse(c, k) == UNCHANGED <<responseVars, channel>>

\* Drop of a reservation that was not completed.
DropResponse(c, k) ==
  /\ UNCHANGED responses
  /\ IF inFlight[k] = c
       THEN inFlight' = [inFlight EXCEPT ![k] = None] /\ Hang({c})
       ELSE UNCHANGED <<inFlight, channel>>

\* Mutated form of ClearResponses: the senders survive the map.
ClearKeepingSenders ==
  /\ responses' = EmptyCache
  /\ inFlight' = [k \in CacheKeys |-> None]
  /\ UNCHANGED channel

\* clear
ClearResponses ==
  /\ responses' = EmptyCache
  /\ inFlight' = [k \in CacheKeys |-> None]
  /\ Hang({inFlight[k] : k \in Reserved})
=============================================================================
