------------------------ MODULE SearchServing_proofs ------------------------
(***************************************************************************)
(* Theorems about SearchServing for any requests, callers and limits.      *)
(*                                                                         *)
(* The first part leaves aside what the caches hold: it is about who leads *)
(* a reservation, who waits for it, and who has a slot of the lane.  The   *)
(* second is about the caches: sums of weights, what an insertion and an   *)
(* eviction do to them, and that whatever is kept is an answer for whoever *)
(* may find it.                                                            *)
(***************************************************************************)
EXTENDS SearchServing, FiniteSetTheorems, WellFoundedInduction, TLAPS

\* The compute lane has nothing but its slots and tasks to agree on.
LaneInv ==
  /\ permits \in Nat /\ tasks \subseteq Callers /\ IsFiniteSet(tasks)
  /\ permits + Cardinality(tasks) = ComputeSlots
  /\ pc \in [Callers -> {"new", "lookup", "wait", "slot", "task", "called",
                         "plan", "decide", "build", "over"}]
  /\ \A c \in Callers :
       /\ pc[c] = "task" => c \in tasks
       /\ c \in tasks => pc[c] \in {"task", "over"}

LEMMA InitLane == Init => LaneInv
<1> SUFFICES ASSUME Init PROVE LaneInv
  OBVIOUS
<1>1. Cardinality({}) = 0 /\ IsFiniteSet({})
  BY FS_EmptySet
<1> QED BY <1>1, ServingAssumption DEF Init, LaneInv

\* A step of a request that leaves the lane alone, and what it may be.
Elsewhere(c) ==
  /\ UNCHANGED laneVars
  /\ pc[c] # "task" \/ pc' = [pc EXCEPT ![c] = "over"]
  /\ \E step \in {"lookup", "wait", "slot", "called", "plan", "decide", "build", "over"} :
       pc' = [pc EXCEPT ![c] = step]
  /\ pc[c] # "over"

LEMMA LaneElsewhere ==
  ASSUME LaneInv, NEW c \in Callers, Elsewhere(c)
  PROVE  LaneInv'
BY DEF LaneInv, Elsewhere, laneVars

LEMMA LaneStep == LaneInv /\ [Next]_vars => LaneInv'
<1> SUFFICES ASSUME LaneInv, [Next]_vars PROVE LaneInv'
  OBVIOUS
<1>1. CASE UNCHANGED <<pc, laneVars>>
  BY <1>1 DEF LaneInv, laneVars
<1>2. ASSUME NEW c \in Callers, StartTask(c)
      PROVE  LaneInv'
  <2>1. c \notin tasks /\ permits > 0
    BY <1>2 DEF StartTask, StandsAt, LaneInv
  <2>2. IsFiniteSet(tasks \cup {c}) /\ Cardinality(tasks \cup {c}) = Cardinality(tasks) + 1
    BY <2>1, FS_AddElement DEF LaneInv
  <2>3. Cardinality(tasks) \in Nat
    BY FS_CardinalityType DEF LaneInv
  <2> QED BY <1>2, <2>1, <2>2, <2>3 DEF StartTask, StandsAt, GoTo, LaneInv
<1>3. ASSUME NEW c \in Callers, EndTask(c)
      PROVE  LaneInv'
  <2>1. IsFiniteSet(tasks \ {c}) /\ Cardinality(tasks \ {c}) = Cardinality(tasks) - 1
    BY <1>3, FS_RemoveElement DEF EndTask, LaneInv
  <2>2. Cardinality(tasks) \in Nat
    BY FS_CardinalityType DEF LaneInv
  <2> QED BY <1>3, <2>1, <2>2 DEF EndTask, StandsAt, GoTo, LaneInv
<1>4. ASSUME NEW c \in Callers, Arrive(c) \/ LookupResponse(c) \/ LookupRevision(c) \/ Wake(c)
      PROVE  LaneInv'
  <2>1. Elsewhere(c)
    BY <1>4 DEF Elsewhere, Arrive, LookupResponse, LookupRevision, Wake, StandsAt, GoTo,
                Calls, Lead, Wait, End
  <2> QED BY <2>1, LaneElsewhere
<1>5. ASSUME NEW c \in Callers, QueueTimeout(c) \/ FailCall(c) \/ Cancel(c)
      PROVE  LaneInv'
  <2>1. Elsewhere(c)
    BY <1>5 DEF Elsewhere, QueueTimeout, FailCall, Cancel, Abort, End, StandsAt, GoTo
  <2> QED BY <2>1, LaneElsewhere
<1>6. ASSUME NEW c \in Callers,
             CompleteSearch(c) \/ LookupPlan(c) \/ NextCall(c) \/ AnswerJourney(c)
      PROVE  LaneInv'
  <2>1. Elsewhere(c)
    BY <1>6 DEF Elsewhere, CompleteSearch, LookupPlan, NextCall, AnswerJourney, Decides,
                End, StandsAt, GoTo
  <2> QED BY <2>1, LaneElsewhere
<1>7. ASSUME NEW c \in Callers,
             \/ LookupListing(c) \/ KeepListing(c)
             \/ LookupRecommendation(c) \/ KeepRecommendation(c)
      PROVE  LaneInv'
  <2>1. Elsewhere(c)
    BY <1>7 DEF Elsewhere, LookupListing, KeepListing, LookupRecommendation,
                KeepRecommendation, Calls, End, StandsAt, GoTo
  <2> QED BY <2>1, LaneElsewhere
<1>8. ASSUME NEW a \in Reloads, Load(a) \/ ReloadStep(a) \/ AbandonReload(a)
      PROVE  LaneInv'
  <2>1. UNCHANGED <<pc, laneVars>>
    BY <1>8 DEF Load, ReloadStep, AbandonReload, ClearRecommendations, ClearListing,
                ClearSearches, StoreSnapshot, requestVars
  <2> QED BY <1>1, <2>1
<1>9. CASE UNCHANGED vars
  BY <1>1, <1>9 DEF vars, requestVars
<1> QED BY <1>2, <1>3, <1>4, <1>5, <1>6, <1>7, <1>8, <1>9 DEF Next, RequestStep

\* A slot of the compute lane is free or has a task, also after the request
\* that the task works for has been dropped.
THEOREM NoPermitIsLostHolds == Spec => []NoPermitIsLost
<1>1. LaneInv => NoPermitIsLost
  BY DEF LaneInv, NoPermitIsLost, StandsAt
<1> QED BY <1>1, InitLane, LaneStep, PTL DEF Spec

-----------------------------------------------------------------------------
(* Requests. *)

Calling == {"slot", "task", "called", "plan", "decide"}
Journeys == {"revise", "resume"}
Leaders == {"search", "revise"}
StepsOf == {"new", "lookup", "wait", "slot", "task", "called", "plan", "decide",
            "build", "over"}

\* The calls that requests of a kind make.
CallsOf(kind) ==
  {n \in CallNames : /\ kind \notin {"recommend", "nothing"}
                     /\ kind = "search" => n = "query"
                     /\ kind = "listing" => n = "list"
                     /\ kind = "revise" => n \notin {"query", "list"}
                     /\ kind = "resume" => n \in {"rebind", "parent"}}

\* A request leads a reservation while it computes, if it is of a kind that
\* reserves, and is only ever at the steps of its kind.
Role(c) ==
  /\ leads[c] <=> Kind(c) \in Leaders /\ pc[c] \in Calling
  /\ pc[c] \in Calling => call[c] \in CallsOf(Kind(c))
  /\ pc[c] \in {"plan", "decide"} => Kind(c) \in Journeys
  /\ pc[c] = "plan" => call[c] \in {"parent", "candidate"}
  /\ pc[c] = "wait" => Kind(c) \in Leaders /\ waitsOn[c] \in Callers
  /\ pc[c] = "build" => Kind(c) = "recommend"

RequestTyped ==
  /\ asks \in Traffic
  /\ pc \in [Callers -> StepsOf] /\ call \in [Callers -> CallNames \cup {None}]
  /\ leads \in [Callers -> BOOLEAN]
  /\ waitsOn \in [Callers -> Callers \cup {None}] /\ seen \in [Callers -> Versions]
  /\ snapshot \in Versions /\ published \in Versions
  /\ loaded \in [Reloads -> Versions]

ReservationTyped ==
  /\ inFlight \in [CacheKeys -> Callers \cup {None}]
  /\ channel \in [Callers -> [open : BOOLEAN, sent : Outputs \cup {None}]]
  /\ revisions \in [Mutations -> RevisionEntries \cup {None}]
  /\ completed \in Seq(Mutations)

Requests == RequestTyped /\ \A c \in Callers : Role(c)

\* What execute_plan has returned to the requests.
HeldTyped == held \in [Callers -> SUBSET Outputs]

\* What a request asks for.
LEMMA AsksTyped ==
  ASSUME RequestTyped, NEW c \in Callers
  PROVE  /\ Kind(c) \in Kinds
         /\ Kind(c) = "search" => Key(c) \in CacheKeys
         /\ Kind(c) = "revise" => Mutation(c) \in Mutations /\ Change(c) \in Names
         /\ Computed(c, asks[c].name) \in Outputs
         /\ Kind(c) = "revise" => Computed(c, Change(c)) \in Outputs
         /\ Key(c).version = seen[c] /\ Key(c).query = asks[c].name
<1>1. /\ asks \in [Callers -> [kind : Kinds, name : Names, change : Names \cup {None}]]
      /\ asks[c].kind = "search" => asks[c].name \in Queries
      /\ asks[c].kind = "revise" => asks[c].name \in Mutations /\ asks[c].change \in Names
  BY ServingAssumption DEF RequestTyped
<1>2. asks[c].kind \in Kinds /\ asks[c].name \in Names /\ seen[c] \in Versions
  BY <1>1 DEF RequestTyped
<1> QED BY <1>1, <1>2 DEF Kind, Key, CacheKey, CacheKeys, Mutation, Change, Computed, Outputs

\* A request that has executed a plan made it from what it asks.
LEMMA PlanTyped ==
  ASSUME Requests, NEW c \in Callers, pc[c] = "plan" \/ Executed(c)
  PROVE  /\ Kind(c) \in Journeys /\ Plan(c).plan \in Names /\ Plan(c).version = seen[c]
         /\ IF Kind(c) = "revise" THEN Plan(c).plan \in {Mutation(c), Change(c)}
                                  ELSE Plan(c).plan = asks[c].name
         /\ Plan(c) \in [plan : Names, version : Versions]
         /\ Computed(c, Plan(c).plan) \in Outputs
<1>1. /\ call[c] \in {"parent", "candidate"} /\ call[c] \in CallsOf(Kind(c))
      /\ Kind(c) \in Kinds
  BY AsksTyped DEF Requests, Role, Calling, Executed, StandsAt
<1>2. Kind(c) \in Journeys /\ (Kind(c) = "resume" => call[c] = "parent")
  BY <1>1 DEF CallsOf, Kinds, Journeys
<1>3. /\ asks[c].name \in Names /\ seen[c] \in Versions
      /\ Kind(c) = "revise" => Change(c) \in Names
  BY AsksTyped, ServingAssumption DEF Requests, RequestTyped
<1> QED BY <1>1, <1>2, <1>3 DEF Plan, Mutation, Journeys, Computed, Outputs

\* What an answer is made from, and its envelopes, are outputs.
LEMMA GivenTyped ==
  ASSUME Requests, HeldTyped, NEW c \in Callers
  PROVE  Given(c) \subseteq Outputs /\ Envelopes(c) \subseteq Outputs
<1>1. Given(c) \subseteq Outputs
  BY PlanTyped DEF Given, HeldTyped
<1>2. \A output \in Outputs : [output EXCEPT !.by = c] \in Outputs
  BY DEF Outputs
<1>3. Computed(c, asks[c].name) \in Outputs
  BY AsksTyped DEF Requests
<1> QED BY <1>1, <1>2, <1>3 DEF Envelopes

\* A step of request c leaves the others alone.
Alone(c) ==
  /\ UNCHANGED asks
  /\ \A e \in Callers \ {c} :
       /\ pc'[e] = pc[e] /\ call'[e] = call[e] /\ leads'[e] = leads[e]
       /\ waitsOn'[e] = waitsOn[e] /\ seen'[e] = seen[e]

LEMMA RequestMoves ==
  ASSUME Requests, NEW c \in Callers, Alone(c), RequestTyped', Role(c)'
  PROVE  Requests'
<1> SUFFICES ASSUME NEW e \in Callers PROVE Role(e)'
  BY DEF Requests
<1>1. CASE e = c
  BY <1>1
<1>2. CASE e # c
  BY <1>2 DEF Requests, Role, Alone, Kind
<1> QED BY <1>1, <1>2

\* A request that ends.
LEMMA RequestEnds ==
  ASSUME Requests, NEW c \in Callers, NEW result, End(c, result),
         UNCHANGED <<snapshot, published, loaded>>
  PROVE  /\ Requests' /\ Alone(c)
         /\ pc'[c] = "over" /\ ~leads'[c] /\ seen'[c] = seen[c]
<1>1. /\ pc' = [pc EXCEPT ![c] = "over"] /\ call' = [call EXCEPT ![c] = None]
      /\ leads' = [leads EXCEPT ![c] = FALSE] /\ waitsOn' = [waitsOn EXCEPT ![c] = None]
      /\ UNCHANGED <<asks, seen>>
  BY DEF End, GoTo
<1>2. Alone(c) /\ pc'[c] = "over" /\ leads'[c] = FALSE /\ seen'[c] = seen[c]
  BY <1>1 DEF Alone, Requests, RequestTyped
<1>3. RequestTyped'
  BY <1>1 DEF Requests, RequestTyped, StepsOf
<1>4. Role(c)'
  BY <1>2 DEF Role, Calling
<1> QED BY <1>2, <1>3, <1>4, RequestMoves

\* A request that only goes on to another step or call of its kind.
LEMMA RequestGoesOn ==
  ASSUME Requests, NEW c \in Callers, NEW step \in Calling, NEW next \in CallsOf(Kind(c)),
         pc[c] \in Calling,
         step \in {"plan", "decide"} => Kind(c) \in Journeys,
         step = "plan" => next \in {"parent", "candidate"},
         pc' = [pc EXCEPT ![c] = step], call' = [call EXCEPT ![c] = next],
         UNCHANGED <<asks, leads, waitsOn, seen, snapshot, published, loaded>>
  PROVE  /\ Requests' /\ Alone(c) /\ pc'[c] = step /\ seen'[c] = seen[c]
<1>1. Alone(c) /\ pc'[c] = step /\ call'[c] = next /\ seen'[c] = seen[c]
  BY DEF Alone, Requests, RequestTyped
<1>2. RequestTyped'
  BY DEF Requests, RequestTyped, StepsOf, Calling, CallsOf
<1>3. Role(c)'
  BY <1>1 DEF Requests, Role, Kind, Calling
<1> QED BY <1>1, <1>2, <1>3, RequestMoves

-----------------------------------------------------------------------------
(* Reservations. *)

ResponsesHeld ==
  \A k \in CacheKeys : inFlight[k] # None =>
    leads[inFlight[k]] /\ Kind(inFlight[k]) = "search" /\ Key(inFlight[k]) = k

RevisionsHeld ==
  \A m \in Mutations : InFlightRevision(m) =>
    LET c == revisions[m].leader IN leads[c] /\ Kind(c) = "revise" /\ Mutation(c) = m

\* What the request c waits for is reserved by the leader whose answer it awaits.
Awaits(c) ==
  IF Kind(c) = "search" THEN inFlight[Key(c)] = waitsOn[c]
  ELSE InFlightRevision(Mutation(c)) /\ revisions[Mutation(c)].leader = waitsOn[c]

WaitersHeld ==
  \A c \in Callers : pc[c] = "wait" /\ channel[waitsOn[c]].open => Awaits(c)

\* Every mutation in the order of eviction has its response, and is there once.
CompletedOnce ==
  /\ \A i \in 1 .. Len(completed) :
       Present(completed[i]) /\ ~InFlightRevision(completed[i])
  /\ \A i, j \in 1 .. Len(completed) : completed[i] = completed[j] => i = j

Held == /\ ReservationTyped /\ ResponsesHeld /\ RevisionsHeld
        /\ RevisionsRunOnce /\ WaitersHeld /\ CompletedOnce

\* An entry that is in flight is typed.
LEMMA RevisionTyped ==
  ASSUME ReservationTyped, NEW m \in Mutations, Present(m)
  PROVE  revisions[m] \in RevisionEntries /\ revisions[m].leader \in Callers
BY DEF ReservationTyped, Present, RevisionEntries

LEMMA NoneIsNobody == None \notin Callers /\ None \notin Outputs /\ None \notin RevisionEntries
BY ServingAssumption

\* The reservations are untouched.
LEMMA HeldStays ==
  ASSUME Requests, Held, NEW c \in Callers, Alone(c),
         UNCHANGED <<inFlight, channel, idempotencyVars>>,
         leads'[c] <=> leads[c], leads[c] => seen'[c] = seen[c],
         \/ pc'[c] # "wait"
         \/ seen'[c] = seen[c] /\ Awaits(c)'
  PROVE  Held'
<1>1. \A e \in Callers : /\ leads'[e] <=> leads[e]
                         /\ Kind(e)' = Kind(e) /\ Mutation(e)' = Mutation(e)
                         /\ Change(e)' = Change(e) /\ (leads[e] => Key(e)' = Key(e))
  BY DEF Alone, Kind, Mutation, Change, Key
<1>2. ReservationTyped' /\ CompletedOnce'
  BY DEF Held, ReservationTyped, CompletedOnce, idempotencyVars, Present, InFlightRevision
<1>3. ResponsesHeld'
  BY <1>1 DEF Held, ResponsesHeld, ReservationTyped
<1>4. \A m \in Mutations : (InFlightRevision(m)' <=> InFlightRevision(m))
                           /\ (Present(m)' <=> Present(m))
  BY DEF InFlightRevision, Present, idempotencyVars
<1>5. RevisionsHeld'
  BY <1>1, <1>4, RevisionTyped DEF Held, RevisionsHeld, InFlightRevision, idempotencyVars
<1>6. RevisionsRunOnce'
  <2> SUFFICES ASSUME NEW e \in Callers, Kind(e)' = "revise", leads'[e]
               PROVE  /\ InFlightRevision(Mutation(e))'
                      /\ (revisions[Mutation(e)].leader = e)'
                      /\ (revisions[Mutation(e)].change = Change(e))'
    BY DEF RevisionsRunOnce
  <2>1. Mutation(e) \in Mutations
    BY <1>1, AsksTyped DEF Requests
  <2> QED BY <1>1, <1>4, <2>1 DEF Held, RevisionsRunOnce, idempotencyVars
<1>7. WaitersHeld'
  <2> SUFFICES ASSUME NEW e \in Callers, pc'[e] = "wait", channel'[waitsOn'[e]].open
               PROVE  Awaits(e)'
    BY DEF WaitersHeld
  <2>1. CASE e = c
    BY <2>1
  <2>2. CASE e # c
    <3>1. Awaits(e) /\ waitsOn'[e] = waitsOn[e] /\ seen'[e] = seen[e]
      BY <2>2 DEF Held, WaitersHeld, Alone
    <3> QED BY <1>1, <3>1 DEF Awaits, Key, Kind, Mutation, InFlightRevision, Present,
                              idempotencyVars, Alone
  <2> QED BY <2>1, <2>2
<1> QED BY <1>2, <1>3, <1>5, <1>6, <1>7 DEF Held

\* Request c reserves, or gives up what it has reserved: the others keep
\* theirs, and whoever waits for c is told.
Reserves(c) ==
  /\ \A k \in CacheKeys :
       \/ inFlight'[k] = None
       \/ inFlight'[k] = inFlight[k] /\ inFlight[k] # c
       \/ inFlight'[k] = c /\ leads'[c] /\ Kind(c) = "search" /\ Key(c) = k
  /\ \A k \in CacheKeys :
       inFlight[k] # None /\ inFlight'[k] # inFlight[k] => ~channel'[inFlight[k]].open
  /\ \A m \in Mutations :
       \/ ~InFlightRevision(m)'
       \/ revisions'[m] = revisions[m] /\ revisions[m].leader # c
       \/ revisions'[m].leader = c /\ leads'[c] /\ Kind(c) = "revise" /\ Mutation(c) = m
  /\ \A m \in Mutations :
       InFlightRevision(m) /\ revisions'[m] # revisions[m] =>
         revisions[m].leader = c /\ ~channel'[c].open
  /\ Kind(c) = "revise" /\ leads'[c] =>
       /\ InFlightRevision(Mutation(c))'
       /\ revisions'[Mutation(c)].leader = c
       /\ revisions'[Mutation(c)].change = Change(c)
  /\ \A e \in Callers : channel'[e].open => channel[e].open

LEMMA HeldMoves ==
  ASSUME Requests, Held, NEW c \in Callers, Alone(c), seen'[c] = seen[c],
         ReservationTyped', CompletedOnce', Reserves(c), pc'[c] # "wait"
  PROVE  Held'
<1>1. \A e \in Callers : /\ Kind(e)' = Kind(e) /\ Mutation(e)' = Mutation(e)
                         /\ Change(e)' = Change(e) /\ Key(e)' = Key(e)
                         /\ (e # c => (leads'[e] <=> leads[e]))
  BY DEF Alone, Kind, Mutation, Change, Key
<1>2. ResponsesHeld'
  <2> SUFFICES ASSUME NEW k \in CacheKeys, inFlight'[k] # None
               PROVE  /\ leads'[inFlight'[k]]
                      /\ (Kind(inFlight[k]) = "search")' /\ (Key(inFlight[k]) = k)'
    BY DEF ResponsesHeld
  <2>1. CASE inFlight'[k] = inFlight[k] /\ inFlight[k] # c
    <3>1. inFlight[k] \in Callers
      BY <2>1 DEF Held, ReservationTyped
    <3> QED BY <1>1, <2>1, <3>1 DEF Held, ResponsesHeld
  <2>2. CASE inFlight'[k] = c /\ leads'[c] /\ Kind(c) = "search" /\ Key(c) = k
    BY <1>1, <2>2
  <2> QED BY <2>1, <2>2 DEF Reserves
<1>3. RevisionsHeld'
  <2> SUFFICES ASSUME NEW m \in Mutations, InFlightRevision(m)'
               PROVE  /\ leads'[revisions'[m].leader]
                      /\ (Kind(revisions[m].leader) = "revise")'
                      /\ (Mutation(revisions[m].leader) = m)'
    BY DEF RevisionsHeld
  <2>1. CASE revisions'[m] = revisions[m] /\ revisions[m].leader # c
    <3>1. InFlightRevision(m) /\ revisions[m].leader \in Callers
      BY <2>1, RevisionTyped DEF InFlightRevision, Present, Held
    <3> QED BY <1>1, <2>1, <3>1 DEF Held, RevisionsHeld
  <2>2. CASE revisions'[m].leader = c /\ leads'[c] /\ Kind(c) = "revise" /\ Mutation(c) = m
    BY <1>1, <2>2
  <2> QED BY <2>1, <2>2 DEF Reserves
<1>4. RevisionsRunOnce'
  <2> SUFFICES ASSUME NEW e \in Callers, Kind(e)' = "revise", leads'[e]
               PROVE  /\ InFlightRevision(Mutation(e))'
                      /\ (revisions[Mutation(e)].leader = e)'
                      /\ (revisions[Mutation(e)].change = Change(e))'
    BY DEF RevisionsRunOnce
  <2>1. Kind(e) = "revise" /\ Mutation(e) \in Mutations
    BY <1>1, AsksTyped DEF Requests
  <2>2. CASE e = c
    BY <1>1, <2>1, <2>2 DEF Reserves, InFlightRevision, Present
  <2>3. CASE e # c
    <3>1. /\ InFlightRevision(Mutation(e)) /\ revisions[Mutation(e)].leader = e
          /\ revisions[Mutation(e)].change = Change(e)
      BY <1>1, <2>1, <2>3 DEF Held, RevisionsRunOnce
    <3>2. revisions'[Mutation(e)] = revisions[Mutation(e)]
      BY <2>1, <2>3, <3>1 DEF Reserves
    <3> QED BY <1>1, <3>1, <3>2 DEF InFlightRevision, Present
  <2> QED BY <2>2, <2>3
<1>5. WaitersHeld'
  <2> SUFFICES ASSUME NEW e \in Callers, pc'[e] = "wait", channel'[waitsOn'[e]].open
               PROVE  Awaits(e)'
    BY DEF WaitersHeld
  <2>1. /\ pc[e] = "wait" /\ waitsOn'[e] = waitsOn[e] /\ waitsOn[e] \in Callers
        /\ Kind(e) \in Leaders
    BY DEF Alone, Requests, Role
  <2>2. channel[waitsOn[e]].open /\ Awaits(e)
    BY <2>1 DEF Reserves, Held, WaitersHeld
  <2>3. CASE Kind(e) = "search"
    <3>1. Key(e) \in CacheKeys /\ inFlight[Key(e)] = waitsOn[e] /\ waitsOn[e] # None
      BY <2>1, <2>2, <2>3, AsksTyped, ServingAssumption DEF Awaits, Requests
    <3>2. inFlight'[Key(e)] = inFlight[Key(e)]
      BY <2>1, <3>1 DEF Reserves
    <3> QED BY <1>1, <2>1, <2>3, <3>1, <3>2 DEF Awaits
  <2>4. CASE Kind(e) # "search"
    <3>1. /\ Mutation(e) \in Mutations /\ InFlightRevision(Mutation(e))
          /\ revisions[Mutation(e)].leader = waitsOn[e]
      BY <2>1, <2>2, <2>4, AsksTyped DEF Awaits, Requests, Leaders
    <3>2. revisions'[Mutation(e)] = revisions[Mutation(e)]
      BY <2>1, <3>1 DEF Reserves
    <3> QED BY <1>1, <2>1, <2>4, <3>1, <3>2 DEF Awaits, InFlightRevision, Present
  <2> QED BY <2>3, <2>4
<1> QED BY <1>2, <1>3, <1>4, <1>5 DEF Held

\* A clear takes the keys from their leaders and tells whoever waits for them.
LEMMA HeldClearing ==
  ASSUME Requests, Held, ClearResponses,
         UNCHANGED <<asks, pc, call, leads, waitsOn, seen, idempotencyVars>>
  PROVE  Held'
<1>1. /\ \A k \in CacheKeys : inFlight'[k] = None
      /\ inFlight' \in [CacheKeys -> Callers \cup {None}]
  BY DEF ClearResponses
<1>2. \A e \in Callers :
        IF e \in {inFlight[k] : k \in Reserved}
          THEN channel'[e] = [open |-> FALSE, sent |-> None] ELSE channel'[e] = channel[e]
  BY DEF ClearResponses, Hang
<1>3. channel' \in [Callers -> [open : BOOLEAN, sent : Outputs \cup {None}]]
  BY DEF ClearResponses, Hang, Held, ReservationTyped
<1>4. ReservationTyped' /\ CompletedOnce'
  BY <1>1, <1>3 DEF Held, ReservationTyped, CompletedOnce, idempotencyVars, Present,
                    InFlightRevision
<1>5. ResponsesHeld'
  BY <1>1 DEF ResponsesHeld
<1>6. RevisionsHeld' /\ RevisionsRunOnce'
  BY DEF Held, RevisionsHeld, RevisionsRunOnce, InFlightRevision, Present, Kind, Mutation,
         Change, idempotencyVars
<1>7. WaitersHeld'
  <2> SUFFICES ASSUME NEW e \in Callers, pc'[e] = "wait", channel'[waitsOn'[e]].open
               PROVE  Awaits(e)'
    BY DEF WaitersHeld
  <2>1. /\ pc[e] = "wait" /\ waitsOn'[e] = waitsOn[e] /\ waitsOn[e] \in Callers
        /\ Kind(e) \in Leaders
    BY DEF Requests, Role
  <2>2. /\ waitsOn[e] \notin {inFlight[k] : k \in Reserved}
        /\ channel[waitsOn[e]].open /\ Awaits(e)
    BY <1>2, <2>1 DEF Held, WaitersHeld
  <2>3. Kind(e) # "search"
    <3> SUFFICES ASSUME Kind(e) = "search" PROVE FALSE
      OBVIOUS
    <3>1. Key(e) \in CacheKeys /\ inFlight[Key(e)] = waitsOn[e] /\ waitsOn[e] # None
      BY <2>1, <2>2, AsksTyped, ServingAssumption DEF Awaits, Requests
    <3> QED BY <2>2, <3>1 DEF Reserved
  <2> QED BY <2>1, <2>2, <2>3 DEF Awaits, Kind, Mutation, InFlightRevision, Present,
                                  idempotencyVars
<1> QED BY <1>4, <1>5, <1>6, <1>7 DEF Held

\* The eviction after a completion drops finished mutations only.
LEMMA EvictionTyped ==
  ASSUME NEW entries \in [Mutations -> RevisionEntries \cup {None}],
         NEW order \in Seq(Mutations), NEW bytes, Evicting(entries, order, bytes),
         \A i \in 1 .. Len(order) :
           entries[order[i]] # None /\ entries[order[i]].response # None,
         \A i, j \in 1 .. Len(order) : order[i] = order[j] => i = j
  PROVE  /\ revisions' \in [Mutations -> RevisionEntries \cup {None}]
         /\ completed' \in Seq(Mutations) /\ CompletedOnce'
         /\ \A m \in Mutations :
              \/ revisions'[m] = entries[m]
              \/ revisions'[m] = None /\ entries[m].response # None
<1>1. PICK n \in 0 .. Len(order) :
        /\ revisions' = [m \in Mutations |->
             IF Contains(SubSeq(order, 1, n), m) THEN None ELSE entries[m]]
        /\ completed' = SubSeq(order, n + 1, Len(order))
  BY DEF Evicting
<1>2. /\ Len(order) \in Nat /\ n \in Nat /\ n <= Len(order)
      /\ \A i \in 1 .. Len(order) : order[i] \in Mutations
  OBVIOUS
<1>3. \A m : Contains(SubSeq(order, 1, n), m) <=> \E i \in 1 .. n : order[i] = m
  <2>1. Len(SubSeq(order, 1, n)) = n /\ \A i \in 1 .. n : SubSeq(order, 1, n)[i] = order[i]
    BY <1>2
  <2> QED BY <2>1 DEF Contains
<1>4. /\ completed' \in Seq(Mutations) /\ Len(completed') = Len(order) - n
      /\ \A i \in 1 .. Len(order) - n : completed'[i] = order[i + n]
  BY <1>1, <1>2
<1>5. revisions' \in [Mutations -> RevisionEntries \cup {None}]
  BY <1>1
<1>6. \A m \in Mutations :
        revisions'[m] = IF \E i \in 1 .. n : order[i] = m THEN None ELSE entries[m]
  BY <1>1, <1>3
<1>7. \A m \in Mutations :
        \/ revisions'[m] = entries[m]
        \/ revisions'[m] = None /\ entries[m].response # None
  BY <1>2, <1>6
<1>8. CompletedOnce'
  <2>1. ASSUME NEW i \in 1 .. Len(completed')
        PROVE  revisions'[completed'[i]] # None /\ revisions'[completed'[i]].response # None
    <3>1. /\ i + n \in 1 .. Len(order) /\ completed'[i] = order[i + n]
          /\ \A j \in 1 .. n : j # i + n /\ j \in 1 .. Len(order)
      BY <1>2, <1>4
    <3>2. ~ \E j \in 1 .. n : order[j] = order[i + n]
      BY <3>1
    <3> QED BY <1>2, <1>6, <3>1, <3>2
  <2>2. ASSUME NEW i \in 1 .. Len(completed'), NEW j \in 1 .. Len(completed'),
               completed'[i] = completed'[j]
        PROVE  i = j
    <3>1. i + n \in 1 .. Len(order) /\ j + n \in 1 .. Len(order)
      BY <1>2, <1>4
    <3> QED BY <1>2, <1>4, <2>2, <3>1
  <2> QED BY <2>1, <2>2 DEF CompletedOnce, Present, InFlightRevision
<1> QED BY <1>4, <1>5, <1>7, <1>8

\* One channel is closed, with or without an answer.
LEMMA ChannelCloses ==
  ASSUME ReservationTyped, NEW c \in Callers, NEW sent \in Outputs,
         Hang({c}) \/ Send(c, sent)
  PROVE  /\ ~channel'[c].open
         /\ \A e \in Callers \ {c} : channel'[e] = channel[e]
         /\ channel' \in [Callers -> [open : BOOLEAN, sent : Outputs \cup {None}]]
<1>1. \A s \in Outputs \cup {None} :
        /\ [open |-> FALSE, sent |-> s] \in [open : BOOLEAN, sent : Outputs \cup {None}]
        /\ ~[open |-> FALSE, sent |-> s].open
  OBVIOUS
<1>2. CASE Hang({c})
  BY <1>1, <1>2 DEF Hang, ReservationTyped
<1>3. CASE Send(c, sent)
  BY <1>1, <1>3 DEF Send, ReservationTyped
<1> QED BY <1>2, <1>3

\* The leader of a search gives up its reservation, or completes it.
LEMMA HeldAfterSearch ==
  ASSUME Requests, Held, NEW c \in Callers, Alone(c), seen'[c] = seen[c],
         Kind(c) = "search", ~leads'[c], pc'[c] = "over", UNCHANGED idempotencyVars,
         DropResponse(c, Key(c))
           \/ CompleteResponse(c, Key(c), Computed(c, asks[c].name))
  PROVE  Held'
<1> DEFINE k == Key(c)
<1>1. /\ k \in CacheKeys /\ Computed(c, asks[c].name) \in Outputs
      /\ \A e \in CacheKeys \ {k} : inFlight[e] # c
      /\ \A m \in Mutations : InFlightRevision(m) => revisions[m].leader # c
  <2>1. k \in CacheKeys /\ Computed(c, asks[c].name) \in Outputs
    BY AsksTyped DEF Requests
  <2> QED BY <2>1, NoneIsNobody DEF Held, ResponsesHeld, RevisionsHeld
<1>2. CASE inFlight[k] = c
  <2>1. /\ inFlight' = [inFlight EXCEPT ![k] = None]
        /\ ~channel'[c].open
        /\ \A e \in Callers \ {c} : channel'[e] = channel[e]
        /\ channel' \in [Callers -> [open : BOOLEAN, sent : Outputs \cup {None}]]
    BY <1>1, <1>2, ChannelCloses DEF DropResponse, CompleteResponse, Held
  <2>2. /\ inFlight'[k] = None
        /\ \A e \in CacheKeys \ {k} : inFlight'[e] = inFlight[e]
    BY <1>1, <2>1 DEF Held, ReservationTyped
  <2>3. ReservationTyped' /\ CompletedOnce'
    BY <2>1 DEF Held, ReservationTyped, CompletedOnce, idempotencyVars, Present, InFlightRevision
  <2>4. Reserves(c)
    BY <1>1, <1>2, <2>1, <2>2 DEF Reserves, idempotencyVars, InFlightRevision, Present
  <2> QED BY <2>3, <2>4, HeldMoves
<1>3. CASE inFlight[k] # c
  <2>1. UNCHANGED <<inFlight, channel>>
    BY <1>3 DEF DropResponse, CompleteResponse, responseVars
  <2>2. ReservationTyped' /\ CompletedOnce'
    BY <2>1 DEF Held, ReservationTyped, CompletedOnce, idempotencyVars, Present, InFlightRevision
  <2>3. Reserves(c)
    BY <1>1, <1>3, <2>1 DEF Reserves, idempotencyVars, InFlightRevision, Present
  <2> QED BY <2>2, <2>3, HeldMoves
<1> QED BY <1>2, <1>3

\* The leader of a revision gives up its reservation, or completes it.
LEMMA HeldAfterRevision ==
  ASSUME Requests, Held, NEW c \in Callers, Alone(c), seen'[c] = seen[c], leads[c],
         Kind(c) = "revise", ~leads'[c], pc'[c] = "over", UNCHANGED inFlight,
         NEW response \in Outputs,
         \/ DropRevision(c, Mutation(c))
         \/ CompleteRevision(c, Mutation(c), response, Weight[Change(c)])
  PROVE  Held'
<1> DEFINE m == Mutation(c)
           weight == Weight[Change(c)]
           done == [revisions[m] EXCEPT !.response = response, !.weight = weight]
<1>1. /\ m \in Mutations /\ response \in Outputs /\ response # None /\ weight \in Nat
      /\ InFlightRevision(m) /\ revisions[m].leader = c
      /\ revisions[m] \in RevisionEntries /\ revisions[m] # None
  <2>1. m \in Mutations /\ Change(c) \in Names
    BY AsksTyped DEF Requests
  <2>2. InFlightRevision(m) /\ revisions[m].leader = c
    BY DEF Held, RevisionsRunOnce
  <2> QED BY <2>1, <2>2, RevisionTyped, ServingAssumption DEF InFlightRevision, Present, Held
<1>2. /\ \A k \in CacheKeys : inFlight[k] # c
      /\ \A e \in Mutations \ {m} : InFlightRevision(e) => revisions[e].leader # c
      /\ \A i \in 1 .. Len(completed) : completed[i] # m
  BY <1>1, ServingAssumption DEF Held, ResponsesHeld, RevisionsHeld, CompletedOnce
<1>3. done \in RevisionEntries /\ done # None /\ done.response = response
  BY <1>1, ServingAssumption DEF RevisionEntries
<1> HIDE DEF m, weight, done
<1>4. SUFFICES /\ revisions' \in [Mutations -> RevisionEntries \cup {None}]
               /\ completed' \in Seq(Mutations) /\ CompletedOnce'
               /\ \A e \in Mutations \ {m} :
                    \/ revisions'[e] = revisions[e]
                    \/ revisions'[e] = None /\ ~InFlightRevision(e)
               /\ revisions'[m] = None \/ revisions'[m].response # None
               /\ Hang({c}) \/ Send(c, response)
  <2>1. /\ ~channel'[c].open
        /\ \A e \in Callers \ {c} : channel'[e] = channel[e]
        /\ channel' \in [Callers -> [open : BOOLEAN, sent : Outputs \cup {None}]]
    BY <1>1, <1>4, ChannelCloses DEF Held
  <2>2. ReservationTyped'
    BY <1>4, <2>1 DEF Held, ReservationTyped
  <2>3. Reserves(c)
    BY <1>1, <1>2, <1>4, <2>1 DEF Reserves, InFlightRevision, Present, Held, ReservationTyped
  <2> QED BY <1>4, <2>2, <2>3, HeldMoves
<1>5. CASE DropRevision(c, m)
  <2>1. /\ revisions' = [revisions EXCEPT ![m] = None] /\ Hang({c})
        /\ UNCHANGED completed
    BY <1>1, <1>5 DEF DropRevision
  <2>2. /\ revisions' \in [Mutations -> RevisionEntries \cup {None}] /\ revisions'[m] = None
        /\ \A e \in Mutations \ {m} : revisions'[e] = revisions[e]
        /\ \A i \in 1 .. Len(completed) : completed[i] \in Mutations \ {m}
    BY <1>1, <1>2, <2>1 DEF Held, ReservationTyped
  <2>3. CompletedOnce'
    BY <2>1, <2>2 DEF Held, CompletedOnce, Present, InFlightRevision
  <2> QED BY <2>1, <2>2, <2>3 DEF Held, ReservationTyped
<1>6. CASE CompleteRevision(c, m, response, weight)
  <2>1. /\ Send(c, response)
        /\ IF weight <= RevisionMaxBytes
             THEN Evicting([revisions EXCEPT ![m] = done], Append(completed, m),
                           completedBytes + weight)
             ELSE Evicting([revisions EXCEPT ![m] = None], completed, completedBytes)
    BY <1>1, <1>6 DEF CompleteRevision, done
  <2>2. CASE weight <= RevisionMaxBytes
    <3> DEFINE entries == [revisions EXCEPT ![m] = done]
               order == Append(completed, m)
    <3>1. /\ entries \in [Mutations -> RevisionEntries \cup {None}]
          /\ entries[m] = done /\ \A e \in Mutations \ {m} : entries[e] = revisions[e]
      BY <1>1, <1>3 DEF Held, ReservationTyped
    <3>2. /\ order \in Seq(Mutations) /\ Len(order) = Len(completed) + 1
          /\ Len(completed) \in Nat /\ order[Len(completed) + 1] = m
          /\ \A i \in 1 .. Len(completed) :
               order[i] = completed[i] /\ completed[i] \in Mutations
      BY <1>1 DEF Held, ReservationTyped
    <3> HIDE DEF entries, order
    <3>3. \A i \in 1 .. Len(order) : entries[order[i]] # None /\ entries[order[i]].response # None
      <4> SUFFICES ASSUME NEW i \in 1 .. Len(order)
                   PROVE  entries[order[i]] # None /\ entries[order[i]].response # None
        OBVIOUS
      <4>1. CASE i = Len(completed) + 1
        BY <1>1, <1>3, <3>1, <3>2, <4>1
      <4>2. CASE i \in 1 .. Len(completed)
        BY <1>2, <3>1, <3>2, <4>2 DEF Held, CompletedOnce, Present, InFlightRevision
      <4> QED BY <3>2, <4>1, <4>2
    <3>4. \A i, j \in 1 .. Len(order) : order[i] = order[j] => i = j
      <4>1. \A i \in 1 .. Len(order) : i = Len(completed) + 1 \/ i \in 1 .. Len(completed)
        BY <3>2
      <4> QED BY <1>2, <3>2, <4>1 DEF Held, CompletedOnce
    <3>5. Evicting(entries, order, completedBytes + weight)
      BY <2>1, <2>2 DEF entries, order
    <3>6. /\ revisions' \in [Mutations -> RevisionEntries \cup {None}]
          /\ completed' \in Seq(Mutations) /\ CompletedOnce'
          /\ \A e \in Mutations :
               \/ revisions'[e] = entries[e]
               \/ revisions'[e] = None /\ entries[e].response # None
      BY <3>1, <3>2, <3>3, <3>4, <3>5, EvictionTyped
    <3> QED BY <1>1, <1>3, <2>1, <3>1, <3>6 DEF InFlightRevision, Present
  <2>3. CASE ~(weight <= RevisionMaxBytes)
    <3> DEFINE entries == [revisions EXCEPT ![m] = None]
    <3>1. /\ entries \in [Mutations -> RevisionEntries \cup {None}]
          /\ entries[m] = None /\ \A e \in Mutations \ {m} : entries[e] = revisions[e]
      BY <1>1 DEF Held, ReservationTyped
    <3> HIDE DEF entries
    <3>2. /\ completed \in Seq(Mutations)
          /\ \A i \in 1 .. Len(completed) : completed[i] \in Mutations
      BY DEF Held, ReservationTyped
    <3>3. /\ \A i \in 1 .. Len(completed) :
               entries[completed[i]] # None /\ entries[completed[i]].response # None
          /\ \A i, j \in 1 .. Len(completed) : completed[i] = completed[j] => i = j
      BY <1>2, <3>1, <3>2 DEF Held, CompletedOnce, Present, InFlightRevision
    <3>4. Evicting(entries, completed, completedBytes)
      BY <2>1, <2>3 DEF entries
    <3>5. /\ revisions' \in [Mutations -> RevisionEntries \cup {None}]
          /\ completed' \in Seq(Mutations) /\ CompletedOnce'
          /\ \A e \in Mutations :
               \/ revisions'[e] = entries[e]
               \/ revisions'[e] = None /\ entries[e].response # None
      BY <3>1, <3>2, <3>3, <3>4, EvictionTyped
    <3> QED BY <1>1, <2>1, <3>1, <3>5 DEF InFlightRevision, Present
  <2> QED BY <2>2, <2>3
<1> QED BY <1>5, <1>6 DEF m, weight

-----------------------------------------------------------------------------
(* Every step. *)

SInv == Requests /\ Held

LEMMA InitHeld == Init => SInv
<1> SUFFICES ASSUME Init PROVE SInv
  OBVIOUS
<1>1. RequestTyped
  BY ServingAssumption DEF Init, RequestTyped, StepsOf
<1>2. \A c \in Callers : Role(c)
  BY DEF Init, Role, Calling
<1>3. ReservationTyped
  BY DEF Init, ResponseInit, RevisionInit, Open, ReservationTyped
<1>4. completed = <<>> /\ Len(completed) = 0
  BY DEF Init, RevisionInit
<1>5. ResponsesHeld /\ RevisionsHeld /\ RevisionsRunOnce /\ WaitersHeld /\ CompletedOnce
  BY <1>4 DEF Init, ResponseInit, RevisionInit, ResponsesHeld, RevisionsHeld, RevisionsRunOnce,
              WaitersHeld, CompletedOnce, InFlightRevision, Present
<1> QED BY <1>1, <1>2, <1>3, <1>5 DEF SInv, Requests, Held

\* A request that gives up leaves its reservation.
LEMMA SInvAborting ==
  ASSUME SInv, NEW c \in Callers, Abort(c)
  PROVE  SInv'
<1>1. End(c, None) /\ DropReservation(c) /\ UNCHANGED <<snapshot, published, loaded>>
  BY DEF Abort, reloadVars
<1>2. /\ Requests' /\ Alone(c) /\ pc'[c] = "over" /\ ~leads'[c] /\ seen'[c] = seen[c]
  BY <1>1, RequestEnds DEF SInv
<1>3. CASE ~leads[c]
  <2>1. UNCHANGED <<inFlight, channel, idempotencyVars>>
    BY <1>1, <1>3 DEF DropReservation, responseVars
  <2> QED BY <1>2, <1>3, <2>1, HeldStays DEF SInv
<1>4. CASE leads[c] /\ Kind(c) = "search"
  BY <1>1, <1>2, <1>4, HeldAfterSearch DEF SInv, DropReservation
<1>5. CASE leads[c] /\ Kind(c) = "revise"
  <2>1. Computed(c, asks[c].name) \in Outputs
    BY AsksTyped DEF SInv, Requests
  <2> QED BY <1>1, <1>2, <1>5, <2>1, HeldAfterRevision DEF SInv, DropReservation, responseVars
<1> QED BY <1>3, <1>4, <1>5 DEF SInv, Requests, Role, Leaders

\* A request without a reservation ends.
LEMMA SInvEnding ==
  ASSUME SInv, NEW c \in Callers, NEW result, End(c, result), ~leads[c],
         UNCHANGED <<inFlight, channel, idempotencyVars, snapshot, published, loaded>>
  PROVE  SInv'
BY RequestEnds, HeldStays DEF SInv

LEMMA SInvArriving ==
  ASSUME SInv, NEW c \in Callers, Arrive(c)
  PROVE  SInv'
<1>1. PICK step \in {"over", "slot", "lookup"}, version \in Versions :
        /\ pc[c] = "new" /\ pc' = [pc EXCEPT ![c] = step]
        /\ seen' = [seen EXCEPT ![c] = version]
        /\ call' = IF step = "slot" THEN [call EXCEPT ![c] = "rebind"] ELSE call
        /\ step = "slot" => Kind(c) = "resume"
        /\ UNCHANGED <<asks, leads, waitsOn, snapshot, published, loaded, inFlight, channel,
                       idempotencyVars>>
  <2>1. seen = [seen EXCEPT ![c] = seen[c]] /\ seen[c] \in Versions /\ snapshot \in Versions
    BY DEF SInv, Requests, RequestTyped
  <2>2. /\ pc[c] = "new"
        /\ UNCHANGED <<asks, leads, waitsOn, snapshot, published, loaded, inFlight, channel,
                       idempotencyVars>>
    BY DEF Arrive, StandsAt, responseVars, revisionVars, reloadVars
  <2>3. CASE pc' = [pc EXCEPT ![c] = "over"] /\ UNCHANGED <<seen, call>>
    BY <2>1, <2>2, <2>3
  <2>4. CASE /\ seen' = [seen EXCEPT ![c] = snapshot] /\ Kind(c) = "resume"
             /\ pc' = [pc EXCEPT ![c] = "slot"] /\ call' = [call EXCEPT ![c] = "rebind"]
    BY <2>1, <2>2, <2>4
  <2>5. CASE /\ seen' = [seen EXCEPT ![c] = snapshot]
             /\ pc' = [pc EXCEPT ![c] = "lookup"] /\ UNCHANGED call
    BY <2>1, <2>2, <2>5
  <2> QED BY <2>3, <2>4, <2>5 DEF Arrive, GoTo, Calls
<1>2. /\ Alone(c) /\ pc'[c] = step /\ leads'[c] = leads[c] /\ ~leads[c]
      /\ call'[c] = IF step = "slot" THEN "rebind" ELSE call[c]
  BY <1>1 DEF SInv, Requests, RequestTyped, Alone, Role, Calling
<1>3. RequestTyped'
  BY <1>1 DEF SInv, Requests, RequestTyped, StepsOf, CallNames
<1>4. Role(c)'
  BY <1>1, <1>2 DEF Role, Kind, Calling, Leaders, Journeys, CallsOf, CallNames
<1>5. Requests'
  BY <1>2, <1>3, <1>4, RequestMoves DEF SInv
<1> QED BY <1>1, <1>2, <1>5, HeldStays DEF SInv

\* A lookup hits, waits or reserves.
LEMMA SInvLookingUp ==
  ASSUME SInv, NEW c \in Callers, LookupResponse(c) \/ LookupRevision(c)
  PROVE  SInv'
<1>1. /\ pc[c] = "lookup" /\ ~leads[c] /\ UNCHANGED <<channel, snapshot, published, loaded>>
      /\ Kind(c) \in Leaders
  BY DEF LookupResponse, LookupRevision, StandsAt, reloadVars, SInv, Requests, Role, Calling,
         Leaders
<1>2. CASE (\E result : End(c, result)) /\ UNCHANGED <<inFlight, idempotencyVars>>
  BY <1>1, <1>2, SInvEnding
<1>3. CASE /\ \E leader \in Callers : Wait(c, leader) /\ waitsOn'[c] = leader
           /\ UNCHANGED <<inFlight, idempotencyVars>>
           /\ Awaits(c)'
  <2>1. PICK leader \in Callers : Wait(c, leader) /\ waitsOn'[c] = leader
    BY <1>3
  <2>2. /\ pc' = [pc EXCEPT ![c] = "wait"] /\ waitsOn' = [waitsOn EXCEPT ![c] = leader]
        /\ UNCHANGED <<asks, call, leads, seen>>
    BY <2>1 DEF Wait, GoTo
  <2>3. /\ Alone(c) /\ pc'[c] = "wait" /\ leads'[c] = leads[c] /\ seen'[c] = seen[c]
    BY <2>2 DEF Alone, SInv, Requests, RequestTyped
  <2>4. RequestTyped'
    BY <1>1, <2>2 DEF SInv, Requests, RequestTyped, StepsOf
  <2>5. Role(c)'
    BY <1>1, <2>1, <2>2, <2>3 DEF Role, Kind, Calling
  <2>6. Requests'
    BY <2>3, <2>4, <2>5, RequestMoves DEF SInv
  <2> QED BY <1>1, <1>3, <2>3, <2>6, HeldStays DEF SInv
<1>4. ASSUME NEW first \in CallsOf(Kind(c)), Lead(c, first)
      PROVE  Requests' /\ Alone(c) /\ pc'[c] = "slot" /\ leads'[c] /\ seen'[c] = seen[c]
  <2>1. /\ pc' = [pc EXCEPT ![c] = "slot"] /\ call' = [call EXCEPT ![c] = first]
        /\ leads' = [leads EXCEPT ![c] = TRUE] /\ UNCHANGED <<asks, waitsOn, seen>>
    BY <1>4 DEF Lead, Calls, GoTo
  <2>2. /\ Alone(c) /\ pc'[c] = "slot" /\ leads'[c] /\ seen'[c] = seen[c] /\ call'[c] = first
    BY <2>1 DEF Alone, SInv, Requests, RequestTyped
  <2>3. RequestTyped'
    BY <1>1, <2>1 DEF SInv, Requests, RequestTyped, StepsOf, CallsOf
  <2>4. Role(c)'
    BY <1>1, <2>1, <2>2 DEF Role, Kind, Calling
  <2> QED BY <2>2, <2>3, <2>4, RequestMoves DEF SInv
<1>5. CASE LookupResponse(c)
  <2> DEFINE k == Key(c)
  <2>1. Kind(c) = "search" /\ k \in CacheKeys /\ UNCHANGED idempotencyVars
    BY <1>5, AsksTyped DEF LookupResponse, SInv, Requests, revisionVars
  <2>2. CASE HitResponse(k) /\ End(c, EntryOf(responses, k).output)
    BY <1>2, <2>1, <2>2 DEF HitResponse
  <2>3. CASE inFlight[k] # None /\ Wait(c, inFlight[k]) /\ UNCHANGED responseVars
    <3>1. inFlight[k] \in Callers /\ waitsOn'[c] = inFlight[k] /\ UNCHANGED <<asks, seen>>
      BY <2>1, <2>3 DEF Wait, SInv, Held, ReservationTyped, Requests, RequestTyped
    <3>2. Awaits(c)'
      BY <2>1, <2>3, <3>1 DEF Awaits, Kind, Key, responseVars
    <3> QED BY <1>3, <2>1, <2>3, <3>1, <3>2 DEF responseVars
  <2>4. CASE Missing(k) /\ End(c, None) /\ UNCHANGED responseVars
    BY <1>2, <2>1, <2>4 DEF responseVars
  <2>5. CASE Missing(k) /\ ReserveResponse(c, k) /\ Lead(c, "query")
    <3>1. "query" \in CallsOf(Kind(c))
      BY <2>1 DEF CallsOf, CallNames
    <3>2. Requests' /\ Alone(c) /\ pc'[c] = "slot" /\ leads'[c] /\ seen'[c] = seen[c]
      BY <1>4, <2>5, <3>1
    <3>3. /\ inFlight[k] = None /\ inFlight' = [inFlight EXCEPT ![k] = c]
          /\ inFlight'[k] = c /\ \A e \in CacheKeys \ {k} : inFlight'[e] = inFlight[e]
          /\ \A e \in CacheKeys : inFlight[e] # c
          /\ \A m \in Mutations : InFlightRevision(m) => revisions[m].leader # c
      BY <1>1, <2>1, <2>5, ServingAssumption
         DEF Missing, ReserveResponse, SInv, Held, ReservationTyped, ResponsesHeld, RevisionsHeld
    <3>4. ReservationTyped' /\ CompletedOnce'
      BY <1>1, <2>1, <3>3 DEF SInv, Held, ReservationTyped, CompletedOnce, idempotencyVars,
                              Present, InFlightRevision
    <3>5. Reserves(c)
      BY <1>1, <2>1, <3>2, <3>3 DEF Reserves, idempotencyVars, InFlightRevision, Present
    <3> QED BY <3>2, <3>4, <3>5, HeldMoves DEF SInv
  <2> QED BY <1>5, <2>2, <2>3, <2>4, <2>5 DEF LookupResponse
<1>6. CASE LookupRevision(c)
  <2> DEFINE m == Mutation(c)
  <2>1. /\ Kind(c) = "revise" /\ m \in Mutations /\ Change(c) \in Names
        /\ UNCHANGED inFlight
    BY <1>6, AsksTyped DEF LookupRevision, SInv, Requests, responseVars
  <2>2. CASE (\E result : End(c, result)) /\ UNCHANGED idempotencyVars
    BY <1>2, <2>1, <2>2
  <2>3. CASE /\ InFlightRevision(m) /\ Wait(c, revisions[m].leader)
             /\ UNCHANGED idempotencyVars
    <3>1. /\ revisions[m].leader \in Callers /\ waitsOn'[c] = revisions[m].leader
          /\ UNCHANGED <<asks, seen>>
      BY <2>1, <2>3, RevisionTyped DEF Wait, SInv, Held, Requests, RequestTyped,
                                       InFlightRevision
    <3>2. Awaits(c)'
      BY <2>1, <2>3, <3>1 DEF Awaits, Kind, Mutation, InFlightRevision, Present,
                              idempotencyVars
    <3> QED BY <1>3, <2>1, <2>3, <3>1, <3>2
  <2>4. CASE Vacant(m) /\ ReserveRevision(c, m, Change(c)) /\ Lead(c, "rebind")
    <3>1. "rebind" \in CallsOf(Kind(c))
      BY <2>1 DEF CallsOf, CallNames
    <3>2. Requests' /\ Alone(c) /\ pc'[c] = "slot" /\ leads'[c] /\ seen'[c] = seen[c]
      BY <1>4, <2>4, <3>1
    <3> DEFINE entry == Leading(c, Change(c))
    <3>3. /\ entry \in RevisionEntries /\ entry # None /\ entry.response = None
          /\ entry.leader = c /\ entry.change = Change(c)
      BY <2>1, ServingAssumption DEF Leading, RevisionEntries
    <3>4. /\ revisions[m] = None /\ revisions' = [revisions EXCEPT ![m] = entry]
          /\ UNCHANGED completed
      BY <2>4 DEF Vacant, Present, ReserveRevision
    <3> HIDE DEF entry
    <3>5. /\ revisions'[m] = entry
          /\ \A e \in Mutations \ {m} : revisions'[e] = revisions[e]
          /\ revisions' \in [Mutations -> RevisionEntries \cup {None}]
      BY <2>1, <3>3, <3>4 DEF SInv, Held, ReservationTyped
    <3>6. /\ \A e \in CacheKeys : inFlight[e] # c
          /\ \A e \in Mutations : InFlightRevision(e) => revisions[e].leader # c
          /\ \A i \in 1 .. Len(completed) : completed[i] # m /\ completed[i] \in Mutations
      <4>1. \A i \in 1 .. Len(completed) : completed[i] # m /\ completed[i] \in Mutations
        BY <3>4 DEF SInv, Held, ReservationTyped, CompletedOnce, Present
      <4> QED BY <1>1, <4>1, NoneIsNobody DEF SInv, Held, ResponsesHeld, RevisionsHeld
    <3>7. ReservationTyped'
      BY <1>1, <2>1, <3>4, <3>5 DEF SInv, Held, ReservationTyped
    <3>8. CompletedOnce'
      BY <3>4, <3>5, <3>6 DEF SInv, Held, CompletedOnce, Present, InFlightRevision
    <3>9. Reserves(c)
      <4>1. \A e \in Mutations :
              \/ e = m /\ revisions'[e].leader = c
              \/ revisions'[e] = revisions[e] /\ (InFlightRevision(e) => revisions[e].leader # c)
        BY <3>3, <3>5, <3>6
      <4>2. \A e \in Mutations :
              InFlightRevision(e) => e # m /\ revisions'[e] = revisions[e]
        BY <3>4, <3>5 DEF InFlightRevision, Present
      <4>3. \A e \in Mutations :
              \/ ~InFlightRevision(e)'
              \/ revisions'[e] = revisions[e] /\ revisions[e].leader # c
              \/ revisions'[e].leader = c /\ leads'[c] /\ Kind(c) = "revise" /\ m = e
        BY <2>1, <3>2, <4>1 DEF InFlightRevision, Present
      <4>4. InFlightRevision(m)' /\ revisions'[m].leader = c /\ revisions'[m].change = Change(c)
        BY <3>2, <3>3, <3>5 DEF InFlightRevision, Present, Mutation, Alone
      <4>5. /\ \A k \in CacheKeys : inFlight'[k] = inFlight[k] /\ inFlight[k] # c
            /\ \A e \in Callers : channel'[e] = channel[e]
        BY <1>1, <2>1, <3>6
      <4> HIDE DEF m
      <4> QED BY <2>1, <4>2, <4>3, <4>4, <4>5 DEF Reserves, m
    <3> QED BY <3>2, <3>7, <3>8, <3>9, HeldMoves DEF SInv
  <2> QED BY <1>6, <2>2, <2>3, <2>4 DEF LookupRevision
<1> QED BY <1>5, <1>6

\* The steps of a computation, and its end.
LEMMA SInvComputing ==
  ASSUME SInv, HeldTyped, NEW c \in Callers,
         \/ StartTask(c) \/ EndTask(c) \/ CompleteSearch(c)
         \/ LookupPlan(c) \/ NextCall(c) \/ AnswerJourney(c)
  PROVE  SInv'
<1>1. Role(c) /\ call[c] = call[c] /\ call = [call EXCEPT ![c] = call[c]]
  BY DEF SInv, Requests, RequestTyped
<1>2. ASSUME NEW step \in Calling, NEW next \in CallsOf(Kind(c)), pc[c] \in Calling,
             step \in {"plan", "decide"} => Kind(c) \in Journeys,
             step = "plan" => next \in {"parent", "candidate"},
             pc' = [pc EXCEPT ![c] = step], call' = [call EXCEPT ![c] = next],
             UNCHANGED <<asks, leads, waitsOn, seen, snapshot, published, loaded>>,
             UNCHANGED <<inFlight, channel, idempotencyVars>>
      PROVE  SInv'
  <2>1. Requests' /\ Alone(c) /\ pc'[c] = step /\ seen'[c] = seen[c]
    BY <1>2, RequestGoesOn DEF SInv
  <2>2. step # "wait"
    BY DEF Calling
  <2> QED BY <1>2, <2>1, <2>2, HeldStays DEF SInv
<1>3. CASE StartTask(c)
  <2>1. /\ pc[c] = "slot" /\ pc' = [pc EXCEPT ![c] = "task"]
        /\ UNCHANGED <<call, asks, leads, waitsOn, seen, snapshot, published, loaded>>
        /\ UNCHANGED <<inFlight, channel, idempotencyVars>>
    BY <1>3 DEF StartTask, StandsAt, GoTo, responseVars, revisionVars, reloadVars
  <2> QED BY <1>1, <1>2, <2>1 DEF Role, Calling
<1>4. CASE EndTask(c)
  <2>1. /\ UNCHANGED <<call, asks, leads, waitsOn, seen, snapshot, published, loaded>>
        /\ UNCHANGED <<inFlight, channel, idempotencyVars>>
    BY <1>4 DEF EndTask, responseVars, revisionVars, reloadVars
  <2>2. CASE pc[c] = "task" /\ pc' = [pc EXCEPT ![c] = "called"]
    BY <1>1, <1>2, <2>1, <2>2 DEF Role, Calling
  <2>3. CASE UNCHANGED pc
    <3>1. Requests' /\ Alone(c) /\ pc'[c] = pc[c] /\ seen'[c] = seen[c]
      BY <2>1, <2>3 DEF SInv, Requests, RequestTyped, Role, Kind, Alone
    <3>2. UNCHANGED <<asks, pc, call, leads, waitsOn, seen, inFlight, channel,
                      idempotencyVars>>
      BY <2>1, <2>3
    <3>3. Held'
      BY <3>2 DEF SInv, Held, ReservationTyped, ResponsesHeld, RevisionsHeld, RevisionsRunOnce,
                  WaitersHeld, CompletedOnce, Awaits, InFlightRevision, Present, Kind, Key,
                  Mutation, Change, idempotencyVars
    <3> QED BY <3>1, <3>3 DEF SInv
  <2> QED BY <1>4, <2>2, <2>3 DEF EndTask, StandsAt, GoTo
<1>5. CASE CompleteSearch(c)
  <2>1. /\ pc[c] = "called" /\ call[c] = "query"
        /\ End(c, Computed(c, asks[c].name))
        /\ CompleteResponse(c, Key(c), Computed(c, asks[c].name))
        /\ UNCHANGED idempotencyVars /\ UNCHANGED <<snapshot, published, loaded>>
    BY <1>5 DEF CompleteSearch, StandsAt, revisionVars, reloadVars
  <2>2. Requests' /\ Alone(c) /\ pc'[c] = "over" /\ ~leads'[c] /\ seen'[c] = seen[c]
    BY <2>1, RequestEnds DEF SInv
  <2>3. Kind(c) \in Kinds
    BY AsksTyped DEF SInv, Requests
  <2>4. CASE Kind(c) = "search"
    BY <2>1, <2>2, <2>4, HeldAfterSearch DEF SInv
  <2>5. CASE Kind(c) # "search"
    <3>1. ~leads[c]
      BY <1>1, <2>1, <2>5 DEF Role, Calling, CallsOf, Leaders
    <3>2. Key(c) \in CacheKeys => inFlight[Key(c)] # c
      BY <3>1, ServingAssumption DEF SInv, Held, ResponsesHeld
    <3>3. ~(Kind(c) \in {"revise", "resume", "listing"})
      BY <1>1, <2>1 DEF Role, Calling, CallsOf
    <3>4. Kind(c) \in {"recommend", "nothing"}
      BY <2>3, <2>5, <3>3 DEF Kinds
    <3>5. pc[c] \notin Calling
      BY <1>1, <3>4 DEF Role, CallsOf
    <3> QED BY <2>1, <3>5 DEF Calling
  <2> QED BY <2>4, <2>5
<1>6. CASE LookupPlan(c)
  <2>1. /\ pc[c] = "plan"
        /\ pc' = [pc EXCEPT ![c] = "decide"] \/ pc' = [pc EXCEPT ![c] = "slot"]
        /\ UNCHANGED <<call, asks, leads, waitsOn, seen, snapshot, published, loaded>>
        /\ UNCHANGED <<inFlight, channel, idempotencyVars>>
    BY <1>6 DEF LookupPlan, StandsAt, GoTo, responseVars, reloadVars
  <2> QED BY <1>1, <1>2, <2>1 DEF Role, Calling
<1>7. CASE NextCall(c) \/ AnswerJourney(c)
  <2>1. /\ pc[c] \in {"decide", "called"}
        /\ pc[c] = "called" => call[c] \notin {"query", "list"}
    BY <1>7 DEF NextCall, AnswerJourney, Decides, StandsAt
  <2>2. Kind(c) \in Journeys /\ call[c] \in CallsOf(Kind(c))
    <3>1. Kind(c) \in Kinds
      BY AsksTyped DEF SInv, Requests
    <3>2. call[c] \in CallsOf(Kind(c)) /\ (pc[c] = "decide" => Kind(c) \in Journeys)
      BY <1>1, <2>1 DEF Role, Calling
    <3> QED BY <2>1, <3>1, <3>2 DEF CallsOf, Kinds, Journeys
  <2>3. CASE NextCall(c)
    <3>1. PICK next \in After(c)[call[c]] \ {"answer"} :
            /\ call' = [call EXCEPT ![c] = next]
            /\ pc' = [pc EXCEPT ![c] = IF next \in {"parent", "candidate"} THEN "plan" ELSE "slot"]
            /\ UNCHANGED <<asks, leads, waitsOn, seen, snapshot, published, loaded>>
            /\ UNCHANGED <<inFlight, channel, idempotencyVars>>
      BY <2>3 DEF NextCall, GoTo, responseVars, reloadVars
    <3>2. next \in CallsOf(Kind(c))
      <4>1. CASE Kind(c) = "resume"
        BY <2>2, <4>1 DEF After, CallsOf, CallNames
      <4>2. CASE Kind(c) = "revise"
        BY <2>2, <4>2 DEF After, CallsOf, CallNames
      <4> QED BY <2>2, <4>1, <4>2 DEF Journeys
    <3> DEFINE step == IF next \in {"parent", "candidate"} THEN "plan" ELSE "slot"
    <3>3. step \in Calling
      BY DEF Calling
    <3> QED BY <1>2, <2>1, <2>2, <3>1, <3>2, <3>3 DEF Calling
  <2>4. CASE AnswerJourney(c)
    <3>1. PICK envelope \in Envelopes(c) :
            /\ End(c, envelope)
            /\ UNCHANGED <<inFlight, snapshot, published, loaded>>
            /\ IF Kind(c) = "revise"
                 THEN CompleteRevision(c, Mutation(c), envelope, Weight[Change(c)])
                 ELSE UNCHANGED <<idempotencyVars, channel>>
      BY <2>4 DEF AnswerJourney, responseVars, reloadVars
    <3>2. Requests' /\ Alone(c) /\ pc'[c] = "over" /\ ~leads'[c] /\ seen'[c] = seen[c]
      BY <3>1, RequestEnds DEF SInv
    <3>3. CASE Kind(c) = "revise"
      <4>1. leads[c]
        BY <1>1, <2>1, <3>3 DEF Role, Calling, Leaders
      <4>2. envelope \in Outputs
        BY GivenTyped DEF SInv
      <4> QED BY <3>1, <3>2, <3>3, <4>1, <4>2, HeldAfterRevision DEF SInv
    <3>4. CASE Kind(c) # "revise"
      <4>1. ~leads[c]
        BY <1>1, <2>2, <3>4 DEF Role, Leaders, Journeys
      <4> QED BY <3>1, <3>2, <3>4, <4>1, HeldStays DEF SInv
    <3> QED BY <3>3, <3>4
  <2> QED BY <1>7, <2>3, <2>4
<1> QED BY <1>3, <1>4, <1>5, <1>6, <1>7

LEMMA SInvWaking ==
  ASSUME SInv, NEW c \in Callers, Wake(c)
  PROVE  SInv'
<1>1. /\ pc[c] = "wait" /\ ~leads[c] /\ Kind(c) \in Leaders
      /\ UNCHANGED <<inFlight, channel, idempotencyVars, snapshot, published, loaded>>
  BY DEF Wake, StandsAt, SInv, Requests, Role, Calling, responseVars, revisionVars, reloadVars
<1>2. CASE \E result : End(c, result)
  BY <1>1, <1>2, SInvEnding
<1>3. CASE /\ pc' = [pc EXCEPT ![c] = "lookup"] /\ waitsOn' = [waitsOn EXCEPT ![c] = None]
           /\ UNCHANGED <<asks, call, leads, seen>>
  <2>1. /\ Alone(c) /\ pc'[c] = "lookup" /\ leads'[c] = leads[c] /\ seen'[c] = seen[c]
    BY <1>3 DEF Alone, SInv, Requests, RequestTyped
  <2>2. RequestTyped'
    BY <1>1, <1>3 DEF SInv, Requests, RequestTyped, StepsOf
  <2>3. Role(c)'
    BY <1>1, <2>1 DEF Role, Calling
  <2>4. Requests'
    BY <2>1, <2>2, <2>3, RequestMoves DEF SInv
  <2> QED BY <1>1, <2>1, <2>4, HeldStays DEF SInv
<1> QED BY <1>2, <1>3 DEF Wake, GoTo

\* Listings and recommendations reserve nothing.
LEMMA SInvListing ==
  ASSUME SInv, NEW c \in Callers,
         \/ LookupListing(c) \/ KeepListing(c)
         \/ LookupRecommendation(c) \/ KeepRecommendation(c)
  PROVE  SInv'
<1>1. /\ Kind(c) \in Kinds /\ Role(c)
      /\ UNCHANGED <<inFlight, channel, idempotencyVars, snapshot, published, loaded>>
  BY AsksTyped DEF SInv, Requests, LookupListing, KeepListing, LookupRecommendation,
                   KeepRecommendation, responseVars, revisionVars, reloadVars
<1>2. ~leads[c] /\ (pc[c] = "lookup" => Kind(c) \in {"listing", "recommend"})
  BY <1>1 DEF Role, LookupListing, KeepListing, LookupRecommendation, KeepRecommendation,
              StandsAt, Calling, Leaders, CallsOf
<1>3. CASE \E result : End(c, result)
  BY <1>1, <1>2, <1>3, SInvEnding
<1>4. ASSUME NEW step \in {"slot", "build"}, NEW next \in CallNames \cup {None},
             pc' = [pc EXCEPT ![c] = step], call' = [call EXCEPT ![c] = next],
             step = "slot" => Kind(c) = "listing" /\ next = "list",
             step = "build" => Kind(c) = "recommend",
             UNCHANGED <<asks, leads, waitsOn, seen>>
      PROVE  SInv'
  <2>1. /\ Alone(c) /\ pc'[c] = step /\ leads'[c] = leads[c] /\ seen'[c] = seen[c]
        /\ call'[c] = next
    BY <1>4 DEF Alone, SInv, Requests, RequestTyped
  <2>2. RequestTyped'
    BY <1>1, <1>4 DEF SInv, Requests, RequestTyped, StepsOf
  <2>3. Role(c)'
    BY <1>2, <1>4, <2>1 DEF Role, Calling, Kind, Leaders, Journeys, CallsOf, CallNames
  <2>4. Requests'
    BY <2>1, <2>2, <2>3, RequestMoves DEF SInv
  <2> QED BY <1>1, <1>2, <2>1, <2>4, HeldStays DEF SInv
<1>5. CASE LookupListing(c)
  <2>1. CASE /\ pc' = [pc EXCEPT ![c] = "slot"] /\ call' = [call EXCEPT ![c] = "list"]
             /\ UNCHANGED <<leads, waitsOn, asks, seen>>
    <3>1. Kind(c) = "listing" /\ "list" \in CallNames
      BY <1>5 DEF LookupListing, CallNames
    <3> QED BY <1>4, <2>1, <3>1
  <2> QED BY <1>3, <1>5, <2>1 DEF LookupListing, Calls, GoTo
<1>6. CASE LookupRecommendation(c)
  <2>1. CASE pc' = [pc EXCEPT ![c] = "build"] /\ UNCHANGED <<call, leads, waitsOn, asks, seen>>
    <3>1. Kind(c) = "recommend" /\ call' = [call EXCEPT ![c] = call[c]]
          /\ call[c] \in CallNames \cup {None}
      BY <1>6, <2>1 DEF LookupRecommendation, SInv, Requests, RequestTyped
    <3> QED BY <1>4, <2>1, <3>1
  <2> QED BY <1>3, <1>6, <2>1 DEF LookupRecommendation, GoTo
<1>7. CASE KeepListing(c) \/ KeepRecommendation(c)
  BY <1>3, <1>7 DEF KeepListing, KeepRecommendation
<1> QED BY <1>5, <1>6, <1>7

LEMMA SInvReloading ==
  ASSUME SInv, NEW a \in Reloads, Load(a) \/ ReloadStep(a) \/ AbandonReload(a)
  PROVE  SInv'
<1>1. /\ UNCHANGED <<asks, pc, call, leads, waitsOn, seen, idempotencyVars>>
      /\ UNCHANGED <<inFlight, channel>> \/ ClearResponses
  BY DEF Load, ReloadStep, AbandonReload, ClearRecommendations, ClearListing, ClearSearches,
         StoreSnapshot, requestVars, responseVars, revisionVars
<1>2. snapshot' \in Versions /\ published' \in Versions /\ loaded' \in [Reloads -> Versions]
  BY DEF Load, ReloadStep, AbandonReload, ClearRecommendations, ClearListing, ClearSearches,
         StoreSnapshot, SInv, Requests, RequestTyped, reloadVars
<1>3. Requests'
  BY <1>1, <1>2 DEF SInv, Requests, RequestTyped, Role, Kind
<1>4. CASE ClearResponses
  BY <1>1, <1>3, <1>4, HeldClearing DEF SInv
<1>5. CASE UNCHANGED <<inFlight, channel>>
  <2>1. Held'
    BY <1>1, <1>5 DEF SInv, Held, ReservationTyped, ResponsesHeld, RevisionsHeld,
                RevisionsRunOnce, WaitersHeld, CompletedOnce, Awaits, InFlightRevision, Present,
                Kind, Key, Mutation, Change, idempotencyVars
  <2> QED BY <1>3, <2>1 DEF SInv
<1> QED BY <1>1, <1>4, <1>5

LEMMA SInvStep == SInv /\ HeldTyped /\ [Next]_vars => SInv'
<1> SUFFICES ASSUME SInv, HeldTyped, [Next]_vars PROVE SInv'
  OBVIOUS
<1>1. CASE UNCHANGED vars
  <2>1. /\ UNCHANGED <<asks, pc, call, leads, waitsOn, seen, inFlight, channel>>
        /\ UNCHANGED <<revisions, completed, snapshot, published, loaded>>
    BY <1>1 DEF vars, requestVars, responseVars, revisionVars, idempotencyVars, reloadVars
  <2>2. Requests'
    BY <2>1 DEF SInv, Requests, RequestTyped, Role, Kind
  <2>3. Held'
    BY <2>1 DEF SInv, Held, ReservationTyped, ResponsesHeld, RevisionsHeld, RevisionsRunOnce,
                WaitersHeld, CompletedOnce, Awaits, InFlightRevision, Present, Kind, Key,
                Mutation, Change
  <2> QED BY <2>2, <2>3 DEF SInv
<1>2. ASSUME NEW c \in Callers, Arrive(c) \/ RequestStep(c) \/ EndTask(c) \/ Cancel(c)
      PROVE  SInv'
  BY <1>2, SInvArriving, SInvLookingUp, SInvWaking, SInvComputing, SInvListing, SInvAborting
     DEF RequestStep, QueueTimeout, FailCall, Cancel
<1>3. ASSUME NEW a \in Reloads, Load(a) \/ ReloadStep(a) \/ AbandonReload(a)
      PROVE  SInv'
  BY <1>3, SInvReloading
<1> QED BY <1>1, <1>2, <1>3 DEF Next

-----------------------------------------------------------------------------
(* Admission. *)

Searches == {d \in Callers : IsSearch(d) /\ Live(d)}
AdmissionHolds == Cardinality(Searches) <= SearchSlots

\* Only an arrival adds a live search.
LEMMA OnlyArrivalsAdd ==
  ASSUME SInv, [Next]_vars, \A c \in Callers : ~Arrive(c)
  PROVE  Searches' \subseteq Searches
<1>1. UNCHANGED asks
  BY DEF Next, RequestStep, LookupResponse, LookupRevision, Wake, StartTask, EndTask, Cancel,
         QueueTimeout, FailCall, Abort, CompleteSearch, LookupPlan, NextCall, AnswerJourney,
         LookupListing, KeepListing, LookupRecommendation, KeepRecommendation, End, Lead, Wait,
         Load, ReloadStep, AbandonReload, ClearRecommendations, ClearListing, ClearSearches,
         StoreSnapshot, vars
<1>2. ASSUME NEW d \in Callers, pc[d] \in {"new", "over"}
      PROVE  pc'[d] \in {"new", "over"}
  <2>1. CASE UNCHANGED vars
    BY <1>2, <2>1 DEF vars, requestVars
  <2>2. ASSUME NEW c \in Callers, RequestStep(c) \/ EndTask(c) \/ Cancel(c)
        PROVE  pc'[d] \in {"new", "over"}
    <3>1. \/ UNCHANGED pc
          \/ \E step \in StepsOf : pc' = [pc EXCEPT ![c] = step] /\ pc[c] \notin {"new", "over"}
      <4>1. CASE LookupResponse(c) \/ LookupRevision(c) \/ Wake(c) \/ StartTask(c) \/ EndTask(c)
        BY <4>1 DEF LookupResponse, LookupRevision, Wake, StartTask, EndTask, StandsAt, GoTo,
                    End, Lead, Wait, Calls, StepsOf
      <4>2. CASE QueueTimeout(c) \/ FailCall(c) \/ Cancel(c)
        BY <4>2 DEF QueueTimeout, FailCall, Cancel, Abort, End, StandsAt, GoTo, StepsOf
      <4>3. CASE CompleteSearch(c) \/ LookupPlan(c) \/ NextCall(c) \/ AnswerJourney(c)
        BY <4>3 DEF CompleteSearch, LookupPlan, NextCall, AnswerJourney, Decides, End, StandsAt,
                    GoTo, StepsOf
      <4>4. CASE \/ LookupListing(c) \/ KeepListing(c)
                 \/ LookupRecommendation(c) \/ KeepRecommendation(c)
        BY <4>4 DEF LookupListing, KeepListing, LookupRecommendation, KeepRecommendation, End,
                    Calls, StandsAt, GoTo, StepsOf
      <4> QED BY <2>2, <4>1, <4>2, <4>3, <4>4 DEF RequestStep
    <3> QED BY <1>2, <3>1 DEF SInv, Requests, RequestTyped
  <2>3. ASSUME NEW a \in Reloads, Load(a) \/ ReloadStep(a) \/ AbandonReload(a)
        PROVE  pc'[d] \in {"new", "over"}
    BY <1>2, <2>3 DEF Load, ReloadStep, AbandonReload, ClearRecommendations, ClearListing,
                      ClearSearches, StoreSnapshot, requestVars
  <2> QED BY <2>1, <2>2, <2>3 DEF Next
<1> QED BY <1>1, <1>2 DEF Searches, IsSearch, Kind, Live

LEMMA InitAdmission == Init => AdmissionHolds
<1> SUFFICES ASSUME Init PROVE AdmissionHolds
  OBVIOUS
<1>1. Searches = {}
  BY DEF Init, Searches, Live
<1> QED BY <1>1, FS_EmptySet, ServingAssumption DEF AdmissionHolds

LEMMA AdmissionStep == SInv /\ AdmissionHolds /\ [Next]_vars => AdmissionHolds'
<1> SUFFICES ASSUME SInv, AdmissionHolds, [Next]_vars PROVE AdmissionHolds'
  OBVIOUS
<1>1. IsFiniteSet(Searches) /\ Cardinality(Searches) \in Nat /\ SearchSlots \in Nat
  BY ServingAssumption, FS_Subset, FS_CardinalityType DEF Searches
<1>2. CASE Searches' \subseteq Searches
  <2>1. Cardinality(Searches') <= Cardinality(Searches) /\ Cardinality(Searches') \in Nat
    BY <1>1, <1>2, FS_Subset, FS_CardinalityType
  <2> QED BY <1>1, <2>1 DEF AdmissionHolds
<1>3. ASSUME NEW c \in Callers, Arrive(c)
      PROVE  AdmissionHolds'
  <2>1. UNCHANGED asks /\ \E step : pc' = [pc EXCEPT ![c] = step]
    BY <1>3 DEF Arrive, GoTo, Calls
  <2>2. Searches' \subseteq Searches \cup {c}
    BY <2>1 DEF Searches, IsSearch, Kind, Live, SInv, Requests, RequestTyped
  <2>3. CASE IsSearch(c) /\ Cardinality(Searches) < SearchSlots
    <3>1. /\ IsFiniteSet(Searches \cup {c})
          /\ Cardinality(Searches \cup {c}) <= Cardinality(Searches) + 1
      BY <1>1, FS_AddElement
    <3>2. /\ Cardinality(Searches') <= Cardinality(Searches \cup {c})
          /\ Cardinality(Searches') \in Nat /\ Cardinality(Searches \cup {c}) \in Nat
      BY <2>2, <3>1, FS_Subset, FS_CardinalityType
    <3> QED BY <1>1, <2>3, <3>1, <3>2 DEF AdmissionHolds
  <2>4. CASE IsSearch(c) /\ ~(Cardinality(Searches) < SearchSlots)
    <3>1. pc' = [pc EXCEPT ![c] = "over"]
      BY <1>1, <1>3, <2>4 DEF Arrive, GoTo, Searches
    <3>2. Searches' \subseteq Searches
      BY <2>1, <3>1 DEF Searches, IsSearch, Kind, Live, SInv, Requests, RequestTyped
    <3> QED BY <1>2, <3>2
  <2>5. CASE ~IsSearch(c)
    <3>1. Searches' \subseteq Searches
      BY <2>1, <2>2, <2>5 DEF Searches, IsSearch, Kind
    <3> QED BY <1>2, <3>1
  <2> QED BY <2>3, <2>4, <2>5
<1> QED BY <1>2, <1>3, OnlyArrivalsAdd

\* The leaders of the reserved keys are as many live searches.
LEMMA ReservedAreLed ==
  ASSUME SInv, AdmissionHolds, NEW c \in Callers, Kind(c) = "search", pc[c] = "lookup"
  PROVE  ~InFlightIsFull
<1> DEFINE others == Searches \ {c}
           leaderOf == [k \in Reserved |-> inFlight[k]]
<1>1. c \in Searches /\ ~leads[c]
  BY DEF Searches, IsSearch, Live, SInv, Requests, Role, Calling
<1>2. IsFiniteSet(Searches) /\ Cardinality(Searches) \in Nat /\ SearchSlots \in Nat
  BY ServingAssumption, FS_Subset, FS_CardinalityType DEF Searches
<1>3. /\ IsFiniteSet(others) /\ Cardinality(others) = Cardinality(Searches) - 1
  BY <1>1, <1>2, FS_RemoveElement
<1>4. ASSUME NEW k \in Reserved
      PROVE  inFlight[k] \in others /\ Key(inFlight[k]) = k
  <2>1. /\ k \in CacheKeys /\ inFlight[k] \in Callers /\ leads[inFlight[k]]
        /\ Kind(inFlight[k]) = "search" /\ Key(inFlight[k]) = k
    BY DEF Reserved, SInv, Held, ReservationTyped, ResponsesHeld
  <2>2. pc[inFlight[k]] \in Calling
    BY <2>1 DEF SInv, Requests, Role
  <2> QED BY <1>1, <2>1, <2>2 DEF Searches, IsSearch, Live, Calling
<1>5. leaderOf \in Injection(Reserved, others)
  <2>1. leaderOf \in [Reserved -> others]
    BY <1>4
  <2>2. \A j, k \in Reserved : leaderOf[j] = leaderOf[k] => j = k
    BY <1>4
  <2> QED BY <2>1, <2>2 DEF Injection, IsInjective
<1>6. Cardinality(Reserved) <= Cardinality(others) /\ Cardinality(Reserved) \in Nat
  <2> HIDE DEF others, leaderOf
  <2> QED BY <1>3, <1>5, FS_Injection, FS_CardinalityType
<1> QED BY <1>2, <1>3, <1>6, ServingAssumption DEF InFlightIsFull, AdmissionHolds

-----------------------------------------------------------------------------
(* Sums.  The recursion of Total is over the places of a sequence, and so are *)
(* the arguments about it: where the claim fails, it fails at a first place.  *)

LEMMA SmallerNumbers ==
  \E R : IsWellFoundedOn(R, Nat) /\ \A x, y \in Nat : x < y => <<x, y>> \in R
<1>1. \A x, y \in Nat : x < y => <<x, y>> \in OpToRel(<, Nat)
  BY DEF OpToRel
<1> QED BY <1>1, NatLessThanWellFounded

LEMMA LeastOf ==
  ASSUME NEW T, T \subseteq Nat, T # {}
  PROVE  \E n \in T : \A m \in T : n <= m
<1>1. PICK R : IsWellFoundedOn(R, Nat) /\ \A x, y \in Nat : x < y => <<x, y>> \in R
  BY SmallerNumbers
<1>2. IsWellFoundedOn(R, Nat)
  BY <1>1
<1>3. \E x \in T : \A y \in T : ~ (<<y, x>> \in R)
  BY <1>2, WFMin, Zenon
<1>4. PICK n \in T : \A m \in T : ~ (<<m, n>> \in R)
  BY <1>3
<1>5. ASSUME NEW m \in T
      PROVE  n <= m
  <2>1. ~ (m < n)
    BY <1>1, <1>4
  <2> QED BY <2>1
<1> QED BY <1>5

\* The sums of the first numbers of s.
Sums(p, s) == p[0] = 0 /\ \A n \in 1 .. Len(s) : p[n] = p[n - 1] + s[n]

LEMMA SumsAgree ==
  ASSUME NEW s \in Seq(Nat), NEW p, NEW q, Sums(p, s), Sums(q, s)
  PROVE  \A n \in 0 .. Len(s) : p[n] = q[n]
<1> DEFINE Bad == {n \in 0 .. Len(s) : p[n] # q[n]}
<1>1. CASE Bad = {}
  BY <1>1
<1>2. CASE Bad # {}
  <2>1. Len(s) \in Nat /\ Bad \subseteq Nat
    OBVIOUS
  <2>2. PICK n \in Bad : \A m \in Bad : n <= m
    <3> HIDE DEF Bad
    <3> QED BY <1>2, <2>1, LeastOf
  <2>3. n \in 0 .. Len(s) /\ p[n] # q[n] /\ n # 0
    BY <2>2 DEF Sums
  <2>4. n \in 1 .. Len(s) /\ n - 1 \in 0 .. Len(s) /\ ~ (n <= n - 1)
    BY <2>1, <2>3
  <2>5. n - 1 \notin Bad
    <3> HIDE DEF Bad
    <3> QED BY <2>2, <2>4
  <2>6. p[n - 1] = q[n - 1]
    BY <2>4, <2>5
  <2> QED BY <2>3, <2>4, <2>6 DEF Sums
<1> QED BY <1>1, <1>2

LEMMA SumsExist ==
  ASSUME NEW s \in Seq(Nat)
  PROVE  \E p \in [0 .. Len(s) -> Nat] : Sums(p, s)
<1> DEFINE Upto(p, n) == p[0] = 0 /\ \A i \in 1 .. n : p[i] = p[i - 1] + s[i]
           Bad == {n \in 0 .. Len(s) : ~ \E p \in [0 .. Len(s) -> Nat] : Upto(p, n)}
<1>1. Len(s) \in Nat /\ \A i \in 1 .. Len(s) : s[i] \in Nat
  OBVIOUS
<1>2. CASE Bad = {}
  <2>1. Len(s) \notin Bad
    BY <1>2
  <2>2. \E p \in [0 .. Len(s) -> Nat] : Upto(p, Len(s))
    BY <1>1, <2>1
  <2> QED BY <2>2 DEF Sums
<1>3. CASE Bad # {}
  <2>1. PICK n \in Bad : \A m \in Bad : n <= m
    <3>1. Bad \subseteq Nat
      BY <1>1
    <3> QED BY <1>3, <3>1, LeastOf
  <2>2. n \in 0 .. Len(s) /\ ~ \E p \in [0 .. Len(s) -> Nat] : Upto(p, n)
    BY <2>1
  <2>3. n # 0
    <3>1. Upto([i \in 0 .. Len(s) |-> 0], 0)
      BY <1>1
    <3> QED BY <2>2, <3>1
  <2>4. n - 1 \in 0 .. Len(s) /\ n - 1 \notin Bad /\ n \in 1 .. Len(s)
    <3>1. n - 1 \in 0 .. Len(s) /\ ~ (n <= n - 1) /\ n \in 1 .. Len(s)
      BY <1>1, <2>2, <2>3
    <3> HIDE DEF Bad
    <3> QED BY <2>1, <3>1
  <2>5. PICK p \in [0 .. Len(s) -> Nat] : Upto(p, n - 1)
    BY <2>4
  <2> DEFINE q == [p EXCEPT ![n] = p[n - 1] + s[n]]
  <2>6. q \in [0 .. Len(s) -> Nat] /\ q[n] = p[n - 1] + s[n]
        /\ \A i \in 0 .. Len(s) : i # n => q[i] = p[i]
    <3>1. p[n - 1] \in Nat /\ s[n] \in Nat /\ n \in 0 .. Len(s)
      BY <1>1, <2>4
    <3>2. p[n - 1] + s[n] \in Nat
      BY <3>1
    <3> QED BY <3>1, <3>2
  <2> HIDE DEF q
  <2>7. q[0] = 0
    BY <1>1, <2>4, <2>5, <2>6
  <2>8. ASSUME NEW i \in 1 .. n
        PROVE  q[i] = q[i - 1] + s[i]
    <3>1. i - 1 \in 0 .. Len(s) /\ i - 1 # n /\ i \in 0 .. Len(s)
      BY <1>1, <2>4
    <3>2. CASE i = n
      BY <2>6, <3>1, <3>2
    <3>3. CASE i # n
      <4>1. i \in 1 .. n - 1
        BY <2>4, <3>3
      <4> QED BY <2>5, <2>6, <3>1, <3>3, <4>1
    <3> QED BY <3>2, <3>3
  <2> QED BY <2>2, <2>6, <2>7, <2>8
<1> QED BY <1>2, <1>3

\* The total is the last of the sums.
LEMMA TotalIs ==
  ASSUME NEW s \in Seq(Nat), NEW p, Sums(p, s)
  PROVE  Total(s) = p[Len(s)] /\ Total(s) \in Nat
<1> DEFINE sum == CHOOSE f : f = [n \in 0 .. Len(s) |-> IF n = 0 THEN 0 ELSE f[n - 1] + s[n]]
<1>1. Len(s) \in Nat
  OBVIOUS
<1>2. PICK q \in [0 .. Len(s) -> Nat] : Sums(q, s)
  BY SumsExist
<1>3. q = [n \in 0 .. Len(s) |-> IF n = 0 THEN 0 ELSE q[n - 1] + s[n]]
  <2>1. \A n \in 0 .. Len(s) : q[n] = IF n = 0 THEN 0 ELSE q[n - 1] + s[n]
    BY <1>1, <1>2 DEF Sums
  <2> QED BY <1>2, <2>1
<1>4. sum = [n \in 0 .. Len(s) |-> IF n = 0 THEN 0 ELSE sum[n - 1] + s[n]]
  BY <1>3
<1>5. Total(s) = sum[Len(s)]
  BY DEF Total
<1> HIDE DEF sum
<1>6. Sums(sum, s)
  <2>1. \A n \in 0 .. Len(s) : sum[n] = IF n = 0 THEN 0 ELSE sum[n - 1] + s[n]
    BY <1>4
  <2> QED BY <1>1, <2>1 DEF Sums
<1>7. \A n \in 0 .. Len(s) : sum[n] = p[n] /\ sum[n] = q[n]
  BY <1>2, <1>6, SumsAgree
<1> QED BY <1>1, <1>2, <1>5, <1>7

LEMMA TotalTyped ==
  ASSUME NEW s \in Seq(Nat)
  PROVE  Total(s) \in Nat /\ (Len(s) = 0 => Total(s) = 0)
<1>1. PICK p \in [0 .. Len(s) -> Nat] : Sums(p, s)
  BY SumsExist
<1>2. Total(s) = p[Len(s)] /\ p[Len(s)] \in Nat
  BY <1>1, TotalIs
<1> QED BY <1>1, <1>2 DEF Sums

LEMMA TotalOfOne ==
  ASSUME NEW s \in Seq(Nat), Len(s) = 1
  PROVE  Total(s) = s[1]
<1>1. PICK p \in [0 .. Len(s) -> Nat] : Sums(p, s)
  BY SumsExist
<1>2. p[1] = p[0] + s[1] /\ p[0] = 0 /\ s[1] \in Nat
  BY <1>1 DEF Sums
<1> QED BY <1>1, <1>2, TotalIs

\* u is s followed by t.
Joins(u, s, t) ==
  /\ Len(u) = Len(s) + Len(t)
  /\ \A i \in 1 .. Len(s) : u[i] = s[i]
  /\ \A i \in 1 .. Len(t) : u[Len(s) + i] = t[i]

LEMMA TotalOfBoth ==
  ASSUME NEW s \in Seq(Nat), NEW t \in Seq(Nat), NEW u \in Seq(Nat), Joins(u, s, t)
  PROVE  Total(u) = Total(s) + Total(t)
<1>1. PICK p \in [0 .. Len(s) -> Nat] : Sums(p, s)
  BY SumsExist
<1>2. PICK q \in [0 .. Len(t) -> Nat] : Sums(q, t)
  BY SumsExist
<1>3. /\ Len(s) \in Nat /\ Len(t) \in Nat /\ Len(u) = Len(s) + Len(t)
      /\ Total(s) = p[Len(s)] /\ Total(t) = q[Len(t)] /\ Total(s) \in Nat /\ Total(t) \in Nat
  BY <1>1, <1>2, TotalIs DEF Joins
<1> DEFINE r == [n \in 0 .. Len(u) |-> IF n <= Len(s) THEN p[n] ELSE p[Len(s)] + q[n - Len(s)]]
<1>4. r[0] = 0
  BY <1>1, <1>3 DEF Sums
<1>5. ASSUME NEW n \in 1 .. Len(u)
      PROVE  r[n] = r[n - 1] + u[n]
  <2>1. CASE n <= Len(s)
    <3>1. n \in 1 .. Len(s) /\ n - 1 <= Len(s) /\ n - 1 \in 0 .. Len(u) /\ n \in 0 .. Len(u)
      BY <1>3, <2>1
    <3>2. r[n] = p[n] /\ r[n - 1] = p[n - 1] /\ u[n] = s[n]
      BY <2>1, <3>1 DEF Joins
    <3> HIDE DEF r
    <3> QED BY <1>1, <3>1, <3>2 DEF Sums
  <2>2. CASE ~ (n <= Len(s))
    <3>1. n - Len(s) \in 1 .. Len(t) /\ n = Len(s) + (n - Len(s))
      BY <1>3, <2>2
    <3>2. PICK i \in 1 .. Len(t) : n = Len(s) + i
      BY <3>1
    <3>3. /\ i \in Nat /\ i # 0 /\ n - Len(s) = i /\ (n - 1) - Len(s) = i - 1
          /\ i - 1 \in 0 .. Len(t) /\ i \in 0 .. Len(t)
          /\ n - 1 \in 0 .. Len(u) /\ n \in 0 .. Len(u)
          /\ i # 1 => ~ (n - 1 <= Len(s))
          /\ i = 1 => n - 1 = Len(s)
      BY <1>3, <3>2
    <3>4. u[n] = t[i] /\ t[i] \in Nat /\ q[i - 1] \in Nat
      <4>1. u[Len(s) + i] = t[i]
        BY DEF Joins
      <4>2. t[i] \in Nat
        BY <1>3
      <4>3. q[i - 1] \in Nat
        BY <1>2, <3>3
      <4> QED BY <3>2, <4>1, <4>2, <4>3
    <3>5. q[i] = q[i - 1] + t[i] /\ q[0] = 0
      BY <1>2 DEF Sums
    <3>6. r[n] = p[Len(s)] + q[i]
      BY <2>2, <3>3
    <3>7. r[n - 1] = p[Len(s)] + q[i - 1]
      <4>1. CASE i = 1
        <5>1. r[n - 1] = p[Len(s)] /\ q[i - 1] = 0
          BY <1>3, <3>3, <3>5, <4>1
        <5> HIDE DEF r
        <5> QED BY <1>3, <5>1
      <4>2. CASE i # 1
        <5>1. r[n - 1] = p[Len(s)] + q[(n - 1) - Len(s)]
          BY <3>3, <4>2
        <5> HIDE DEF r
        <5> QED BY <3>3, <5>1
      <4> QED BY <4>1, <4>2
    <3>8. p[Len(s)] \in Nat
      BY <1>3
    <3>9. q[i] = q[i - 1] + u[n]
      BY <3>4, <3>5
    <3>10. \A x, y, z \in Nat : x + (y + z) = (x + y) + z
      OBVIOUS
    <3> HIDE DEF r
    <3> QED BY <3>4, <3>6, <3>7, <3>8, <3>9, <3>10
  <2> QED BY <2>1, <2>2
<1>6. r[Len(u)] = p[Len(s)] + q[Len(t)]
  <2>1. CASE Len(t) = 0
    <3>1. r[Len(u)] = p[Len(s)] /\ q[Len(t)] = 0
      BY <1>2, <1>3, <2>1 DEF Sums
    <3> HIDE DEF r
    <3> QED BY <1>3, <3>1
  <2>2. CASE Len(t) # 0
    <3>1. ~ (Len(u) <= Len(s)) /\ Len(u) - Len(s) = Len(t) /\ Len(u) \in 0 .. Len(u)
      BY <1>3, <2>2
    <3> QED BY <3>1
  <2> QED BY <2>1, <2>2
<1> HIDE DEF r
<1>7. Sums(r, u)
  BY <1>4, <1>5 DEF Sums
<1> QED BY <1>3, <1>6, <1>7, TotalIs

-----------------------------------------------------------------------------
(* The size-bounded caches. *)

Weighed(E) == \A e \in E : e.weight \in Nat
OnceEach(entries) ==
  \A i, j \in 1 .. Len(entries) : entries[i].key = entries[j].key => i = j

\* A cache of entries E that knows what it holds.
Counted(E, cache) ==
  /\ cache \in [entries : Seq(E), resident : Nat]
  /\ OnceEach(cache.entries)
  /\ cache.resident = Weigh(cache.entries)

\* Whatever it holds, the cache it was made from held too.
PartOf(smaller, cache) ==
  /\ Len(smaller.entries) <= Len(cache.entries) /\ smaller.resident <= cache.resident
  /\ \A i \in 1 .. Len(smaller.entries) :
       \E j \in 1 .. Len(cache.entries) : smaller.entries[i] = cache.entries[j]

LEMMA WeighTyped ==
  ASSUME NEW E, Weighed(E), NEW s \in Seq(E)
  PROVE  /\ Weigh(s) \in Nat
         /\ Len(s) = 0 => Weigh(s) = 0
         /\ Len(s) = 1 => Weigh(s) = s[1].weight
<1> DEFINE weights == [i \in 1 .. Len(s) |-> s[i].weight]
<1>1. Len(s) \in Nat /\ \A i \in 1 .. Len(s) : s[i].weight \in Nat
  BY DEF Weighed
<1>2. weights \in Seq(Nat) /\ Len(weights) = Len(s) /\ (Len(s) = 1 => weights[1] = s[1].weight)
  BY <1>1
<1>3. Weigh(s) = Total(weights)
  BY DEF Weigh
<1> HIDE DEF weights
<1> QED BY <1>2, <1>3, TotalTyped, TotalOfOne

LEMMA WeighBoth ==
  ASSUME NEW E, Weighed(E), NEW s \in Seq(E), NEW t \in Seq(E), NEW u \in Seq(E), Joins(u, s, t)
  PROVE  Weigh(u) = Weigh(s) + Weigh(t)
<1> DEFINE weights(r) == [i \in 1 .. Len(r) |-> r[i].weight]
<1>1. ASSUME NEW r \in Seq(E)
      PROVE  /\ weights(r) \in Seq(Nat) /\ Len(weights(r)) = Len(r)
             /\ \A i \in 1 .. Len(r) : weights(r)[i] = r[i].weight
  <2>1. Len(r) \in Nat /\ \A i \in 1 .. Len(r) : r[i].weight \in Nat
    BY DEF Weighed
  <2> QED BY <2>1
<1>2. Weigh(s) = Total(weights(s)) /\ Weigh(t) = Total(weights(t)) /\ Weigh(u) = Total(weights(u))
  BY DEF Weigh
<1> HIDE DEF weights
<1>3. Joins(weights(u), weights(s), weights(t))
  <2>1. Len(s) \in Nat /\ Len(t) \in Nat /\ Len(u) = Len(s) + Len(t)
    BY DEF Joins
  <2>2. Len(weights(u)) = Len(weights(s)) + Len(weights(t))
    BY <1>1, <2>1
  <2>3. ASSUME NEW i \in 1 .. Len(s)
        PROVE  weights(u)[i] = weights(s)[i]
    <3>1. i \in 1 .. Len(u) /\ u[i] = s[i]
      BY <2>1 DEF Joins
    <3> QED BY <1>1, <3>1
  <2>4. ASSUME NEW i \in 1 .. Len(t)
        PROVE  weights(u)[Len(s) + i] = weights(t)[i]
    <3>1. Len(s) + i \in 1 .. Len(u) /\ u[Len(s) + i] = t[i]
      BY <2>1 DEF Joins
    <3> QED BY <1>1, <3>1
  <2> QED BY <1>1, <2>2, <2>3, <2>4 DEF Joins
<1> QED BY <1>1, <1>2, <1>3, TotalOfBoth

LEMMA PartsOf ==
  ASSUME NEW E, NEW s \in Seq(E), NEW n \in 0 .. Len(s)
  PROVE  /\ SubSeq(s, 1, n) \in Seq(E) /\ Len(SubSeq(s, 1, n)) = n
         /\ \A i \in 1 .. n : SubSeq(s, 1, n)[i] = s[i]
         /\ SubSeq(s, n + 1, Len(s)) \in Seq(E) /\ Len(SubSeq(s, n + 1, Len(s))) = Len(s) - n
         /\ \A i \in 1 .. Len(s) - n : SubSeq(s, n + 1, Len(s))[i] = s[n + i]
         /\ Joins(s, SubSeq(s, 1, n), SubSeq(s, n + 1, Len(s)))
<1>1. Len(s) \in Nat /\ n \in Nat /\ n <= Len(s)
  OBVIOUS
<1>2. /\ SubSeq(s, 1, n) \in Seq(E) /\ Len(SubSeq(s, 1, n)) = n
      /\ \A i \in 1 .. n : SubSeq(s, 1, n)[i] = s[i]
  BY <1>1
<1>3. /\ SubSeq(s, n + 1, Len(s)) \in Seq(E) /\ Len(SubSeq(s, n + 1, Len(s))) = Len(s) - n
      /\ \A i \in 1 .. Len(s) - n : SubSeq(s, n + 1, Len(s))[i] = s[n + i]
  BY <1>1
<1>4. Joins(s, SubSeq(s, 1, n), SubSeq(s, n + 1, Len(s)))
  <2> DEFINE t == SubSeq(s, 1, n)
             u == SubSeq(s, n + 1, Len(s))
  <2>1. Len(t) = n /\ Len(u) = Len(s) - n
    BY <1>2, <1>3
  <2> HIDE DEF t, u
  <2>2. Len(t) = n /\ Len(u) = Len(s) - n /\ Len(s) = Len(t) + Len(u)
    BY <1>1, <2>1
  <2>3. \A i \in 1 .. Len(t) : s[i] = t[i]
    BY <1>2, <2>2 DEF t
  <2>4. \A i \in 1 .. Len(u) : s[Len(t) + i] = u[i]
    BY <1>3, <2>2 DEF u
  <2>5. Joins(s, t, u)
    BY <2>2, <2>3, <2>4 DEF Joins
  <2> QED BY <2>5 DEF t, u
<1> QED BY <1>2, <1>3, <1>4

LEMMA BothOf ==
  ASSUME NEW E, NEW s \in Seq(E), NEW t \in Seq(E)
  PROVE  s \o t \in Seq(E) /\ Len(s \o t) = Len(s) + Len(t) /\ Joins(s \o t, s, t)
<1>1. Len(s) \in Nat /\ Len(t) \in Nat
  OBVIOUS
<1>2. s \o t \in Seq(E) /\ Len(s \o t) = Len(s) + Len(t)
  OBVIOUS
<1>3. \A i \in 1 .. Len(s) : (s \o t)[i] = s[i]
  BY <1>1
<1>4. \A i \in 1 .. Len(t) : (s \o t)[Len(s) + i] = t[i]
  BY <1>1
<1> QED BY <1>2, <1>3, <1>4 DEF Joins

LEMMA WithoutOldestCounts ==
  ASSUME NEW E, Weighed(E), NEW cache, Counted(E, cache), NEW n \in 0 .. Len(cache.entries)
  PROVE  /\ Counted(E, WithoutOldest(cache, n)) /\ PartOf(WithoutOldest(cache, n), cache)
         /\ Len(WithoutOldest(cache, n).entries) = Len(cache.entries) - n
<1> DEFINE s == cache.entries
           old == SubSeq(s, 1, n)
           kept == SubSeq(s, n + 1, Len(s))
<1>1. s \in Seq(E) /\ Len(s) \in Nat /\ n \in Nat /\ n <= Len(s)
      /\ cache.resident = Weigh(s) /\ OnceEach(s)
  BY DEF Counted
<1> HIDE DEF s
<1>2. /\ old \in Seq(E) /\ kept \in Seq(E) /\ Len(kept) = Len(s) - n /\ Joins(s, old, kept)
      /\ \A i \in 1 .. Len(s) - n : kept[i] = s[n + i]
  BY <1>1, PartsOf DEF s
<1> HIDE DEF old, kept
<1>3. /\ Weigh(s) = Weigh(old) + Weigh(kept) /\ Weigh(old) \in Nat /\ Weigh(kept) \in Nat
      /\ Weigh(s) \in Nat
  BY <1>1, <1>2, WeighBoth, WeighTyped
<1>4. WithoutOldest(cache, n) = [entries |-> kept, resident |-> Weigh(kept)]
  <2>1. Less(Weigh(s), Weigh(old)) = Weigh(kept)
    BY <1>3 DEF Less
  <2> QED BY <1>1, <2>1 DEF WithoutOldest, s, old, kept
<1>5. \A i \in 1 .. Len(kept) : n + i \in 1 .. Len(s) /\ kept[i] = s[n + i]
  BY <1>1, <1>2
<1>6. OnceEach(kept)
  <2> SUFFICES ASSUME NEW i \in 1 .. Len(kept), NEW j \in 1 .. Len(kept), kept[i].key = kept[j].key
               PROVE  i = j
    BY DEF OnceEach
  <2>1. n + i = n + j
    BY <1>1, <1>5 DEF OnceEach
  <2> QED BY <1>1, <1>2, <2>1
<1>7. Counted(E, WithoutOldest(cache, n))
  BY <1>2, <1>3, <1>4, <1>6 DEF Counted
<1>8. PartOf(WithoutOldest(cache, n), cache)
  <2>1. /\ WithoutOldest(cache, n).entries = kept /\ cache.entries = s
        /\ WithoutOldest(cache, n).resident = Weigh(kept)
    BY <1>4 DEF s
  <2>2. Len(kept) <= Len(s) /\ Weigh(kept) <= cache.resident
    BY <1>1, <1>2, <1>3
  <2>3. \A i \in 1 .. Len(kept) : \E j \in 1 .. Len(s) : kept[i] = s[j]
    BY <1>5
  <2> QED BY <2>1, <2>2, <2>3 DEF PartOf
<1> QED BY <1>1, <1>2, <1>4, <1>7, <1>8 DEF s
\* Evicting until the weight fits ends, and then it fits.
LEMMA MadeRoomCounts ==
  ASSUME NEW E, Weighed(E), NEW cache, Counted(E, cache),
         NEW maxBytes \in Nat, NEW weight \in Nat, weight <= maxBytes
  PROVE  /\ Counted(E, MadeRoom(cache, weight, maxBytes))
         /\ PartOf(MadeRoom(cache, weight, maxBytes), cache)
         /\ MadeRoom(cache, weight, maxBytes).resident + weight <= maxBytes
<1> DEFINE size == Len(cache.entries)
           fits(n) == WithoutOldest(cache, n).resident + weight <= maxBytes
           Ends == {n \in 0 .. size : fits(n) \/ n = size}
           least == CHOOSE i \in 0 .. size :
                      (fits(i) \/ i = size) /\ \A j \in 0 .. i - 1 : ~fits(j)
<1>1. size \in Nat
  BY DEF Counted
<1>2. fits(size)
  <2>1. /\ Counted(E, WithoutOldest(cache, size))
        /\ Len(WithoutOldest(cache, size).entries) = size - size
    <3>1. size \in 0 .. size
      BY <1>1
    <3> QED BY <3>1, WithoutOldestCounts
  <2>2. WithoutOldest(cache, size).resident = 0
    <3>1. Len(WithoutOldest(cache, size).entries) = 0
      <4> HIDE DEF size
      <4> QED BY <1>1, <2>1
    <3> HIDE DEF size
    <3> QED BY <2>1, <3>1, WeighTyped DEF Counted
  <2> QED BY <2>2
<1>3. PICK n \in Ends : \A m \in Ends : n <= m
  <2>1. size \in Ends /\ Ends \subseteq Nat
    BY <1>1
  <2> HIDE DEF Ends
  <2> QED BY <2>1, LeastOf
<1> HIDE DEF fits, size
<1>4. \E i \in 0 .. size : (fits(i) \/ i = size) /\ \A j \in 0 .. i - 1 : ~fits(j)
  <2>1. n \in 0 .. size /\ (fits(n) \/ n = size)
    BY <1>3
  <2>2. ASSUME NEW j \in 0 .. n - 1, fits(j)
        PROVE  FALSE
    <3>1. j \in 0 .. size /\ ~ (n <= j)
      BY <1>1, <2>1
    <3> QED BY <1>3, <2>2, <3>1
  <2> QED BY <2>1, <2>2
<1>5. least \in 0 .. size /\ (fits(least) \/ least = size)
  BY <1>4
<1>6. MadeRoom(cache, weight, maxBytes) = WithoutOldest(cache, least)
  BY DEF MadeRoom, fits, size
<1> HIDE DEF least
<1>7. fits(least)
  BY <1>2, <1>5
<1> QED BY <1>5, <1>6, <1>7, WithoutOldestCounts DEF size, fits

\* An entry is taken out.
LEMMA PoppedCounts ==
  ASSUME NEW E, Weighed(E), NEW cache, Counted(E, cache), NEW key
  PROVE  /\ Counted(E, Popped(cache, key)) /\ PartOf(Popped(cache, key), cache)
         /\ \A i \in 1 .. Len(Popped(cache, key).entries) : Popped(cache, key).entries[i].key # key
         /\ Holds(cache, key) =>
              /\ EntryOf(cache, key) \in E /\ EntryOf(cache, key).key = key
              /\ \E j \in 1 .. Len(cache.entries) : EntryOf(cache, key) = cache.entries[j]
              /\ Popped(cache, key).entries = OthersThan(cache, key)
              /\ Len(OthersThan(cache, key)) = Len(cache.entries) - 1
              /\ cache.resident = Weigh(OthersThan(cache, key)) + EntryOf(cache, key).weight
<1> DEFINE s == cache.entries
           p == PlaceOf(cache, key)
           before == SubSeq(s, 1, p - 1)
           after == SubSeq(s, p + 1, Len(s))
           since == SubSeq(s, (p - 1) + 1, Len(s))
           others == before \o after
<1>1. s \in Seq(E) /\ Len(s) \in Nat /\ DOMAIN s = 1 .. Len(s)
      /\ cache.resident = Weigh(s) /\ OnceEach(s)
  BY DEF Counted
<1>2. CASE ~Holds(cache, key)
  <2>1. Popped(cache, key) = cache
    BY <1>2 DEF Popped
  <2>2. PartOf(cache, cache)
    BY DEF PartOf, Counted
  <2> QED BY <1>1, <1>2, <2>1, <2>2 DEF Holds
<1>3. CASE Holds(cache, key)
  <2>1. p \in 1 .. Len(s) /\ s[p].key = key
    BY <1>1, <1>3 DEF Holds, PlaceOf
  <2>2. others = OthersThan(cache, key) /\ s[p] = EntryOf(cache, key)
    BY DEF OthersThan, RemoveAt, EntryOf
  <2> HIDE DEF s, p
  <2>3. p \in Nat /\ p # 0 /\ p <= Len(s) /\ p - 1 \in 0 .. Len(s) /\ p \in 0 .. Len(s)
    BY <1>1, <2>1
  <2>4. /\ before \in Seq(E) /\ Len(before) = p - 1 /\ \A i \in 1 .. p - 1 : before[i] = s[i]
        /\ since \in Seq(E) /\ Len(since) = Len(s) - (p - 1) /\ Joins(s, before, since)
        /\ \A i \in 1 .. Len(s) - (p - 1) : since[i] = s[(p - 1) + i]
    BY <1>1, <2>3, PartsOf
  <2>5. /\ after \in Seq(E) /\ Len(after) = Len(s) - p
        /\ \A i \in 1 .. Len(s) - p : after[i] = s[p + i]
    BY <1>1, <2>3, PartsOf
  <2> HIDE DEF before, after, since
  <2>6. /\ others \in Seq(E) /\ Len(others) = Len(s) - 1
        /\ \A i \in 1 .. Len(s) - 1 : others[i] = IF i < p THEN s[i] ELSE s[i + 1]
    <3>1. others \in Seq(E) /\ Len(others) = Len(before) + Len(after)
      BY <2>4, <2>5, BothOf
    <3>2. Len(others) = Len(s) - 1
      BY <1>1, <2>3, <2>4, <2>5, <3>1
    <3>3. ASSUME NEW i \in 1 .. Len(s) - 1
          PROVE  others[i] = IF i < p THEN s[i] ELSE s[i + 1]
      <4>1. CASE i < p
        <5>1. i \in 1 .. p - 1
          BY <1>1, <2>3, <4>1
        <5>2. others[i] = before[i]
          BY <2>4, <2>5, <5>1
        <5> HIDE DEF others
        <5> QED BY <2>4, <4>1, <5>1, <5>2
      <4>2. CASE ~ (i < p)
        <5>1. i - Len(before) \in 1 .. Len(after) /\ i - Len(before) = i - (p - 1)
              /\ p + (i - (p - 1)) = i + 1 /\ i \in 1 .. Len(before) + Len(after)
              /\ ~ (i <= Len(before))
          BY <1>1, <2>3, <2>4, <2>5, <4>2
        <5>2. others[i] = after[i - Len(before)]
          BY <2>4, <2>5, <5>1
        <5> HIDE DEF others
        <5> QED BY <2>5, <4>2, <5>1, <5>2
      <4> QED BY <4>1, <4>2
    <3> QED BY <3>1, <3>2, <3>3
  <2>7. Weigh(s) = Weigh(others) + s[p].weight /\ Weigh(others) \in Nat /\ s[p].weight \in Nat
        /\ s[p] \in E
    <3> DEFINE one == <<s[p]>>
    <3>1. one \in Seq(E) /\ Len(one) = 1 /\ one[1] = s[p] /\ s[p] \in E /\ s[p].weight \in Nat
      BY <1>1, <2>1 DEF Weighed
    <3> HIDE DEF one
    <3>2. Joins(since, one, after)
      <4>1. Len(since) = Len(one) + Len(after)
        BY <1>1, <2>3, <2>4, <2>5, <3>1
      <4>2. \A i \in 1 .. Len(one) : since[i] = one[i]
        <5>1. (p - 1) + 1 = p /\ 1 \in 1 .. Len(s) - (p - 1)
          BY <1>1, <2>3
        <5>2. since[1] = one[1]
          BY <2>4, <3>1, <5>1
        <5> QED BY <3>1, <5>2
      <4>3. ASSUME NEW i \in 1 .. Len(after)
            PROVE  since[Len(one) + i] = after[i]
        <5>1. Len(one) + i \in 1 .. Len(s) - (p - 1) /\ (p - 1) + (Len(one) + i) = p + i
              /\ i \in 1 .. Len(s) - p
          BY <1>1, <2>3, <2>5, <3>1
        <5> QED BY <2>4, <2>5, <5>1
      <4> QED BY <4>1, <4>2, <4>3 DEF Joins
    <3>3. Joins(others, before, after)
      BY <2>4, <2>5, BothOf
    <3> HIDE DEF others
    <3>4. /\ Weigh(s) = Weigh(before) + Weigh(since)
          /\ Weigh(since) = Weigh(one) + Weigh(after)
          /\ Weigh(others) = Weigh(before) + Weigh(after)
          /\ Weigh(one) = s[p].weight
      <4>1. Weigh(s) = Weigh(before) + Weigh(since)
        BY <1>1, <2>4, WeighBoth
      <4>2. Weigh(since) = Weigh(one) + Weigh(after)
        BY <2>4, <2>5, <3>1, <3>2, WeighBoth
      <4>3. Weigh(others) = Weigh(before) + Weigh(after)
        BY <2>4, <2>5, <2>6, <3>3, WeighBoth
      <4>4. Weigh(one) = s[p].weight
        BY <3>1, WeighTyped
      <4> QED BY <4>1, <4>2, <4>3, <4>4
    <3>5. Weigh(before) \in Nat /\ Weigh(after) \in Nat /\ Weigh(others) \in Nat
      BY <2>4, <2>5, <2>6, WeighTyped
    <3> QED BY <3>1, <3>4, <3>5
  <2> HIDE DEF others
  <2>8. Popped(cache, key) = [entries |-> others, resident |-> Weigh(others)]
    <3>1. Less(Weigh(s), s[p].weight) = Weigh(others)
      BY <2>7 DEF Less
    <3> QED BY <1>1, <1>3, <2>2, <3>1 DEF Popped
  <2>9. \A i \in 1 .. Len(others) :
          \E j \in 1 .. Len(s) : j # p /\ others[i] = s[j] /\ j = IF i < p THEN i ELSE i + 1
    <3> SUFFICES ASSUME NEW i \in 1 .. Len(others)
                 PROVE  \E j \in 1 .. Len(s) :
                          j # p /\ others[i] = s[j] /\ j = IF i < p THEN i ELSE i + 1
      OBVIOUS
    <3>1. CASE i < p
      <4>1. i \in 1 .. Len(s) /\ i # p /\ i \in 1 .. Len(s) - 1
        BY <1>1, <2>3, <2>6, <3>1
      <4> QED BY <2>6, <3>1, <4>1
    <3>2. CASE ~ (i < p)
      <4>1. i + 1 \in 1 .. Len(s) /\ i + 1 # p /\ i \in 1 .. Len(s) - 1
        BY <1>1, <2>3, <2>6, <3>2
      <4> QED BY <2>6, <3>2, <4>1
    <3> QED BY <3>1, <3>2
  <2>10. OnceEach(others)
    <3> SUFFICES ASSUME NEW i \in 1 .. Len(others), NEW j \in 1 .. Len(others),
                        others[i].key = others[j].key
                 PROVE  i = j
      BY DEF OnceEach
    <3>1. PICK k \in 1 .. Len(s) : others[i] = s[k] /\ k = IF i < p THEN i ELSE i + 1
      BY <2>9
    <3>2. PICK m \in 1 .. Len(s) : others[j] = s[m] /\ m = IF j < p THEN j ELSE j + 1
      BY <2>9
    <3>3. k = m
      BY <1>1, <3>1, <3>2 DEF OnceEach
    <3> QED BY <2>3, <2>6, <3>1, <3>2, <3>3
  <2>11. \A i \in 1 .. Len(others) : others[i].key # key
    BY <1>1, <2>1, <2>9 DEF OnceEach
  <2>12. Counted(E, Popped(cache, key))
    BY <2>6, <2>7, <2>8, <2>10 DEF Counted
  <2>13. PartOf(Popped(cache, key), cache)
    <3>1. Len(others) <= Len(s) /\ Weigh(others) <= cache.resident
      BY <1>1, <2>6, <2>7
    <3>2. Popped(cache, key).entries = others /\ Popped(cache, key).resident = Weigh(others)
      BY <2>8
    <3> QED BY <2>9, <3>1, <3>2 DEF PartOf, s
  <2> QED BY <1>1, <2>1, <2>2, <2>6, <2>7, <2>8, <2>11, <2>12, <2>13 DEF s
<1> QED BY <1>2, <1>3

-----------------------------------------------------------------------------
\* A cache within its limits.
Kept(E, cache, capacity, maxBytes) ==
  Counted(E, cache) /\ cache.resident <= maxBytes /\ Len(cache.entries) <= capacity

LEMMA KeptIsAccounted ==
  ASSUME NEW E, NEW cache, NEW capacity, NEW maxBytes, Kept(E, cache, capacity, maxBytes)
  PROVE  Accounted(cache, capacity, maxBytes)
<1>1. DOMAIN cache.entries = 1 .. Len(cache.entries)
  BY DEF Kept, Counted
<1> QED BY <1>1 DEF Kept, Counted, OnceEach, Accounted

LEMMA EmptyIsKept ==
  ASSUME NEW E, Weighed(E), NEW capacity \in Nat, NEW maxBytes \in Nat
  PROVE  Kept(E, EmptyCache, capacity, maxBytes)
<1>1. /\ <<>> \in Seq(E) /\ Len(<<>>) = 0
      /\ EmptyCache.entries = <<>> /\ EmptyCache.resident = 0
      /\ EmptyCache \in [entries : Seq(E), resident : Nat]
  BY DEF EmptyCache
<1>2. Weigh(<<>>) = 0 /\ OnceEach(<<>>)
  BY <1>1, WeighTyped DEF OnceEach
<1> QED BY <1>1, <1>2 DEF Kept, Counted

\* An entry whose key is not there goes to the end.
LEMMA AppendCounts ==
  ASSUME NEW E, Weighed(E), NEW cache, Counted(E, cache), NEW entry \in E,
         \A i \in 1 .. Len(cache.entries) : cache.entries[i].key # entry.key
  PROVE  /\ Counted(E, [entries |-> Append(cache.entries, entry),
                        resident |-> cache.resident + entry.weight])
         /\ Len(Append(cache.entries, entry)) = Len(cache.entries) + 1
<1> DEFINE s == cache.entries
           one == <<entry>>
           u == Append(s, entry)
<1>1. /\ s \in Seq(E) /\ Len(s) \in Nat /\ cache.resident = Weigh(s) /\ OnceEach(s)
      /\ entry.weight \in Nat /\ cache.resident \in Nat
  BY DEF Counted, Weighed
<1>2. one \in Seq(E) /\ Len(one) = 1 /\ one[1] = entry
  OBVIOUS
<1> HIDE DEF s, one
<1>3. /\ u \in Seq(E) /\ Len(u) = Len(s) + 1 /\ u[Len(s) + 1] = entry
      /\ \A i \in 1 .. Len(s) : u[i] = s[i]
  BY <1>1
<1> HIDE DEF u
<1>4. Joins(u, s, one)
  BY <1>1, <1>2, <1>3 DEF Joins
<1>5. Weigh(u) = Weigh(s) + entry.weight /\ Weigh(u) \in Nat
  <2>1. Weigh(u) = Weigh(s) + Weigh(one)
    BY <1>1, <1>2, <1>3, <1>4, WeighBoth
  <2>2. Weigh(one) = entry.weight /\ Weigh(u) \in Nat
    BY <1>2, <1>3, WeighTyped
  <2> QED BY <2>1, <2>2
<1>6. OnceEach(u)
  <2> SUFFICES ASSUME NEW i \in 1 .. Len(u), NEW j \in 1 .. Len(u), u[i].key = u[j].key
               PROVE  i = j
    BY DEF OnceEach
  <2>1. \A k \in 1 .. Len(u) : k = Len(s) + 1 \/ k \in 1 .. Len(s)
    BY <1>1, <1>3
  <2>2. \A k \in 1 .. Len(s) : u[k] = s[k] /\ u[k].key # entry.key
    BY <1>3 DEF s
  <2> QED BY <1>1, <1>3, <2>1, <2>2 DEF OnceEach
<1> QED BY <1>1, <1>3, <1>5, <1>6 DEF Counted, s, u

LEMMA InsertedIsKept ==
  ASSUME NEW E, Weighed(E), NEW capacity \in Nat \ {0}, NEW maxBytes \in Nat,
         NEW cache, Kept(E, cache, capacity, maxBytes), NEW entry \in E
  PROVE  Kept(E, Inserted(cache, entry, capacity, maxBytes), capacity, maxBytes)
<1>1. entry.weight \in Nat
  BY DEF Weighed
<1>2. CASE entry.weight > maxBytes
  BY <1>2 DEF Inserted
<1>3. CASE ~ (entry.weight > maxBytes)
  <2> DEFINE popped == Popped(cache, entry.key)
             room == MadeRoom(popped, entry.weight, maxBytes)
             kept == IF Len(room.entries) = capacity THEN WithoutOldest(room, 1) ELSE room
             done == [entries |-> Append(kept.entries, entry),
                      resident |-> kept.resident + entry.weight]
  <2>1. Inserted(cache, entry, capacity, maxBytes) = done
    BY <1>3 DEF Inserted
  <2>2. /\ Counted(E, popped) /\ PartOf(popped, cache)
        /\ \A i \in 1 .. Len(popped.entries) : popped.entries[i].key # entry.key
    BY PoppedCounts DEF Kept
  <2> HIDE DEF popped
  <2>3. Counted(E, room) /\ PartOf(room, popped) /\ room.resident + entry.weight <= maxBytes
    <3>1. entry.weight <= maxBytes
      BY <1>1, <1>3
    <3> QED BY <1>1, <2>2, <3>1, MadeRoomCounts
  <2> HIDE DEF room
  <2>4. /\ Len(room.entries) \in Nat /\ Len(popped.entries) \in Nat /\ Len(cache.entries) \in Nat
        /\ Len(room.entries) <= capacity /\ room.resident \in Nat
    BY <2>2, <2>3 DEF Kept, Counted, PartOf
  <2>5. /\ Counted(E, kept) /\ PartOf(kept, room) /\ Len(kept.entries) + 1 <= capacity
    <3>1. CASE Len(room.entries) = capacity
      <4>1. 1 \in 0 .. Len(room.entries)
        BY <2>4, <3>1
      <4>2. /\ Counted(E, WithoutOldest(room, 1)) /\ PartOf(WithoutOldest(room, 1), room)
            /\ Len(WithoutOldest(room, 1).entries) = Len(room.entries) - 1
        BY <2>3, <4>1, WithoutOldestCounts
      <4> QED BY <2>4, <3>1, <4>2
    <3>2. CASE Len(room.entries) # capacity
      <4>1. Len(room.entries) + 1 <= capacity
        BY <2>4, <3>2
      <4>2. PartOf(room, room)
        BY <2>3 DEF PartOf, Counted
      <4> QED BY <2>3, <3>2, <4>1, <4>2
    <3> QED BY <3>1, <3>2
  <2> HIDE DEF kept
  <2>6. \A i \in 1 .. Len(kept.entries) : kept.entries[i].key # entry.key
    <3> SUFFICES ASSUME NEW i \in 1 .. Len(kept.entries)
                 PROVE  kept.entries[i].key # entry.key
      OBVIOUS
    <3>1. PICK j \in 1 .. Len(room.entries) : kept.entries[i] = room.entries[j]
      BY <2>5 DEF PartOf
    <3>2. PICK k \in 1 .. Len(popped.entries) : room.entries[j] = popped.entries[k]
      BY <2>3 DEF PartOf
    <3> QED BY <2>2, <3>1, <3>2
  <2>7. Counted(E, done) /\ Len(done.entries) = Len(kept.entries) + 1
    BY <2>5, <2>6, AppendCounts
  <2>8. done.resident <= maxBytes
    BY <1>1, <2>3, <2>4, <2>5 DEF PartOf, Counted
  <2> HIDE DEF done
  <2> QED BY <2>1, <2>5, <2>7, <2>8 DEF Kept
<1> QED BY <1>2, <1>3

LEMMA TouchedIsKept ==
  ASSUME NEW E, Weighed(E), NEW capacity \in Nat, NEW maxBytes \in Nat,
         NEW cache, Kept(E, cache, capacity, maxBytes), NEW key, Holds(cache, key)
  PROVE  Kept(E, Touched(cache, key), capacity, maxBytes)
<1> DEFINE popped == Popped(cache, key)
           entry == EntryOf(cache, key)
<1>1. /\ Counted(E, popped) /\ entry \in E /\ entry.key = key
      /\ \A i \in 1 .. Len(popped.entries) : popped.entries[i].key # key
      /\ popped.entries = OthersThan(cache, key)
      /\ Len(popped.entries) = Len(cache.entries) - 1
      /\ cache.resident = Weigh(popped.entries) + entry.weight
  BY PoppedCounts DEF Kept
<1>2. Touched(cache, key) = [entries |-> Append(popped.entries, entry),
                             resident |-> popped.resident + entry.weight]
  <2>1. cache \in [entries : Seq(E), resident : Nat]
    BY DEF Kept, Counted
  <2>2. Touched(cache, key) = [entries |-> Append(popped.entries, entry),
                               resident |-> cache.resident]
    <3>1. \A x : [cache EXCEPT !.entries = x] = [entries |-> x, resident |-> cache.resident]
      BY <2>1
    <3>2. Touched(cache, key) = [cache EXCEPT !.entries = Append(popped.entries, entry)]
      BY <1>1 DEF Touched
    <3> HIDE DEF popped, entry
    <3> QED BY <3>1, <3>2
  <2> HIDE DEF popped, entry
  <2> QED BY <1>1, <2>2 DEF Counted
<1> HIDE DEF popped, entry
<1>3. /\ Counted(E, [entries |-> Append(popped.entries, entry),
                     resident |-> popped.resident + entry.weight])
      /\ Len(Append(popped.entries, entry)) = Len(popped.entries) + 1
  BY <1>1, AppendCounts
<1>4. Len(cache.entries) \in Nat /\ Len(popped.entries) \in Nat
  BY <1>1 DEF Kept, Counted
<1>5. popped.resident + entry.weight = cache.resident
  BY <1>1 DEF Counted
<1>6. Len(popped.entries) + 1 = Len(cache.entries)
  BY <1>1, <1>4
<1> QED BY <1>2, <1>3, <1>5, <1>6 DEF Kept

\* What a cache holds for a key.
LEMMA EntryFound ==
  ASSUME NEW E, Weighed(E), NEW cache, Counted(E, cache), NEW key, Holds(cache, key)
  PROVE  EntryOf(cache, key) \in E /\ EntryOf(cache, key).key = key
BY PoppedCounts

-----------------------------------------------------------------------------
(* The responses of revisions. *)

\* Every mutation with a response is in the order of eviction, the bytes of
\* those are counted, and the limits hold.
RevisionsCounted ==
  /\ \A m \in Mutations : Present(m) /\ ~InFlightRevision(m) =>
       \E i \in 1 .. Len(completed) : completed[i] = m
  /\ completedBytes = Total([i \in 1 .. Len(completed) |-> revisions[completed[i]].weight])
  /\ completedBytes <= RevisionMaxBytes /\ Len(completed) <= RevisionCapacity

\* The eviction that follows a completion counts down what it evicts.
LEMMA EvictionCounts ==
  ASSUME NEW entries \in [Mutations -> RevisionEntries \cup {None}],
         NEW order \in Seq(Mutations), NEW bytes, Evicting(entries, order, bytes),
         bytes = Total([i \in 1 .. Len(order) |-> entries[order[i]].weight]),
         \A i \in 1 .. Len(order) :
           entries[order[i]] # None /\ entries[order[i]].response # None,
         \A i, j \in 1 .. Len(order) : order[i] = order[j] => i = j,
         \A m \in Mutations : entries[m] # None /\ entries[m].response # None =>
           \E i \in 1 .. Len(order) : order[i] = m
  PROVE  RevisionsCounted'
<1> DEFINE weights == [i \in 1 .. Len(order) |-> entries[order[i]].weight]
           left(n) == Less(bytes, Total([i \in 1 .. n |->
                        IF entries[order[i]] # None /\ entries[order[i]].response # None
                          THEN entries[order[i]].weight ELSE 0]))
<1>1. PICK n \in 0 .. Len(order) :
        /\ Len(order) - n <= RevisionCapacity /\ left(n) <= RevisionMaxBytes
        /\ revisions' = [m \in Mutations |->
             IF Contains(SubSeq(order, 1, n), m) THEN None ELSE entries[m]]
        /\ completed' = SubSeq(order, n + 1, Len(order))
        /\ completedBytes' = left(n)
  BY DEF Evicting
<1>2. /\ Len(order) \in Nat /\ n \in Nat /\ n <= Len(order) /\ Len(order) - n \in Nat
      /\ \A i \in 1 .. Len(order) : order[i] \in Mutations
  OBVIOUS
<1>3. /\ Len(completed') = Len(order) - n
      /\ \A i \in 1 .. Len(order) - n : completed'[i] = order[n + i]
      /\ \A m : Contains(SubSeq(order, 1, n), m) <=> \E i \in 1 .. n : order[i] = m
  BY <1>1, PartsOf DEF Contains
<1>4. \A m \in Mutations :
        revisions'[m] = IF \E i \in 1 .. n : order[i] = m THEN None ELSE entries[m]
  BY <1>1, <1>3
<1>5. ASSUME NEW i \in 1 .. Len(order) - n
      PROVE  /\ n + i \in 1 .. Len(order) /\ completed'[i] = order[n + i]
             /\ revisions'[completed'[i]] = entries[order[n + i]]
  <2>1. n + i \in 1 .. Len(order) /\ \A j \in 1 .. n : j # n + i /\ j \in 1 .. Len(order)
    BY <1>2
  <2> QED BY <1>2, <1>3, <1>4, <2>1
<1>6. ASSUME NEW m \in Mutations, revisions'[m] # None, revisions'[m].response # None
      PROVE  \E i \in 1 .. Len(completed') : completed'[i] = m
  <2>1. /\ entries[m] # None /\ entries[m].response # None
        /\ \A i \in 1 .. n : order[i] # m
    BY <1>4, <1>6
  <2>2. PICK j \in 1 .. Len(order) : order[j] = m
    BY <2>1
  <2>3. ~ (j <= n)
    BY <1>2, <2>1, <2>2
  <2>4. PICK i \in 1 .. Len(order) - n : j = n + i
    <3>1. j - n \in 1 .. Len(order) - n /\ j = n + (j - n)
      BY <1>2, <2>3
    <3> QED BY <3>1
  <2> QED BY <1>3, <2>2, <2>4
<1>7. completedBytes' = Total([i \in 1 .. Len(completed') |-> revisions'[completed'[i]].weight])
  <2> DEFINE old == [i \in 1 .. n |-> entries[order[i]].weight]
             kept == [i \in 1 .. Len(order) - n |-> entries[order[n + i]].weight]
  <2>1. \A i \in 1 .. Len(order) : entries[order[i]].weight \in Nat
    BY <1>2 DEF RevisionEntries
  <2>2. weights \in Seq(Nat) /\ Len(weights) = Len(order)
        /\ \A i \in 1 .. Len(order) : weights[i] = entries[order[i]].weight
    BY <1>2, <2>1
  <2>3. old \in Seq(Nat) /\ Len(old) = n /\ \A i \in 1 .. n : old[i] = entries[order[i]].weight
    <3>1. \A i \in 1 .. n : i \in 1 .. Len(order)
      BY <1>2
    <3> QED BY <1>2, <2>1, <3>1
  <2>4. /\ kept \in Seq(Nat) /\ Len(kept) = Len(order) - n
        /\ \A i \in 1 .. Len(order) - n : kept[i] = entries[order[n + i]].weight
    BY <1>2, <1>5, <2>1
  <2>5. bytes = Total(weights)
    OBVIOUS
  <2>6. left(n) = Less(bytes, Total(old))
    <3>1. \A i \in 1 .. n : i \in 1 .. Len(order)
      BY <1>2
    <3>2. old = [i \in 1 .. n |->
                   IF entries[order[i]] # None /\ entries[order[i]].response # None
                     THEN entries[order[i]].weight ELSE 0]
      BY <3>1
    <3> QED BY <3>2
  <2>7. kept = [i \in 1 .. Len(completed') |-> revisions'[completed'[i]].weight]
    BY <1>3, <1>5
  <2> HIDE DEF weights, old, kept, left
  <2>8. Joins(weights, old, kept)
    <3>1. Len(weights) = Len(old) + Len(kept)
      BY <1>2, <2>2, <2>3, <2>4
    <3>2. \A i \in 1 .. Len(old) : weights[i] = old[i]
      <4>1. \A i \in 1 .. n : i \in 1 .. Len(order)
        BY <1>2
      <4> QED BY <2>2, <2>3, <4>1
    <3>3. \A i \in 1 .. Len(kept) : weights[Len(old) + i] = kept[i]
      BY <1>5, <2>2, <2>3, <2>4
    <3> QED BY <3>1, <3>2, <3>3 DEF Joins
  <2>9. Total(weights) = Total(old) + Total(kept) /\ Total(old) \in Nat /\ Total(kept) \in Nat
    BY <2>2, <2>3, <2>4, <2>8, TotalOfBoth, TotalTyped
  <2>10. Less(Total(weights), Total(old)) = Total(kept)
    BY <2>9 DEF Less
  <2> QED BY <1>1, <2>5, <2>6, <2>7, <2>10
<1>8. completedBytes' <= RevisionMaxBytes /\ Len(completed') <= RevisionCapacity
  BY <1>1, <1>3
<1> QED BY <1>6, <1>7, <1>8 DEF RevisionsCounted, Present, InFlightRevision

-----------------------------------------------------------------------------
\* A request that has arrived keeps what it asks and the snapshot it loaded.
MakersStay ==
  /\ asks' = asks
  /\ \A e \in Callers : pc[e] # "new" => pc'[e] # "new" /\ seen'[e] = seen[e]

LEMMA RevisedStays ==
  ASSUME MakersStay, NEW m, NEW change, NEW output \in Outputs, Revised(m, change, output)
  PROVE  Revised(m, change, output)'
<1> DEFINE maker == output.by
<1>1. maker \in Callers
  BY DEF Outputs
<1>2. asks'[maker] = asks[maker] /\ pc'[maker] # "new" /\ seen'[maker] = seen[maker]
  BY <1>1 DEF MakersStay, Revised, StandsAt
<1> QED BY <1>2 DEF Revised, StandsAt, Kind, Mutation, Change

\* Finished mutations that keep their entries keep their responses.
LEMMA ResponsesStay ==
  ASSUME Held, RevisionsAnswer, MakersStay, NEW m \in Mutations,
         Present(m), ~InFlightRevision(m)
  PROVE  Revised(m, revisions[m].change, revisions[m].response)'
           \/ revisions'[m] # revisions[m]
<1>1. revisions[m].response \in Outputs
  BY RevisionTyped DEF Held, InFlightRevision, RevisionEntries
<1>2. Revised(m, revisions[m].change, revisions[m].response)
  BY DEF RevisionsAnswer
<1> DEFINE change == revisions[m].change
           response == revisions[m].response
<1> HIDE DEF change, response
<1>3. \A ch, out : out \in Outputs /\ Revised(m, ch, out) => Revised(m, ch, out)'
  BY RevisedStays
<1> QED BY <1>1, <1>2, <1>3 DEF Revised

\* Entries that change only where no finished mutation is.
LEMMA CountedElsewhere ==
  ASSUME Held, RevisionsCounted, RevisionsAnswer, MakersStay,
         NEW m \in Mutations, ~Present(m) \/ InFlightRevision(m),
         NEW entry \in RevisionEntries \cup {None}, entry # None => entry.response = None,
         revisions' = [revisions EXCEPT ![m] = entry], UNCHANGED <<completed, completedBytes>>
  PROVE  RevisionsCounted' /\ RevisionsAnswer'
<1>1. /\ revisions'[m] = entry /\ \A e \in Mutations \ {m} : revisions'[e] = revisions[e]
      /\ \A i \in 1 .. Len(completed) : completed[i] \in Mutations /\ completed[i] # m
  BY DEF Held, ReservationTyped, CompletedOnce
<1>2. \A e \in Mutations : Present(e)' /\ ~InFlightRevision(e)' =>
        e # m /\ Present(e) /\ ~InFlightRevision(e) /\ revisions'[e] = revisions[e]
  BY <1>1 DEF Present, InFlightRevision
<1>3. [i \in 1 .. Len(completed') |-> revisions'[completed'[i]].weight]
        = [i \in 1 .. Len(completed) |-> revisions[completed[i]].weight]
  BY <1>1
<1>4. RevisionsCounted'
  <2>1. completedBytes' = Total([i \in 1 .. Len(completed') |-> revisions'[completed'[i]].weight])
    BY <1>3 DEF RevisionsCounted
  <2>2. \A e \in Mutations : Present(e)' /\ ~InFlightRevision(e)' =>
          \E i \in 1 .. Len(completed') : completed'[i] = e
    BY <1>2 DEF RevisionsCounted
  <2> QED BY <2>1, <2>2 DEF RevisionsCounted
<1>5. RevisionsAnswer'
  BY <1>2, ResponsesStay DEF RevisionsAnswer
<1> QED BY <1>4, <1>5

\* The leader of a revision completes it.
LEMMA CountedAfterRevision ==
  ASSUME Requests, Held, RevisionsCounted, RevisionsAnswer, MakersStay, NEW c \in Callers,
         leads[c], Kind(c) = "revise",
         NEW response \in Outputs, Revised(Mutation(c), Change(c), response),
         CompleteRevision(c, Mutation(c), response, Weight[Change(c)])
  PROVE  RevisionsCounted' /\ RevisionsAnswer'
<1> DEFINE m == Mutation(c)
           change == Change(c)
           weight == Weight[Change(c)]
           done == [revisions[m] EXCEPT !.response = response, !.weight = weight]
           size == Len(completed)
           weights == [i \in 1 .. size |-> revisions[completed[i]].weight]
<1>1. /\ m \in Mutations /\ response \in Outputs /\ response # None /\ weight \in Nat
      /\ InFlightRevision(m) /\ revisions[m].leader = c /\ revisions[m].change = Change(c)
      /\ revisions[m] \in RevisionEntries /\ revisions[m] # None
  <2>1. m \in Mutations /\ Change(c) \in Names
    BY AsksTyped DEF Requests
  <2>2. InFlightRevision(m) /\ revisions[m].leader = c /\ revisions[m].change = Change(c)
    BY DEF Held, RevisionsRunOnce
  <2>3. weight \in Nat
    BY <2>1, ServingAssumption
  <2> QED BY <2>1, <2>2, <2>3, RevisionTyped, NoneIsNobody DEF InFlightRevision, Present, Held
<1>2. /\ done \in RevisionEntries /\ done # None /\ done.response = response
      /\ done.weight = weight /\ done.change = change
  BY <1>1, NoneIsNobody DEF RevisionEntries
<1>3. /\ completed \in Seq(Mutations) /\ size \in Nat
      /\ \A i \in 1 .. size : /\ completed[i] # m /\ completed[i] \in Mutations
                              /\ revisions[completed[i]] # None
                              /\ revisions[completed[i]].response # None
      /\ \A i, j \in 1 .. size : completed[i] = completed[j] => i = j
  BY <1>1 DEF Held, ReservationTyped, CompletedOnce, Present, InFlightRevision
<1>4. /\ weights \in Seq(Nat) /\ Len(weights) = size /\ completedBytes = Total(weights)
      /\ \A i \in 1 .. size : weights[i] = revisions[completed[i]].weight
  <2>1. \A i \in 1 .. size : revisions[completed[i]].weight \in Nat
    BY <1>3 DEF Held, ReservationTyped, RevisionEntries
  <2>2. completedBytes = Total(weights)
    BY DEF RevisionsCounted
  <2> QED BY <1>3, <2>1, <2>2
<1>5. IF weight <= RevisionMaxBytes
        THEN Evicting([revisions EXCEPT ![m] = done], Append(completed, m), completedBytes + weight)
        ELSE Evicting([revisions EXCEPT ![m] = None], completed, completedBytes)
  BY <1>1 DEF CompleteRevision
<1>6. \A e \in Mutations : revisions[e] # None /\ revisions[e].response # None =>
        \E i \in 1 .. size : completed[i] = e
  BY DEF RevisionsCounted, Present, InFlightRevision
<1>7. \A e, changed : e = m /\ changed = change => Revised(e, changed, response)'
  BY RevisedStays
<1> HIDE DEF m, change, weight, done, weights
<1>8. CASE weight <= RevisionMaxBytes
  <2> DEFINE entries == [revisions EXCEPT ![m] = done]
             order == Append(completed, m)
             all == [i \in 1 .. Len(order) |-> entries[order[i]].weight]
  <2>1. /\ entries \in [Mutations -> RevisionEntries \cup {None}]
        /\ entries[m] = done /\ \A e \in Mutations \ {m} : entries[e] = revisions[e]
    BY <1>1, <1>2 DEF Held, ReservationTyped
  <2>2. /\ order \in Seq(Mutations) /\ Len(order) = size + 1 /\ order[size + 1] = m
        /\ \A i \in 1 .. size : order[i] = completed[i]
    BY <1>1, <1>3
  <2>3. Evicting(entries, order, completedBytes + weight)
    BY <1>5, <1>8
  <2> HIDE DEF entries, order, size
  <2>4. \A i \in 1 .. Len(order) : i = size + 1 \/ i \in 1 .. size
    BY <1>3, <2>2
  <2>5. \A i \in 1 .. size : entries[order[i]] = revisions[completed[i]]
    BY <1>3, <2>1, <2>2
  <2>6. \A i \in 1 .. Len(order) : entries[order[i]] # None /\ entries[order[i]].response # None
    BY <1>1, <1>2, <1>3, <2>1, <2>2, <2>4, <2>5
  <2>7. \A i, j \in 1 .. Len(order) : order[i] = order[j] => i = j
    BY <1>3, <2>2, <2>4
  <2>8. \A e \in Mutations : entries[e] # None /\ entries[e].response # None =>
          \E i \in 1 .. Len(order) : order[i] = e
    <3> SUFFICES ASSUME NEW e \in Mutations, entries[e] # None, entries[e].response # None
                 PROVE  \E i \in 1 .. Len(order) : order[i] = e
      OBVIOUS
    <3>1. CASE e = m
      <4>1. size + 1 \in 1 .. Len(order)
        BY <1>3, <2>2
      <4> QED BY <2>2, <3>1, <4>1
    <3>2. CASE e # m
      <4>1. PICK i \in 1 .. size : completed[i] = e
        BY <1>6, <2>1, <3>2
      <4>2. i \in 1 .. Len(order)
        BY <1>3, <2>2
      <4> QED BY <2>2, <4>1, <4>2
    <3> QED BY <3>1, <3>2
  <2>9. completedBytes + weight = Total(all)
    <3> DEFINE one == <<weight>>
    <3>1. one \in Seq(Nat) /\ Len(one) = 1 /\ one[1] = weight
      BY <1>1
    <3>2. \A i \in 1 .. Len(order) : entries[order[i]].weight \in Nat
      <4>1. \A i \in 1 .. size : entries[order[i]].weight \in Nat
        BY <1>4, <2>5
      <4>2. entries[order[size + 1]].weight \in Nat
        BY <1>1, <1>2, <2>1, <2>2
      <4> QED BY <2>4, <4>1, <4>2
    <3>3. all \in Seq(Nat) /\ Len(all) = Len(order)
          /\ \A i \in 1 .. Len(order) : all[i] = entries[order[i]].weight
      BY <1>3, <2>2, <3>2
    <3> HIDE DEF one, all
    <3>4. Joins(all, weights, one)
      <4>1. Len(all) = Len(weights) + Len(one)
        BY <1>4, <2>2, <3>1, <3>3
      <4>2. \A i \in 1 .. Len(weights) : all[i] = weights[i]
        <5>1. \A i \in 1 .. size : i \in 1 .. Len(order)
          BY <1>3, <2>2
        <5> QED BY <1>4, <2>5, <3>3, <5>1
      <4>3. all[size + 1] = weight
        <5>1. size + 1 \in 1 .. Len(order)
          BY <1>3, <2>2
        <5> QED BY <1>2, <2>1, <2>2, <3>3, <5>1
      <4>4. \A i \in 1 .. Len(one) : all[Len(weights) + i] = one[i]
        BY <1>4, <3>1, <4>3
      <4> QED BY <4>1, <4>2, <4>4 DEF Joins
    <3> QED BY <1>4, <3>1, <3>3, <3>4, TotalOfBoth, TotalOfOne
  <2> HIDE DEF all
  <2>10. RevisionsCounted'
    BY <2>1, <2>2, <2>3, <2>6, <2>7, <2>8, <2>9, EvictionCounts DEF all
  <2>11. \A e \in Mutations : revisions'[e] = entries[e] \/ revisions'[e] = None
    BY <2>1, <2>2, <2>3, <2>6, <2>7, EvictionTyped
  <2>12. RevisionsAnswer'
    <3> SUFFICES ASSUME NEW e \in Mutations, Present(e)', ~InFlightRevision(e)'
                 PROVE  Revised(e, revisions[e].change, revisions[e].response)'
      BY DEF RevisionsAnswer
    <3>1. revisions'[e] = entries[e]
      BY <2>11 DEF Present
    <3>2. CASE e = m
      <4>1. revisions'[e].change = change /\ revisions'[e].response = response
        BY <1>2, <2>1, <3>1, <3>2
      <4> QED BY <1>7, <3>2, <4>1 DEF Revised
    <3>3. CASE e # m
      BY <2>1, <3>1, <3>3, ResponsesStay DEF Present, InFlightRevision
    <3> QED BY <3>2, <3>3
  <2> QED BY <2>10, <2>12
<1>9. CASE ~(weight <= RevisionMaxBytes)
  <2> DEFINE entries == [revisions EXCEPT ![m] = None]
             all == [i \in 1 .. Len(completed) |-> entries[completed[i]].weight]
  <2>1. /\ entries \in [Mutations -> RevisionEntries \cup {None}]
        /\ entries[m] = None /\ \A e \in Mutations \ {m} : entries[e] = revisions[e]
    BY <1>1 DEF Held, ReservationTyped
  <2>2. Evicting(entries, completed, completedBytes)
    BY <1>5, <1>9
  <2> HIDE DEF entries
  <2>3. \A i \in 1 .. size : entries[completed[i]] = revisions[completed[i]]
    BY <1>3, <2>1
  <2>4. completedBytes = Total(all)
    <3>1. all = weights
      BY <2>3 DEF weights
    <3> QED BY <1>4, <3>1
  <2>5. \A i \in 1 .. Len(completed) :
          entries[completed[i]] # None /\ entries[completed[i]].response # None
    BY <1>3, <2>3
  <2>6. \A e \in Mutations : entries[e] # None /\ entries[e].response # None =>
          \E i \in 1 .. Len(completed) : completed[i] = e
    BY <1>6, <2>1
  <2> HIDE DEF all
  <2>7. RevisionsCounted'
    BY <1>3, <2>1, <2>2, <2>4, <2>5, <2>6, EvictionCounts DEF all
  <2>8. \A e \in Mutations : revisions'[e] = entries[e] \/ revisions'[e] = None
    BY <1>3, <2>1, <2>2, <2>5, EvictionTyped
  <2>9. RevisionsAnswer'
    <3> SUFFICES ASSUME NEW e \in Mutations, Present(e)', ~InFlightRevision(e)'
                 PROVE  Revised(e, revisions[e].change, revisions[e].response)'
      BY DEF RevisionsAnswer
    <3>1. revisions'[e] = entries[e] /\ e # m
      BY <2>1, <2>8 DEF Present
    <3> QED BY <2>1, <3>1, ResponsesStay DEF Present, InFlightRevision
  <2> QED BY <2>7, <2>9
<1> QED BY <1>8, <1>9

\* The revisions are untouched.
LEMMA CountedStays ==
  ASSUME Held, RevisionsCounted, RevisionsAnswer, MakersStay, UNCHANGED idempotencyVars
  PROVE  RevisionsCounted' /\ RevisionsAnswer'
<1>1. RevisionsCounted'
  BY DEF RevisionsCounted, Present, InFlightRevision, idempotencyVars
<1>2. RevisionsAnswer'
  BY ResponsesStay DEF RevisionsAnswer, Present, InFlightRevision, idempotencyVars
<1> QED BY <1>1, <1>2

\* What a request drops, of the reservations, when it ends early.
LEMMA CountedAfterDrop ==
  ASSUME SInv, RevisionsCounted, RevisionsAnswer, MakersStay, NEW c \in Callers,
         DropReservation(c)
  PROVE  RevisionsCounted' /\ RevisionsAnswer'
<1>1. CASE UNCHANGED idempotencyVars
  BY <1>1, CountedStays DEF SInv
<1>2. CASE leads[c] /\ Kind(c) # "search" /\ DropRevision(c, Mutation(c)) /\ ~UNCHANGED idempotencyVars
  <2>1. Mutation(c) \in Mutations /\ Kind(c) = "revise"
    BY <1>2, AsksTyped DEF SInv, Requests, Role, Leaders
  <2>2. /\ InFlightRevision(Mutation(c)) /\ revisions' = [revisions EXCEPT ![Mutation(c)] = None]
        /\ UNCHANGED <<completed, completedBytes>>
    BY <1>2 DEF DropRevision
  <2> QED BY <2>1, <2>2, CountedElsewhere DEF SInv
<1> QED BY <1>1, <1>2 DEF DropReservation, DropRevision

-----------------------------------------------------------------------------
(* The caches, one variable after another. *)

ResponsesKept == Kept(ResponseEntries, responses, ResponseCapacity, ResponseMaxBytes)
PlansKept == Kept(PlanEntries, semantic, SemanticCapacity, SemanticMaxBytes)

Caches ==
  /\ ResponsesKept /\ PlansKept
  /\ recommendations \subseteq Recommendations /\ ListingIsKept
  /\ RevisionsCounted /\ RevisionsAnswer
  /\ HeldTyped /\ HeldAreOwn

LEMMA Limits ==
  /\ ResponseCapacity \in Nat \ {0} /\ ResponseMaxBytes \in Nat \ {0}
  /\ RevisionCapacity \in Nat \ {0} /\ RevisionMaxBytes \in Nat \ {0}
  /\ SemanticCapacity \in Nat \ {0} /\ SemanticMaxBytes \in Nat \ {0}
  /\ \A n \in Names : Weight[n] \in Nat
  /\ Weighed(ResponseEntries) /\ Weighed(PlanEntries)
<1>1. Weighed(ResponseEntries) /\ Weighed(PlanEntries)
  BY DEF Weighed, ResponseEntries, PlanEntries
<1> QED BY <1>1, ServingAssumption

LEMMA NameTyped ==
  ASSUME RequestTyped, NEW c \in Callers
  PROVE  asks[c].name \in Names /\ seen[c] \in Versions
BY ServingAssumption DEF RequestTyped

LEMMA AsksStay == [Next]_vars => asks' = asks
<1> SUFFICES ASSUME [Next]_vars PROVE asks' = asks
  OBVIOUS
<1>1. ASSUME NEW c \in Callers, Arrive(c) \/ LookupResponse(c) \/ LookupRevision(c) \/ Wake(c)
      PROVE  asks' = asks
  BY <1>1 DEF Arrive, LookupResponse, LookupRevision, Wake, Lead, Wait, End
<1>2. ASSUME NEW c \in Callers, QueueTimeout(c) \/ FailCall(c) \/ Cancel(c)
      PROVE  asks' = asks
  BY <1>2 DEF QueueTimeout, FailCall, Cancel, Abort, End
<1>3. ASSUME NEW c \in Callers,
             \/ StartTask(c) \/ EndTask(c) \/ CompleteSearch(c) \/ LookupPlan(c) \/ NextCall(c)
             \/ AnswerJourney(c)
      PROVE  asks' = asks
  BY <1>3 DEF StartTask, EndTask, CompleteSearch, LookupPlan, NextCall, AnswerJourney, End
<1>4. ASSUME NEW c \in Callers,
             \/ LookupListing(c) \/ KeepListing(c)
             \/ LookupRecommendation(c) \/ KeepRecommendation(c)
      PROVE  asks' = asks
  BY <1>4 DEF LookupListing, KeepListing, LookupRecommendation, KeepRecommendation, End
<1>5. ASSUME NEW a \in Reloads, Load(a) \/ ReloadStep(a) \/ AbandonReload(a)
      PROVE  asks' = asks
  BY <1>5 DEF Load, ReloadStep, AbandonReload, ClearRecommendations, ClearListing, ClearSearches,
         StoreSnapshot
<1>6. CASE UNCHANGED vars
  BY <1>6 DEF vars
<1> QED BY <1>1, <1>2, <1>3, <1>4, <1>5, <1>6 DEF Next, RequestStep

\* A step of a request moves at most that request, and only on.
Moves(c) ==
  /\ \/ UNCHANGED pc
     \/ \E step \in StepsOf \ {"new"} : pc' = [pc EXCEPT ![c] = step]
  /\ UNCHANGED seen \/ (pc[c] = "new" /\ \E v : seen' = [seen EXCEPT ![c] = v])

LEMMA NobodyGoesBack ==
  ASSUME SInv, [Next]_vars
  PROVE  MakersStay
<1>1. ASSUME NEW c \in Callers, Moves(c)
      PROVE  MakersStay
  BY <1>1, AsksStay DEF Moves, MakersStay, SInv, Requests, RequestTyped
<1>2. ASSUME NEW c \in Callers, NEW result, End(c, result)
      PROVE  Moves(c)
  BY <1>2 DEF End, GoTo, Moves, StepsOf
<1>3. ASSUME NEW c \in Callers,
             \/ QueueTimeout(c) \/ FailCall(c) \/ Cancel(c) \/ CompleteSearch(c)
             \/ KeepListing(c) \/ KeepRecommendation(c) \/ AnswerJourney(c)
      PROVE  Moves(c)
  BY <1>2, <1>3 DEF QueueTimeout, FailCall, Cancel, Abort, CompleteSearch, KeepListing,
                    KeepRecommendation, AnswerJourney
<1>4. ASSUME NEW c \in Callers,
             \/ LookupResponse(c) \/ LookupRevision(c) \/ Wake(c)
             \/ LookupListing(c) \/ LookupRecommendation(c)
      PROVE  Moves(c)
  <2>1. \/ \E result : End(c, result)
        \/ /\ UNCHANGED seen
           /\ \E step \in {"slot", "wait", "lookup", "build"} : pc' = [pc EXCEPT ![c] = step]
    BY <1>4 DEF LookupResponse, LookupRevision, Wake, LookupListing, LookupRecommendation,
                Lead, Wait, Calls, GoTo
  <2>2. {"slot", "wait", "lookup", "build"} \subseteq StepsOf \ {"new"}
    BY DEF StepsOf
  <2> QED BY <1>2, <2>1, <2>2 DEF Moves
<1>5. ASSUME NEW c \in Callers,
             Arrive(c) \/ StartTask(c) \/ EndTask(c) \/ LookupPlan(c) \/ NextCall(c)
      PROVE  Moves(c)
  <2>1. UNCHANGED seen \/ (pc[c] = "new" /\ \E v : seen' = [seen EXCEPT ![c] = v])
    BY <1>5 DEF Arrive, StartTask, EndTask, LookupPlan, NextCall, StandsAt
  <2>2. \/ UNCHANGED pc
        \/ \E step \in {"over", "slot", "lookup", "task", "called", "decide", "plan"} :
             pc' = [pc EXCEPT ![c] = step]
    BY <1>5 DEF Arrive, StartTask, EndTask, LookupPlan, NextCall, Calls, GoTo
  <2>3. {"over", "slot", "lookup", "task", "called", "decide", "plan"} \subseteq StepsOf \ {"new"}
    BY DEF StepsOf
  <2> QED BY <2>1, <2>2, <2>3 DEF Moves
<1>6. CASE UNCHANGED <<pc, seen>>
  BY <1>6, AsksStay DEF MakersStay
<1>7. ASSUME NEW a \in Reloads, Load(a) \/ ReloadStep(a) \/ AbandonReload(a)
      PROVE  UNCHANGED <<pc, seen>>
  BY <1>7 DEF Load, ReloadStep, AbandonReload, ClearRecommendations, ClearListing, ClearSearches,
              StoreSnapshot, requestVars
<1>8. CASE UNCHANGED vars
  BY <1>6, <1>8 DEF vars, requestVars
<1> QED BY <1>1, <1>3, <1>4, <1>5, <1>6, <1>7, <1>8 DEF Next, RequestStep

LEMMA InitCaches == Init => Caches
<1> SUFFICES ASSUME Init PROVE Caches
  OBVIOUS
<1>1. /\ responses = EmptyCache /\ semantic = EmptyCache /\ recommendations = {}
      /\ catalogCache = None /\ completed = <<>> /\ completedBytes = 0
      /\ revisions = [m \in Mutations |-> None]
  BY DEF Init, ResponseInit, RevisionInit
<1>2. ResponsesKept /\ PlansKept
  BY <1>1, Limits, EmptyIsKept DEF ResponsesKept, PlansKept
<1>3. \A m \in Mutations : ~Present(m)
  BY <1>1 DEF Present
<1>4. RevisionsCounted
  <2> DEFINE weights == [i \in 1 .. Len(completed) |-> revisions[completed[i]].weight]
  <2>1. Len(completed) = 0
    BY <1>1
  <2>2. weights \in Seq(Nat) /\ Len(weights) = 0
    BY <2>1
  <2> HIDE DEF weights
  <2>3. Total(weights) = 0
    BY <2>2, TotalTyped
  <2> QED BY <1>1, <1>3, <2>1, <2>3, Limits DEF RevisionsCounted, weights
<1>5. HeldTyped /\ HeldAreOwn
  BY DEF Init, HeldTyped, HeldAreOwn
<1> QED BY <1>1, <1>2, <1>3, <1>4, <1>5 DEF Caches, ListingIsKept, RevisionsAnswer

LEMMA ResponsesStep ==
  ASSUME SInv, Caches, [Next]_vars
  PROVE  ResponsesKept'
<1>1. CASE UNCHANGED responses
  BY <1>1 DEF Caches, ResponsesKept, Kept, Counted
<1>2. ASSUME NEW c \in Callers, LookupResponse(c)
      PROVE  ResponsesKept'
  <2>1. UNCHANGED responses \/ (Holds(responses, Key(c)) /\ responses' = Touched(responses, Key(c)))
    BY <1>2 DEF LookupResponse, HitResponse, ReserveResponse, responseVars
  <2>2. CASE Holds(responses, Key(c)) /\ responses' = Touched(responses, Key(c))
    BY <2>2, Limits, TouchedIsKept DEF Caches, ResponsesKept
  <2> QED BY <1>1, <2>1, <2>2
<1>3. ASSUME NEW c \in Callers, CompleteSearch(c)
      PROVE  ResponsesKept'
  <2> DEFINE entry == [key |-> Key(c), output |-> Computed(c, asks[c].name),
                       weight |-> Weight[Key(c).query]]
  <2>1. UNCHANGED responses
        \/ responses' = Inserted(responses, entry, ResponseCapacity, ResponseMaxBytes)
    BY <1>3 DEF CompleteSearch, CompleteResponse, responseVars
  <2>2. Kind(c) = "search"
    BY <1>3, AsksTyped DEF CompleteSearch, StandsAt, SInv, Requests, Role, Calling, CallsOf, Kinds
  <2>3. /\ Key(c) \in CacheKeys /\ Computed(c, asks[c].name) \in Outputs
        /\ Key(c).version = seen[c] /\ Key(c).query = asks[c].name
    BY <2>2, AsksTyped DEF SInv, Requests
  <2>4. Computed(c, asks[c].name).of = asks[c].name /\ Computed(c, asks[c].name).from = seen[c]
    BY DEF Computed
  <2>5. Weight[Key(c).query] \in Nat
    BY <2>3, Limits, NameTyped DEF SInv, Requests
  <2>6. entry \in ResponseEntries
    BY <2>3, <2>4, <2>5 DEF ResponseEntries
  <2> HIDE DEF entry
  <2>7. CASE responses' = Inserted(responses, entry, ResponseCapacity, ResponseMaxBytes)
    BY <2>6, <2>7, Limits, InsertedIsKept DEF Caches, ResponsesKept
  <2> QED BY <1>1, <2>1, <2>7
<1>4. ASSUME NEW a \in Reloads, ClearSearches(a)
      PROVE  ResponsesKept'
  <2>1. responses' = EmptyCache
    BY <1>4 DEF ClearSearches, ClearResponses
  <2> QED BY <2>1, Limits, EmptyIsKept DEF ResponsesKept
<1>5. ASSUME NEW c \in Callers,
             \/ Arrive(c) \/ LookupRevision(c) \/ Wake(c) \/ StartTask(c) \/ LookupPlan(c)
             \/ NextCall(c) \/ AnswerJourney(c) \/ LookupListing(c) \/ KeepListing(c)
             \/ LookupRecommendation(c) \/ KeepRecommendation(c) \/ EndTask(c)
      PROVE  UNCHANGED responses
  BY <1>5 DEF Arrive, LookupRevision, Wake, StartTask, LookupPlan, NextCall, AnswerJourney,
         LookupListing, KeepListing, LookupRecommendation, KeepRecommendation, EndTask, responseVars
<1>6. ASSUME NEW c \in Callers, QueueTimeout(c) \/ FailCall(c) \/ Cancel(c)
      PROVE  UNCHANGED responses
  BY <1>6 DEF QueueTimeout, FailCall, Cancel, Abort, DropReservation, DropResponse, responseVars
<1>7. ASSUME NEW a \in Reloads,
             \/ Load(a) \/ ClearRecommendations(a) \/ ClearListing(a) \/ StoreSnapshot(a)
             \/ AbandonReload(a)
      PROVE  UNCHANGED responses
  BY <1>7 DEF Load, ClearRecommendations, ClearListing, StoreSnapshot, AbandonReload, responseVars
<1>8. CASE UNCHANGED vars
  BY <1>1, <1>8 DEF vars, responseVars
<1> QED BY <1>1, <1>2, <1>3, <1>4, <1>5, <1>6, <1>7, <1>8 DEF Next, RequestStep, ReloadStep

\* What a call on a plan computes is kept for that plan.
LEMMA PlanIsKept ==
  ASSUME SInv, Caches, NEW c \in Callers, Decides(c), KeepsPlan(c)
  PROVE  PlansKept'
<1> DEFINE entry == [key |-> Plan(c), output |-> Computed(c, Plan(c).plan),
                     weight |-> Weight[Plan(c).plan]]
<1>1. CASE UNCHANGED semantic
  BY <1>1 DEF Caches, PlansKept, Kept, Counted
<1>2. CASE /\ Executed(c)
           /\ semantic' = Inserted(semantic, entry, SemanticCapacity, SemanticMaxBytes)
  <2>1. /\ Plan(c) \in [plan : Names, version : Versions] /\ Plan(c).plan \in Names
        /\ Plan(c).version = seen[c] /\ Computed(c, Plan(c).plan) \in Outputs
    BY <1>2, PlanTyped DEF SInv
  <2>2. Computed(c, Plan(c).plan).of = Plan(c).plan /\ Computed(c, Plan(c).plan).from = seen[c]
    BY DEF Computed
  <2>3. entry \in PlanEntries
    BY <2>1, <2>2, Limits DEF PlanEntries
  <2> HIDE DEF entry
  <2> QED BY <1>2, <2>3, Limits, InsertedIsKept DEF Caches, PlansKept
<1> QED BY <1>1, <1>2 DEF KeepsPlan, InsertPlan

LEMMA PlansStep ==
  ASSUME SInv, Caches, [Next]_vars
  PROVE  PlansKept'
<1>1. CASE UNCHANGED semantic
  BY <1>1 DEF Caches, PlansKept, Kept, Counted
<1>2. ASSUME NEW c \in Callers, LookupPlan(c)
      PROVE  PlansKept'
  <2>1. UNCHANGED semantic \/ (Holds(semantic, Plan(c)) /\ semantic' = Touched(semantic, Plan(c)))
    BY <1>2 DEF LookupPlan, HitPlan
  <2>2. CASE Holds(semantic, Plan(c)) /\ semantic' = Touched(semantic, Plan(c))
    BY <2>2, Limits, TouchedIsKept DEF Caches, PlansKept
  <2> QED BY <1>1, <2>1, <2>2
<1>3. ASSUME NEW c \in Callers, NextCall(c) \/ AnswerJourney(c)
      PROVE  PlansKept'
  BY <1>3, PlanIsKept DEF NextCall, AnswerJourney
<1>4. ASSUME NEW c \in Callers,
             \/ Arrive(c) \/ LookupResponse(c) \/ LookupRevision(c) \/ Wake(c) \/ StartTask(c)
             \/ CompleteSearch(c) \/ LookupListing(c) \/ KeepListing(c)
             \/ LookupRecommendation(c) \/ KeepRecommendation(c) \/ EndTask(c)
      PROVE  UNCHANGED semantic
  BY <1>4 DEF Arrive, LookupResponse, LookupRevision, Wake, StartTask, CompleteSearch,
         LookupListing, KeepListing, LookupRecommendation, KeepRecommendation, EndTask, revisionVars
<1>5. ASSUME NEW c \in Callers, QueueTimeout(c) \/ FailCall(c) \/ Cancel(c)
      PROVE  UNCHANGED semantic
  BY <1>5 DEF QueueTimeout, FailCall, Cancel, Abort
<1>6. ASSUME NEW a \in Reloads, Load(a) \/ ReloadStep(a) \/ AbandonReload(a)
      PROVE  UNCHANGED semantic
  BY <1>6 DEF Load, ReloadStep, ClearRecommendations, ClearListing, ClearSearches, StoreSnapshot,
         AbandonReload, revisionVars
<1>7. CASE UNCHANGED vars
  BY <1>1, <1>7 DEF vars, revisionVars
<1> QED BY <1>1, <1>2, <1>3, <1>4, <1>5, <1>6, <1>7 DEF Next, RequestStep

LEMMA ListingsStep ==
  ASSUME SInv, Caches, [Next]_vars
  PROVE  recommendations' \subseteq Recommendations /\ ListingIsKept'
<1>1. asks' = asks
  BY AsksStay
<1>2. CASE recommendations' \subseteq recommendations /\ catalogCache' \in {catalogCache, None}
  BY <1>1, <1>2 DEF Caches, ListingIsKept, Kind
<1>3. ASSUME NEW c \in Callers, KeepListing(c)
      PROVE  recommendations' \subseteq Recommendations /\ ListingIsKept'
  <2> DEFINE output == Computed(c, asks[c].name)
  <2>1. /\ catalogCache' = [version |-> seen[c], output |-> output]
        /\ UNCHANGED recommendations /\ pc[c] = "called" /\ call[c] = "list"
    BY <1>3 DEF KeepListing, StandsAt
  <2>2. Kind(c) = "listing"
    BY <2>1, AsksTyped DEF SInv, Requests, Role, Calling, CallsOf, Kinds
  <2>3. /\ output \in Outputs /\ seen[c] \in Versions
        /\ output.of = asks[c].name /\ output.from = seen[c]
    BY AsksTyped, NameTyped DEF SInv, Requests, Computed
  <2>4. \A d \in Callers : Kind(d) = "listing" => asks[d].name = asks[c].name
    BY <2>2, ServingAssumption DEF SInv, Requests, RequestTyped, Kind
  <2> HIDE DEF output
  <2> QED BY <1>1, <2>1, <2>3, <2>4 DEF Caches, ListingIsKept, Kind
<1>4. ASSUME NEW c \in Callers, KeepRecommendation(c)
      PROVE  recommendations' \subseteq Recommendations /\ ListingIsKept'
  <2> DEFINE output == Computed(c, asks[c].name)
             one == [property |-> asks[c].name, version |-> seen[c], output |-> output]
  <2>1. recommendations' \subseteq recommendations \cup {one} /\ UNCHANGED catalogCache
    BY <1>4 DEF KeepRecommendation
  <2>2. /\ output \in Outputs /\ asks[c].name \in Names /\ seen[c] \in Versions
        /\ output.of = asks[c].name /\ output.from = seen[c]
    BY AsksTyped, NameTyped DEF SInv, Requests, Computed
  <2> HIDE DEF output
  <2>3. one \in Recommendations
    BY <2>2 DEF Recommendations
  <2> QED BY <1>1, <2>1, <2>3 DEF Caches, ListingIsKept, Kind
<1>5. ASSUME NEW c \in Callers,
             \/ Arrive(c) \/ LookupResponse(c) \/ LookupRevision(c) \/ Wake(c) \/ StartTask(c)
             \/ CompleteSearch(c) \/ LookupPlan(c) \/ NextCall(c) \/ AnswerJourney(c)
             \/ LookupListing(c) \/ LookupRecommendation(c) \/ EndTask(c)
      PROVE  UNCHANGED <<recommendations, catalogCache>>
  BY <1>5 DEF Arrive, LookupResponse, LookupRevision, Wake, StartTask, CompleteSearch, LookupPlan,
         NextCall, AnswerJourney, LookupListing, LookupRecommendation, EndTask, listingVars
<1>6. ASSUME NEW c \in Callers, QueueTimeout(c) \/ FailCall(c) \/ Cancel(c)
      PROVE  UNCHANGED <<recommendations, catalogCache>>
  BY <1>6 DEF QueueTimeout, FailCall, Cancel, Abort
<1>7. ASSUME NEW a \in Reloads, Load(a) \/ ReloadStep(a) \/ AbandonReload(a)
      PROVE  recommendations' \subseteq recommendations /\ catalogCache' \in {catalogCache, None}
  BY <1>7 DEF Load, ReloadStep, ClearRecommendations, ClearListing, ClearSearches, StoreSnapshot,
         AbandonReload, listingVars
<1>8. CASE UNCHANGED vars
  BY <1>2, <1>8 DEF vars, listingVars
<1> QED BY <1>2, <1>3, <1>4, <1>5, <1>6, <1>7, <1>8 DEF Next, RequestStep

\* What a request has been given by execute_plan is of one of its plans ...
Own(c, output) ==
  /\ pc[c] # "new" /\ output.from = seen[c]
  /\ IF Kind(c) = "revise" THEN output.of \in {Mutation(c), Change(c)}
                            ELSE output.of = asks[c].name

LEMMA GivenAreOwn ==
  ASSUME SInv, Caches, NEW c \in Callers, NEW output \in Given(c)
  PROVE  output \in Outputs /\ Own(c, output)
<1>1. output \in Outputs
  BY GivenTyped DEF SInv, Caches
<1>2. CASE output \in held[c]
  BY <1>1, <1>2 DEF Caches, HeldAreOwn, Own, StandsAt
<1>3. CASE Executed(c) /\ output = Computed(c, Plan(c).plan)
  <2>1. pc[c] = "called" /\ output.of = Plan(c).plan /\ output.from = seen[c]
    BY <1>3 DEF Executed, StandsAt, Computed
  <2> QED BY <1>1, <1>3, <2>1, PlanTyped DEF SInv, Own
<1> QED BY <1>1, <1>2, <1>3 DEF Given

\* ... so the envelope of its answer is an answer to what it asks.
LEMMA EnvelopesAnswer ==
  ASSUME SInv, Caches, NEW c \in Callers, Decides(c), NEW envelope \in Envelopes(c)
  PROVE  envelope \in Outputs /\ Answers(c, envelope)
<1>1. envelope \in Outputs /\ pc[c] # "new"
  BY GivenTyped DEF SInv, Caches, Decides, StandsAt
<1>2. CASE envelope = Computed(c, asks[c].name)
  BY <1>1, <1>2 DEF Computed, Answers, Revised, StandsAt, Mutation
<1>3. ASSUME NEW output \in Given(c), envelope = [output EXCEPT !.by = c]
      PROVE  Answers(c, envelope)
  <2>1. /\ envelope.by = c /\ envelope.of = output.of /\ envelope.from = output.from
        /\ Own(c, output)
    BY <1>3, GivenAreOwn DEF Outputs
  <2> QED BY <2>1 DEF Answers, Revised, Own, StandsAt
<1> QED BY <1>1, <1>2, <1>3 DEF Envelopes

\* What a request holds is its own: what it found and what it computed.
LEMMA HeldStep ==
  ASSUME SInv, Caches, [Next]_vars
  PROVE  HeldTyped' /\ HeldAreOwn'
<1>1. MakersStay /\ HeldTyped
  BY NobodyGoesBack DEF Caches
<1>2. ASSUME NEW c \in Callers, NEW output, Own(c, output)
      PROVE  Own(c, output)'
  BY <1>1, <1>2 DEF MakersStay, Own, Kind, Mutation, Change
<1>3. ASSUME NEW c \in Callers, NEW given \in SUBSET Outputs, held' = [held EXCEPT ![c] = given],
             \A output \in given : Own(c, output)
      PROVE  HeldTyped' /\ HeldAreOwn'
  <2>1. HeldTyped'
    BY <1>1, <1>3 DEF HeldTyped
  <2>2. ASSUME NEW e \in Callers, NEW output \in held'[e]
        PROVE  Own(e, output)
    BY <1>1, <1>3, <2>2 DEF HeldTyped, Caches, HeldAreOwn, Own, StandsAt
  <2> QED BY <1>2, <2>1, <2>2 DEF HeldAreOwn, Own, StandsAt
<1>4. CASE UNCHANGED held
  <2>1. ASSUME NEW e \in Callers, NEW output \in held[e]
        PROVE  Own(e, output)
    BY <2>1 DEF Caches, HeldAreOwn, Own, StandsAt
  <2> QED BY <1>1, <1>2, <1>4, <2>1 DEF HeldTyped, HeldAreOwn, Own, StandsAt
<1>5. ASSUME NEW c \in Callers, LookupPlan(c)
      PROVE  HeldTyped' /\ HeldAreOwn'
  <2> DEFINE found == EntryOf(semantic, Plan(c))
  <2>1. CASE Holds(semantic, Plan(c)) /\ held' = [held EXCEPT ![c] = @ \cup {found.output}]
    <3>1. found \in PlanEntries /\ found.key = Plan(c)
      BY <2>1, Limits, EntryFound DEF Caches, PlansKept, Kept
    <3>2. found.output \in Outputs /\ found.output.of = Plan(c).plan /\ found.output.from = Plan(c).version
      BY <3>1 DEF PlanEntries
    <3>3. pc[c] = "plan"
      BY <1>5 DEF LookupPlan, StandsAt
    <3>4. Own(c, found.output)
      BY <3>2, <3>3, PlanTyped DEF SInv, Own
    <3>5. \A output \in held[c] : output \in Outputs /\ Own(c, output)
      BY <1>1 DEF HeldTyped, Caches, HeldAreOwn, Own, StandsAt
    <3> HIDE DEF found
    <3>6. held[c] \cup {found.output} \in SUBSET Outputs
      BY <3>2, <3>5
    <3> QED BY <1>3, <2>1, <3>4, <3>5, <3>6
  <2> QED BY <1>4, <1>5, <2>1 DEF LookupPlan, HitPlan
<1>6. ASSUME NEW c \in Callers, NextCall(c)
      PROVE  HeldTyped' /\ HeldAreOwn'
  <2>1. held' = [held EXCEPT ![c] = Given(c)]
    BY <1>6 DEF NextCall
  <2>2. Given(c) \in SUBSET Outputs /\ \A output \in Given(c) : Own(c, output)
    BY GivenAreOwn
  <2> QED BY <1>3, <2>1, <2>2
<1>7. ASSUME NEW c \in Callers, NEW result, End(c, result)
      PROVE  HeldTyped' /\ HeldAreOwn'
  <2>1. held' = [held EXCEPT ![c] = {}] /\ {} \in SUBSET Outputs
    BY <1>7 DEF End
  <2> QED BY <1>3, <2>1
<1>8. ASSUME NEW c \in Callers,
             \/ LookupResponse(c) \/ LookupRevision(c) \/ Wake(c)
             \/ LookupListing(c) \/ LookupRecommendation(c)
      PROVE  HeldTyped' /\ HeldAreOwn'
  BY <1>4, <1>7, <1>8 DEF LookupResponse, LookupRevision, Wake, LookupListing,
                          LookupRecommendation, Lead, Wait
<1>9. ASSUME NEW c \in Callers,
             \/ QueueTimeout(c) \/ FailCall(c) \/ Cancel(c) \/ CompleteSearch(c)
             \/ KeepListing(c) \/ KeepRecommendation(c) \/ AnswerJourney(c)
      PROVE  HeldTyped' /\ HeldAreOwn'
  BY <1>7, <1>9 DEF QueueTimeout, FailCall, Cancel, Abort, CompleteSearch, KeepListing,
                    KeepRecommendation, AnswerJourney
<1>10. ASSUME NEW c \in Callers, Arrive(c) \/ StartTask(c) \/ EndTask(c)
       PROVE  UNCHANGED held
  BY <1>10 DEF Arrive, StartTask, EndTask
<1>11. ASSUME NEW a \in Reloads, Load(a) \/ ReloadStep(a) \/ AbandonReload(a)
       PROVE  UNCHANGED held
  BY <1>11 DEF Load, ReloadStep, AbandonReload, ClearRecommendations, ClearListing, ClearSearches,
               StoreSnapshot, requestVars
<1>12. CASE UNCHANGED vars
  BY <1>4, <1>12 DEF vars, requestVars
<1> QED BY <1>4, <1>5, <1>6, <1>8, <1>9, <1>10, <1>11, <1>12 DEF Next, RequestStep

LEMMA RevisionsStep ==
  ASSUME SInv, Caches, [Next]_vars
  PROVE  RevisionsCounted' /\ RevisionsAnswer'
<1>0. MakersStay
  BY NobodyGoesBack
<1>1. CASE UNCHANGED idempotencyVars
  BY <1>0, <1>1, CountedStays DEF SInv, Caches
<1>2. ASSUME NEW c \in Callers, LookupRevision(c)
      PROVE  RevisionsCounted' /\ RevisionsAnswer'
  <2>1. CASE Vacant(Mutation(c)) /\ ReserveRevision(c, Mutation(c), Change(c))
    <3> DEFINE entry == Leading(c, Change(c))
    <3>1. Mutation(c) \in Mutations /\ Change(c) \in Names
      BY <1>2, AsksTyped DEF LookupRevision, SInv, Requests
    <3>2. entry \in RevisionEntries /\ entry.response = None
      BY <3>1 DEF Leading, RevisionEntries
    <3>3. /\ revisions' = [revisions EXCEPT ![Mutation(c)] = entry] /\ ~Present(Mutation(c))
          /\ UNCHANGED <<completed, completedBytes>>
      BY <2>1 DEF ReserveRevision, Vacant
    <3> HIDE DEF entry
    <3> QED BY <1>0, <3>1, <3>2, <3>3, CountedElsewhere DEF SInv, Caches
  <2> QED BY <1>1, <1>2, <2>1 DEF LookupRevision
<1>3. ASSUME NEW c \in Callers, AnswerJourney(c)
      PROVE  RevisionsCounted' /\ RevisionsAnswer'
  <2>1. CASE Kind(c) = "revise"
    <3>1. leads[c]
      BY <1>3, <2>1 DEF AnswerJourney, Decides, StandsAt, SInv, Requests, Role, Calling, Leaders
    <3>2. PICK envelope \in Envelopes(c) :
            CompleteRevision(c, Mutation(c), envelope, Weight[Change(c)])
      BY <1>3, <2>1 DEF AnswerJourney
    <3>3. envelope \in Outputs /\ Revised(Mutation(c), Change(c), envelope)
      BY <1>3, <2>1, EnvelopesAnswer DEF AnswerJourney, Answers
    <3> QED BY <1>0, <2>1, <3>1, <3>2, <3>3, CountedAfterRevision DEF SInv, Caches
  <2>2. CASE Kind(c) # "revise"
    BY <1>1, <1>3, <2>2 DEF AnswerJourney
  <2> QED BY <2>1, <2>2
<1>4. ASSUME NEW c \in Callers, QueueTimeout(c) \/ FailCall(c) \/ Cancel(c)
      PROVE  RevisionsCounted' /\ RevisionsAnswer'
  BY <1>0, <1>4, CountedAfterDrop DEF QueueTimeout, FailCall, Cancel, Abort, Caches
<1>5. ASSUME NEW c \in Callers,
             \/ Arrive(c) \/ LookupResponse(c) \/ Wake(c) \/ StartTask(c)
             \/ CompleteSearch(c) \/ LookupPlan(c) \/ NextCall(c)
             \/ LookupListing(c) \/ KeepListing(c)
             \/ LookupRecommendation(c) \/ KeepRecommendation(c) \/ EndTask(c)
      PROVE  UNCHANGED idempotencyVars
  BY <1>5 DEF Arrive, LookupResponse, Wake, StartTask, CompleteSearch, LookupPlan, NextCall,
         LookupListing, KeepListing, LookupRecommendation, KeepRecommendation, EndTask, revisionVars
<1>6. ASSUME NEW a \in Reloads, Load(a) \/ ReloadStep(a) \/ AbandonReload(a)
      PROVE  UNCHANGED idempotencyVars
  BY <1>6 DEF Load, ReloadStep, ClearRecommendations, ClearListing, ClearSearches, StoreSnapshot,
         AbandonReload, revisionVars
<1>7. CASE UNCHANGED vars
  BY <1>1, <1>7 DEF vars, revisionVars
<1> QED BY <1>1, <1>2, <1>3, <1>4, <1>5, <1>6, <1>7 DEF Next, RequestStep

LEMMA CachesStep == SInv /\ Caches /\ [Next]_vars => Caches'
BY ResponsesStep, PlansStep, ListingsStep, RevisionsStep, HeldStep DEF Caches

-----------------------------------------------------------------------------
(* The answers. *)

Answered ==
  /\ answer \in [Callers -> Outputs \cup {None}]
  /\ AnswersReach
  /\ \A c \in Callers : answer[c] # None => Answers(c, answer[c])

\* A request in progress keeps the snapshot it has loaded, and is answered,
\* sends and waits as it asks.
Proceeds(c) ==
  /\ pc[c] # "new" => pc'[c] # "new" /\ seen'[c] = seen[c]
  /\ \/ answer'[c] \in {answer[c], None}
     \/ pc[c] # "new" /\ answer'[c] \in Outputs /\ Answers(c, answer'[c])
  /\ \/ channel'[c].sent \in {channel[c].sent, None}
     \/ /\ Kind(c) \in Leaders /\ pc[c] # "new" /\ channel'[c].sent \in Outputs
        /\ Answers(c, channel'[c].sent)
  /\ pc'[c] = "wait" =>
       \/ pc[c] = "wait" /\ waitsOn'[c] = waitsOn[c]
       \/ /\ pc[c] # "new" /\ waitsOn'[c] \in Callers
          /\ pc[waitsOn'[c]] # "new" /\ AsksTheSame(c, waitsOn'[c])

LEMMA AnswersMove ==
  ASSUME SInv, Answered, UNCHANGED asks, \A c \in Callers : Proceeds(c),
         answer' \in [Callers -> Outputs \cup {None}]
  PROVE  Answered'
<1>1. ASSUME NEW c \in Callers, pc[c] # "new"
      PROVE  /\ pc'[c] # "new" /\ seen'[c] = seen[c] /\ Kind(c)' = Kind(c) /\ Change(c)' = Change(c)
             /\ asks'[c] = asks[c] /\ Key(c)' = Key(c)
  BY <1>1 DEF Proceeds, Kind, Change, Key
<1>2. ASSUME NEW c \in Callers, NEW output \in Outputs, pc[c] # "new", Answers(c, output)
      PROVE  Answers(c, output)'
  <2>1. MakersStay
    BY <1>1 DEF MakersStay
  <2>2. CASE Kind(c) = "revise"
    <3>1. \A m, change : Revised(m, change, output) => Revised(m, change, output)'
      BY <2>1, RevisedStays
    <3> QED BY <1>1, <1>2, <2>2, <3>1 DEF Answers, Revised, Mutation
  <2>3. CASE Kind(c) # "revise"
    BY <1>1, <1>2, <2>3 DEF Answers
  <2> QED BY <2>2, <2>3
<1>3. ASSUME NEW c \in Callers, answer'[c] # None
      PROVE  pc[c] # "new" /\ Answers(c, answer'[c])
  <2>1. CASE answer'[c] = answer[c]
    BY <1>3, <2>1 DEF Answered, AnswersReach, StandsAt
  <2>2. CASE answer'[c] # answer[c]
    BY <1>3, <2>2 DEF Proceeds
  <2> QED BY <2>1, <2>2
<1>4. ASSUME NEW c \in Callers, channel'[c].sent # None
      PROVE  /\ Kind(c) \in Leaders /\ pc[c] # "new" /\ Answers(c, channel'[c].sent)
             /\ channel'[c].sent \in Outputs
  <2>1. CASE channel'[c].sent = channel[c].sent
    BY <1>4, <2>1 DEF Answered, AnswersReach, StandsAt, Leaders, SInv, Held, ReservationTyped
  <2>2. CASE channel'[c].sent # channel[c].sent
    BY <1>4, <2>2 DEF Proceeds
  <2> QED BY <2>1, <2>2
<1>5. ASSUME NEW c \in Callers, pc'[c] = "wait"
      PROVE  /\ pc[c] # "new" /\ waitsOn'[c] \in Callers
             /\ pc[waitsOn'[c]] # "new" /\ AsksTheSame(c, waitsOn'[c])
  <2>1. CASE pc[c] = "wait" /\ waitsOn'[c] = waitsOn[c]
    BY <2>1 DEF Answered, AnswersReach, StandsAt, SInv, Requests, Role
  <2>2. CASE ~(pc[c] = "wait" /\ waitsOn'[c] = waitsOn[c])
    BY <1>5, <2>2 DEF Proceeds
  <2> QED BY <2>1, <2>2
<1>6. \A c \in Callers : answer'[c] # None => Answers(c, answer[c])'
  <2> SUFFICES ASSUME NEW c \in Callers, answer'[c] # None PROVE Answers(c, answer[c])'
    OBVIOUS
  <2>1. pc[c] # "new" /\ Answers(c, answer'[c]) /\ answer'[c] \in Outputs
    BY <1>3
  <2>2. \A output \in Outputs : Answers(c, output) => Answers(c, output)'
    BY <1>2, <2>1
  <2> QED BY <2>1, <2>2 DEF Answers, Revised
<1>7. AnswersReach'
  <2> SUFFICES ASSUME NEW c \in Callers
               PROVE  /\ answer'[c] # None => pc'[c] # "new"
                      /\ channel'[c].sent # None =>
                           /\ Kind(c)' \in {"search", "revise"} /\ pc'[c] # "new"
                           /\ Answers(c, channel[c].sent)'
                      /\ pc'[c] = "wait" => pc'[waitsOn'[c]] # "new" /\ AsksTheSame(c, waitsOn[c])'
    BY DEF AnswersReach, StandsAt
  <2>1. answer'[c] # None => pc'[c] # "new"
    BY <1>1, <1>3
  <2>2. channel'[c].sent # None =>
           /\ Kind(c)' \in {"search", "revise"} /\ pc'[c] # "new" /\ Answers(c, channel[c].sent)'
    <3> SUFFICES ASSUME channel'[c].sent # None
                 PROVE  /\ Kind(c)' \in {"search", "revise"} /\ pc'[c] # "new"
                        /\ Answers(c, channel[c].sent)'
      OBVIOUS
    <3>1. /\ Kind(c) \in Leaders /\ pc[c] # "new" /\ Answers(c, channel'[c].sent)
          /\ channel'[c].sent \in Outputs
      BY <1>4
    <3>2. \A output \in Outputs : Answers(c, output) => Answers(c, output)'
      BY <1>2, <3>1
    <3> QED BY <1>1, <3>1, <3>2 DEF Leaders, Answers, Revised
  <2>3. pc'[c] = "wait" => pc'[waitsOn'[c]] # "new" /\ AsksTheSame(c, waitsOn[c])'
    <3> SUFFICES ASSUME pc'[c] = "wait"
                 PROVE  pc'[waitsOn'[c]] # "new" /\ AsksTheSame(c, waitsOn[c])'
      OBVIOUS
    <3> DEFINE leader == waitsOn'[c]
    <3>1. /\ pc[c] # "new" /\ leader \in Callers /\ pc[leader] # "new" /\ AsksTheSame(c, leader)
      BY <1>5
    <3>2. /\ Kind(c)' = Kind(c) /\ Change(c)' = Change(c) /\ Key(c)' = Key(c)
      BY <1>1, <3>1
    <3>3. /\ asks'[leader].kind = Kind(leader) /\ asks'[leader].change = Change(leader)
          /\ asks'[leader].name = asks[leader].name /\ seen'[leader] = seen[leader]
          /\ pc'[leader] # "new"
      BY <1>1, <3>1 DEF Kind, Change
    <3> QED BY <3>1, <3>2, <3>3 DEF AsksTheSame, Kind, Mutation, Change, Key
  <2> QED BY <2>1, <2>2, <2>3
<1> QED BY <1>6, <1>7 DEF Answered

\* A request that stays as it is.
Stays(e) ==
  /\ pc'[e] = pc[e] /\ seen'[e] = seen[e] /\ answer'[e] = answer[e] /\ waitsOn'[e] = waitsOn[e]
  /\ channel'[e].sent \in {channel[e].sent, None}

LEMMA StaysProceeds ==
  ASSUME NEW e \in Callers, Stays(e)
  PROVE  Proceeds(e)
BY DEF Stays, Proceeds

\* A request that ends with an answer to what it asks.
LEMMA AnswersAndEnds ==
  ASSUME SInv, Answered, NEW c \in Callers, pc[c] # "new", NEW result \in Outputs \cup {None},
         End(c, result), result # None => Answers(c, result),
         \A e \in Callers \ {c} : channel'[e].sent \in {channel[e].sent, None},
         \/ channel'[c].sent \in {channel[c].sent, None}
         \/ channel'[c].sent = result /\ result # None /\ Kind(c) \in Leaders
  PROVE  Answered'
<1>1. /\ pc' = [pc EXCEPT ![c] = "over"] /\ answer' = [answer EXCEPT ![c] = result]
      /\ waitsOn' = [waitsOn EXCEPT ![c] = None] /\ UNCHANGED <<asks, seen>>
  BY DEF End, GoTo
<1>2. /\ pc'[c] = "over" /\ answer'[c] = result /\ seen'[c] = seen[c]
      /\ answer' \in [Callers -> Outputs \cup {None}]
  BY <1>1 DEF SInv, Requests, RequestTyped, Answered
<1>3. Proceeds(c)
  BY <1>2 DEF Proceeds
<1>4. ASSUME NEW e \in Callers \ {c}
      PROVE  Proceeds(e)
  <2>1. Stays(e)
    BY <1>1 DEF Stays, SInv, Requests, RequestTyped, Answered
  <2> QED BY <2>1, StaysProceeds
<1> QED BY <1>1, <1>2, <1>3, <1>4, AnswersMove

\* A request that goes on.
LEMMA GoesOn ==
  ASSUME SInv, Answered, NEW c \in Callers, NEW step \in StepsOf \ {"new", "wait"},
         pc' = [pc EXCEPT ![c] = step], UNCHANGED <<asks, answer, channel>>,
         waitsOn' = waitsOn \/ waitsOn' = [waitsOn EXCEPT ![c] = None],
         seen' = seen \/ (pc[c] = "new" /\ \E v : seen' = [seen EXCEPT ![c] = v])
  PROVE  Answered'
<1>1. Proceeds(c)
  BY DEF Proceeds, SInv, Requests, RequestTyped
<1>2. ASSUME NEW e \in Callers \ {c}
      PROVE  Proceeds(e)
  <2>1. Stays(e)
    BY DEF Stays, SInv, Requests, RequestTyped
  <2> QED BY <2>1, StaysProceeds
<1> QED BY <1>1, <1>2, AnswersMove DEF Answered

\* A request that waits for a leader that asks for the same.
LEMMA Waits ==
  ASSUME SInv, Answered, NEW c \in Callers, NEW leader \in Callers, Wait(c, leader),
         pc[c] # "new", leads[leader], AsksTheSame(c, leader), UNCHANGED channel
  PROVE  Answered'
<1>1. /\ pc' = [pc EXCEPT ![c] = "wait"] /\ waitsOn' = [waitsOn EXCEPT ![c] = leader]
      /\ UNCHANGED <<asks, answer, seen>>
  BY DEF Wait, GoTo
<1>2. pc[leader] # "new" /\ pc'[c] = "wait" /\ waitsOn'[c] = leader
  BY <1>1 DEF SInv, Requests, RequestTyped, Role, Calling
<1>3. Proceeds(c)
  BY <1>1, <1>2 DEF Proceeds
<1>4. ASSUME NEW e \in Callers \ {c}
      PROVE  Proceeds(e)
  <2>1. Stays(e)
    BY <1>1 DEF Stays, SInv, Requests, RequestTyped
  <2> QED BY <2>1, StaysProceeds
<1> QED BY <1>1, <1>3, <1>4, AnswersMove DEF Answered

-----------------------------------------------------------------------------
LEMMA InitAnswered == Init => Answered
<1> SUFFICES ASSUME Init PROVE Answered
  OBVIOUS
<1>1. /\ answer = [c \in Callers |-> None] /\ channel = [c \in Callers |-> Open]
      /\ \A c \in Callers : pc[c] # "wait"
  BY DEF Init
<1> QED BY <1>1 DEF Answered, AnswersReach, Open, StandsAt

LEMMA HangSendsNothing ==
  ASSUME NEW cs, Hang(cs)
  PROVE  \A e \in Callers : channel'[e].sent \in {channel[e].sent, None}
BY DEF Hang

LEMMA SendsOnce ==
  ASSUME SInv, NEW c \in Callers, NEW value, Send(c, value)
  PROVE  /\ channel'[c].sent = value
         /\ \A e \in Callers \ {c} : channel'[e].sent = channel[e].sent
BY DEF Send, SInv, Held, ReservationTyped

LEMMA AnsweredAborting ==
  ASSUME SInv, Answered, NEW c \in Callers, QueueTimeout(c) \/ FailCall(c) \/ Cancel(c)
  PROVE  Answered'
<1>1. pc[c] # "new" /\ End(c, None) /\ DropReservation(c)
  BY DEF QueueTimeout, FailCall, Cancel, Abort, StandsAt
<1>2. UNCHANGED channel \/ \E cs : Hang(cs)
  BY <1>1 DEF DropReservation, DropResponse, DropRevision
<1>3. \A e \in Callers : channel'[e].sent \in {channel[e].sent, None}
  BY <1>2, HangSendsNothing
<1> QED BY <1>1, <1>3, AnswersAndEnds

\* What the cache has for a key answers whoever asks with that key.
LEMMA AnsweredLookingUp ==
  ASSUME SInv, Caches, Answered, NEW c \in Callers, LookupResponse(c)
  PROVE  Answered'
<1> DEFINE k == Key(c)
<1>1. /\ pc[c] = "lookup" /\ Kind(c) = "search" /\ UNCHANGED channel /\ k \in CacheKeys
      /\ k.query = asks[c].name /\ k.version = seen[c]
  BY AsksTyped DEF LookupResponse, StandsAt, SInv, Requests
<1>2. CASE Holds(responses, k) /\ End(c, EntryOf(responses, k).output)
  <2>1. EntryOf(responses, k) \in ResponseEntries /\ EntryOf(responses, k).key = k
    BY <1>2, Limits, EntryFound DEF Caches, ResponsesKept, Kept
  <2> DEFINE output == EntryOf(responses, k).output
  <2>2. output \in Outputs /\ output.of = asks[c].name /\ output.from = seen[c]
    BY <1>1, <2>1 DEF ResponseEntries
  <2>3. Answers(c, output)
    BY <1>1, <2>2 DEF Answers
  <2> QED BY <1>1, <1>2, <2>2, <2>3, AnswersAndEnds
<1>3. CASE inFlight[k] # None /\ Wait(c, inFlight[k])
  <2> DEFINE leader == inFlight[k]
  <2>1. leader \in Callers /\ leads[leader] /\ Kind(leader) = "search" /\ Key(leader) = k
    BY <1>1, <1>3 DEF SInv, Held, ReservationTyped, ResponsesHeld
  <2>2. AsksTheSame(c, leader)
    BY <1>1, <2>1 DEF AsksTheSame
  <2> QED BY <1>1, <1>3, <2>1, <2>2, Waits
<1>4. CASE End(c, None)
  BY <1>1, <1>4, AnswersAndEnds
<1>5. CASE Lead(c, "query")
  <2>1. /\ pc' = [pc EXCEPT ![c] = "slot"] /\ UNCHANGED <<asks, answer, waitsOn, seen>>
    BY <1>5 DEF Lead, Calls, GoTo
  <2>2. "slot" \in StepsOf \ {"new", "wait"}
    BY DEF StepsOf
  <2> QED BY <1>1, <2>1, <2>2, GoesOn
<1> QED BY <1>2, <1>3, <1>4, <1>5 DEF LookupResponse, HitResponse

\* The response of a mutation, or its leader's, answers the same request.
LEMMA AnsweredRevising ==
  ASSUME SInv, Caches, Answered, NEW c \in Callers, LookupRevision(c)
  PROVE  Answered'
<1> DEFINE m == Mutation(c)
<1>1. /\ pc[c] = "lookup" /\ Kind(c) = "revise" /\ UNCHANGED channel /\ m \in Mutations
  BY AsksTyped DEF LookupRevision, StandsAt, SInv, Requests
<1>2. CASE Lead(c, "rebind")
  <2>1. /\ pc' = [pc EXCEPT ![c] = "slot"] /\ UNCHANGED <<asks, answer, waitsOn, seen>>
    BY <1>2 DEF Lead, Calls, GoTo
  <2>2. "slot" \in StepsOf \ {"new", "wait"}
    BY DEF StepsOf
  <2> QED BY <1>1, <2>1, <2>2, GoesOn
<1>3. CASE End(c, None)
  BY <1>1, <1>3, AnswersAndEnds
<1>4. CASE SameRequest(m, Change(c)) /\ InFlightRevision(m) /\ Wait(c, revisions[m].leader)
  <2> DEFINE leader == revisions[m].leader
  <2>1. leader \in Callers /\ revisions[m].change = Change(c)
    BY <1>1, <1>4, RevisionTyped DEF SInv, Held, SameRequest
  <2>2. leads[leader] /\ Kind(leader) = "revise" /\ Mutation(leader) = m
    BY <1>1, <1>4 DEF SInv, Held, RevisionsHeld
  <2>3. Change(leader) = Change(c)
    BY <2>1, <2>2 DEF SInv, Held, RevisionsRunOnce
  <2>4. AsksTheSame(c, leader)
    BY <1>1, <2>2, <2>3 DEF AsksTheSame
  <2> QED BY <1>1, <1>4, <2>1, <2>2, <2>4, Waits
<1>5. CASE SameRequest(m, Change(c)) /\ ~InFlightRevision(m) /\ End(c, revisions[m].response)
  <2>1. /\ Present(m) /\ revisions[m].change = Change(c) /\ revisions[m] \in RevisionEntries
    BY <1>1, <1>5, RevisionTyped DEF SInv, Held, SameRequest
  <2>2. /\ revisions[m].response \in Outputs \cup {None}
        /\ Revised(m, Change(c), revisions[m].response)
    BY <1>1, <1>5, <2>1 DEF Caches, RevisionsAnswer, RevisionEntries
  <2>3. Answers(c, revisions[m].response)
    BY <1>1, <2>2 DEF Answers
  <2> QED BY <1>1, <1>5, <2>2, <2>3, AnswersAndEnds
<1> QED BY <1>2, <1>3, <1>4, <1>5 DEF LookupRevision

\* What the leader has sent answers those that wait for it.
LEMMA AnsweredWaking ==
  ASSUME SInv, Answered, NEW c \in Callers, Wake(c)
  PROVE  Answered'
<1> DEFINE leader == waitsOn[c]
           sent == channel[leader].sent
<1>1. /\ pc[c] = "wait" /\ UNCHANGED channel /\ leader \in Callers /\ Kind(c) \in Leaders
  BY DEF Wake, StandsAt, SInv, Requests, Role
<1>2. CASE sent # None /\ End(c, sent)
  <2>1. sent \in Outputs \cup {None}
    BY <1>1 DEF SInv, Held, ReservationTyped
  <2>2. AsksTheSame(c, leader) /\ Answers(leader, sent)
    BY <1>1, <1>2 DEF Answered, AnswersReach, StandsAt
  <2>3. Answers(c, sent)
    <3>1. CASE Kind(c) = "search"
      <4>1. Key(leader) = Key(c) /\ Kind(leader) = "search"
        BY <2>2, <3>1 DEF AsksTheSame
      <4>2. /\ Key(c).query = asks[c].name /\ Key(c).version = seen[c]
            /\ Key(leader).query = asks[leader].name /\ Key(leader).version = seen[leader]
        BY <1>1, AsksTyped DEF SInv, Requests
      <4> QED BY <2>2, <3>1, <4>1, <4>2 DEF Answers
    <3>2. CASE Kind(c) = "revise"
      BY <2>2, <3>2 DEF AsksTheSame, Answers
    <3> QED BY <1>1, <3>1, <3>2 DEF Leaders
  <2> QED BY <1>1, <1>2, <2>1, <2>3, AnswersAndEnds
<1>3. CASE /\ pc' = [pc EXCEPT ![c] = "lookup"] /\ waitsOn' = [waitsOn EXCEPT ![c] = None]
           /\ UNCHANGED <<answer, asks, seen>>
  <2>1. "lookup" \in StepsOf \ {"new", "wait"}
    BY DEF StepsOf
  <2> QED BY <1>1, <1>3, <2>1, GoesOn
<1> QED BY <1>2, <1>3 DEF Wake, GoTo

\* A computed answer is one to what was asked.
LEMMA AnsweredComputing ==
  ASSUME SInv, Caches, Answered, NEW c \in Callers, CompleteSearch(c) \/ AnswerJourney(c)
  PROVE  Answered'
<1>1. CASE CompleteSearch(c)
  <2> DEFINE result == Computed(c, asks[c].name)
  <2>1. pc[c] = "called" /\ Kind(c) = "search" /\ End(c, result)
    BY <1>1, AsksTyped
       DEF CompleteSearch, StandsAt, SInv, Requests, Role, Calling, CallsOf, Kinds
  <2>2. result \in Outputs /\ result.of = asks[c].name /\ result.from = seen[c]
    BY AsksTyped DEF SInv, Requests, Computed
  <2>3. UNCHANGED channel \/ Send(c, result)
    BY <1>1 DEF CompleteSearch, CompleteResponse
  <2> HIDE DEF result
  <2>4. Answers(c, result) /\ result # None /\ Kind(c) \in Leaders
    BY <2>1, <2>2, NoneIsNobody DEF Answers, Leaders
  <2>5. /\ channel'[c].sent = channel[c].sent \/ channel'[c].sent = result
        /\ \A e \in Callers \ {c} : channel'[e].sent = channel[e].sent
    BY <2>3, SendsOnce
  <2> QED BY <2>1, <2>2, <2>4, <2>5, AnswersAndEnds
<1>2. CASE AnswerJourney(c)
  <2>1. pc[c] \in {"called", "decide"} /\ Decides(c)
    BY <1>2 DEF AnswerJourney, Decides, StandsAt
  <2>2. PICK result \in Envelopes(c) :
          /\ End(c, result)
          /\ IF Kind(c) = "revise"
               THEN CompleteRevision(c, Mutation(c), result, Weight[Change(c)])
               ELSE UNCHANGED channel
    BY <1>2 DEF AnswerJourney
  <2>3. result \in Outputs /\ result # None /\ Answers(c, result)
    BY <2>1, EnvelopesAnswer, NoneIsNobody
  <2>4. CASE UNCHANGED channel
    BY <2>1, <2>2, <2>3, <2>4, AnswersAndEnds
  <2>5. CASE Kind(c) = "revise" /\ Send(c, result)
    <3>1. /\ channel'[c].sent = result /\ Kind(c) \in Leaders
          /\ \A e \in Callers \ {c} : channel'[e].sent = channel[e].sent
      BY <2>5, SendsOnce DEF Leaders
    <3> QED BY <2>1, <2>2, <2>3, <3>1, AnswersAndEnds
  <2> QED BY <2>2, <2>4, <2>5 DEF CompleteRevision
<1> QED BY <1>1, <1>2

\* So is a kept listing, and a kept recommendation.
LEMMA AnsweredListing ==
  ASSUME SInv, Caches, Answered, NEW c \in Callers,
         \/ LookupListing(c) \/ KeepListing(c)
         \/ LookupRecommendation(c) \/ KeepRecommendation(c)
  PROVE  Answered'
<1>1. /\ pc[c] \in {"lookup", "called", "build"} /\ UNCHANGED channel
  BY DEF LookupListing, KeepListing, LookupRecommendation, KeepRecommendation, StandsAt
<1>2. Kind(c) \in {"listing", "recommend"}
  BY AsksTyped DEF LookupListing, KeepListing, LookupRecommendation, KeepRecommendation, StandsAt,
                   SInv, Requests, Role, Calling, CallsOf, Kinds
<1>3. ASSUME NEW output \in Outputs, output.of = asks[c].name, output.from = seen[c], End(c, output)
      PROVE  Answered'
  <2>1. Answers(c, output)
    BY <1>2, <1>3 DEF Answers
  <2> QED BY <1>1, <1>3, <2>1, AnswersAndEnds
<1>4. ASSUME NEW step \in {"slot", "build"}, pc' = [pc EXCEPT ![c] = step],
             UNCHANGED <<asks, answer, waitsOn, seen>>
      PROVE  Answered'
  <2>1. step \in StepsOf \ {"new", "wait"}
    BY DEF StepsOf
  <2> QED BY <1>1, <1>4, <2>1, GoesOn
<1>5. CASE LookupListing(c)
  <2>1. CASE catalogCache # None /\ catalogCache.version = seen[c] /\ End(c, catalogCache.output)
    <3>1. Kind(c) = "listing"
      BY <1>5 DEF LookupListing
    <3>2. /\ catalogCache.output \in Outputs /\ catalogCache.output.from = seen[c]
          /\ catalogCache.output.of = asks[c].name
      BY <2>1, <3>1 DEF Caches, ListingIsKept
    <3> QED BY <1>3, <2>1, <3>2
  <2>2. CASE Calls(c, "list") /\ UNCHANGED <<waitsOn, answer, asks, seen>>
    BY <1>4, <2>2 DEF Calls, GoTo
  <2> QED BY <1>5, <2>1, <2>2 DEF LookupListing
<1>6. CASE LookupRecommendation(c)
  <2>1. ASSUME NEW e \in Recommended(c), End(c, e.output)
        PROVE  Answered'
    <3>1. e \in Recommendations /\ e.property = asks[c].name /\ e.version = seen[c]
      BY <2>1 DEF Recommended, Caches
    <3>2. e.output \in Outputs /\ e.output.of = asks[c].name /\ e.output.from = seen[c]
      BY <3>1 DEF Recommendations
    <3> QED BY <1>3, <2>1, <3>2
  <2>2. CASE GoTo(c, "build") /\ UNCHANGED <<waitsOn, seen, answer, asks>>
    BY <1>4, <2>2 DEF GoTo
  <2> QED BY <1>6, <2>1, <2>2 DEF LookupRecommendation
<1>7. CASE KeepListing(c) \/ KeepRecommendation(c)
  <2>1. End(c, Computed(c, asks[c].name))
    BY <1>7 DEF KeepListing, KeepRecommendation
  <2>2. /\ Computed(c, asks[c].name) \in Outputs /\ Computed(c, asks[c].name).of = asks[c].name
        /\ Computed(c, asks[c].name).from = seen[c]
    BY AsksTyped DEF SInv, Requests, Computed
  <2> QED BY <1>3, <2>1, <2>2
<1> QED BY <1>5, <1>6, <1>7

LEMMA AnsweredMoving ==
  ASSUME SInv, Answered, NEW c \in Callers,
         Arrive(c) \/ StartTask(c) \/ EndTask(c) \/ LookupPlan(c) \/ NextCall(c)
  PROVE  Answered'
<1>1. /\ UNCHANGED <<asks, answer, channel, waitsOn>>
      /\ UNCHANGED seen \/ (pc[c] = "new" /\ \E v : seen' = [seen EXCEPT ![c] = v])
  BY DEF Arrive, StartTask, EndTask, LookupPlan, NextCall, StandsAt, requestVars
<1>2. \/ UNCHANGED <<pc, seen>>
      \/ \E step \in {"over", "slot", "lookup", "task", "called", "decide", "plan"} :
           pc' = [pc EXCEPT ![c] = step]
  BY DEF Arrive, StartTask, EndTask, LookupPlan, NextCall, Calls, GoTo, requestVars
<1>3. CASE UNCHANGED <<pc, seen>>
  <2>1. \A e \in Callers : Proceeds(e)
    BY <1>1, <1>3, StaysProceeds DEF Stays
  <2> QED BY <1>1, <2>1, AnswersMove DEF Answered
<1>4. ASSUME NEW step \in {"over", "slot", "lookup", "task", "called", "decide", "plan"},
             pc' = [pc EXCEPT ![c] = step]
      PROVE  Answered'
  <2>1. step \in StepsOf \ {"new", "wait"}
    BY DEF StepsOf
  <2> QED BY <1>1, <1>4, <2>1, GoesOn
<1> QED BY <1>2, <1>3, <1>4

LEMMA AnsweredStep == SInv /\ Caches /\ Answered /\ [Next]_vars => Answered'
<1> SUFFICES ASSUME SInv, Caches, Answered, [Next]_vars PROVE Answered'
  OBVIOUS
<1>1. ASSUME UNCHANGED <<asks, pc, seen, answer, waitsOn>>,
             \A e \in Callers : channel'[e].sent \in {channel[e].sent, None}
      PROVE  Answered'
  <2>1. \A e \in Callers : Proceeds(e)
    BY <1>1, StaysProceeds DEF Stays
  <2> QED BY <1>1, <2>1, AnswersMove DEF Answered
<1>2. CASE UNCHANGED vars
  BY <1>1, <1>2 DEF vars, requestVars
<1>3. ASSUME NEW c \in Callers, Arrive(c) \/ RequestStep(c) \/ EndTask(c) \/ Cancel(c)
      PROVE  Answered'
  BY <1>3, AnsweredAborting, AnsweredLookingUp, AnsweredRevising, AnsweredWaking, AnsweredComputing,
     AnsweredListing, AnsweredMoving DEF RequestStep
<1>4. ASSUME NEW a \in Reloads, Load(a) \/ ReloadStep(a) \/ AbandonReload(a)
      PROVE  Answered'
  <2>1. /\ UNCHANGED <<asks, pc, seen, answer, waitsOn>>
        /\ UNCHANGED channel \/ \E cs : Hang(cs)
    BY <1>4 DEF Load, ReloadStep, ClearRecommendations, ClearListing, ClearSearches, StoreSnapshot,
                AbandonReload, ClearResponses, requestVars
  <2> QED BY <1>1, <2>1, HangSendsNothing
<1> QED BY <1>2, <1>3, <1>4 DEF Next

-----------------------------------------------------------------------------
(* The types that nothing else depends on. *)

LocksTyped ==
  /\ catalogLock \in Callers \cup {None}
  /\ reload \in [Reloads -> {"idle", "recommendations", "catalog", "responses", "store", "over"}]

LEMMA LocksStep == LocksTyped /\ [Next]_vars => LocksTyped'
<1> SUFFICES ASSUME LocksTyped, [Next]_vars PROVE LocksTyped'
  OBVIOUS
<1>1. ASSUME NEW c \in Callers,
             \/ Arrive(c) \/ StartTask(c) \/ EndTask(c) \/ LookupPlan(c) \/ NextCall(c)
             \/ LookupResponse(c) \/ LookupRevision(c) \/ Wake(c)
      PROVE  LocksTyped'
  BY <1>1 DEF LocksTyped, Arrive, StartTask, EndTask, LookupPlan, NextCall, LookupResponse,
              LookupRevision, Wake, End, Lead, Wait, listingVars, reloadVars
<1>2. ASSUME NEW c \in Callers,
             \/ QueueTimeout(c) \/ FailCall(c) \/ Cancel(c) \/ CompleteSearch(c) \/ AnswerJourney(c)
             \/ LookupListing(c) \/ KeepListing(c)
             \/ LookupRecommendation(c) \/ KeepRecommendation(c)
      PROVE  LocksTyped'
  BY <1>2 DEF LocksTyped, QueueTimeout, FailCall, Cancel, Abort, CompleteSearch, AnswerJourney,
              LookupListing, KeepListing, LookupRecommendation, KeepRecommendation, End, reloadVars
<1>3. ASSUME NEW a \in Reloads, Load(a) \/ ReloadStep(a) \/ AbandonReload(a)
      PROVE  LocksTyped'
  BY <1>3 DEF LocksTyped, Load, ReloadStep, ClearRecommendations, ClearListing, ClearSearches,
              StoreSnapshot, AbandonReload, ReloadGoesTo, listingVars
<1>4. CASE UNCHANGED vars
  BY <1>4 DEF LocksTyped, vars, listingVars, reloadVars
<1> QED BY <1>1, <1>2, <1>3, <1>4 DEF Next, RequestStep

-----------------------------------------------------------------------------
AInv == LaneInv /\ SInv /\ Caches /\ Answered /\ LocksTyped

LEMMA AInvHolds == Spec => []AInv
<1>1. Init => LocksTyped
  BY DEF Init, LocksTyped
<1>2. AInv /\ [Next]_vars => AInv'
  <2>1. AInv => HeldTyped
    BY DEF AInv, Caches
  <2> QED BY <2>1, LaneStep, SInvStep, CachesStep, AnsweredStep, LocksStep DEF AInv
<1>3. Init => AInv
  BY <1>1, InitLane, InitHeld, InitCaches, InitAnswered DEF AInv
<1> QED BY <1>2, <1>3, PTL DEF Spec

\* Every variable of the serving process keeps its type, whatever is asked,
\* dropped, evicted or reloaded.
THEOREM ServingTypesHold == Spec => []STypeOK
<1>1. AInv => STypeOK
  <2> SUFFICES ASSUME AInv PROVE STypeOK
    OBVIOUS
  <2>1. permits \in 0 .. ComputeSlots
    <3>1. Cardinality(tasks) \in Nat /\ permits \in Nat /\ permits + Cardinality(tasks) = ComputeSlots
      BY FS_CardinalityType DEF AInv, LaneInv
    <3> QED BY <3>1, ServingAssumption
  <2> QED BY <2>1 DEF AInv, LaneInv, SInv, Requests, RequestTyped, Held, ReservationTyped, Answered,
                      LocksTyped, StepsOf, STypeOK, Caches, HeldTyped
<1> QED BY <1>1, AInvHolds, PTL

\* Whoever computes a revision holds the entry of its mutation, so no two
\* requests compute the same revision.
THEOREM RevisionsRunOnceHolds == Spec => []RevisionsRunOnce
<1>1. AInv => RevisionsRunOnce
  BY DEF AInv, SInv, Held
<1> QED BY <1>1, AInvHolds, PTL

\* A reservation belongs to a live request, and whoever waits is told or waits
\* for such a reservation, whatever is dropped, evicted or cleared meanwhile.
THEOREM ReservationsAreHeldHolds == Spec => []ReservationsAreHeld
<1>1. AInv => ReservationsAreHeld
  BY DEF AInv, SInv, Held, ResponsesHeld, RevisionsHeld, WaitersHeld, Awaits, ReservationsAreHeld,
         StandsAt
<1> QED BY <1>1, AInvHolds, PTL

\* A search that was admitted is never refused by the response cache, for the
\* reservations never outnumber the live searches.
THEOREM AdmittedIsNotRefusedHolds == Spec => []AdmittedIsNotRefused
<1>1. AInv => SInv
  BY DEF AInv
<1>2. SInv /\ AdmissionHolds => AdmittedIsNotRefused
  BY ReservedAreLed DEF AdmittedIsNotRefused, StandsAt
<1> QED BY <1>1, <1>2, AInvHolds, InitAdmission, AdmissionStep, PTL DEF Spec

\* Each cache knows what it holds and keeps its limits, for any weights and any
\* limits: no entry is counted twice, or forgotten when it is replaced, evicted
\* or cleared, and the order of eviction has every finished revision once.
THEOREM CachesAreAccountedHolds == Spec => []CachesAreAccounted
<1>1. AInv => CachesAreAccounted
  <2> SUFFICES ASSUME AInv PROVE CachesAreAccounted
    OBVIOUS
  <2>1. /\ Accounted(responses, ResponseCapacity, ResponseMaxBytes)
        /\ Accounted(semantic, SemanticCapacity, SemanticMaxBytes)
    BY KeptIsAccounted DEF AInv, Caches, ResponsesKept, PlansKept
  <2>2. /\ completed \in Seq(Mutations) /\ DOMAIN completed = 1 .. Len(completed)
        /\ \A i \in 1 .. Len(completed) : Present(completed[i]) /\ ~InFlightRevision(completed[i])
        /\ \A i, j \in 1 .. Len(completed) : completed[i] = completed[j] => i = j
    BY DEF AInv, SInv, Held, ReservationTyped, CompletedOnce
  <2>3. Range(completed) = {m \in Mutations : Present(m) /\ ~InFlightRevision(m)}
    <3>1. \A m \in Mutations : Present(m) /\ ~InFlightRevision(m) =>
            \E i \in 1 .. Len(completed) : completed[i] = m
      BY DEF AInv, Caches, RevisionsCounted
    <3>2. \A i \in 1 .. Len(completed) : completed[i] \in Mutations
      BY <2>2
    <3> QED BY <2>2, <3>1, <3>2 DEF Range
  <2> QED BY <2>1, <2>2, <2>3 DEF AInv, Caches, RevisionsCounted, CachesAreAccounted
<1> QED BY <1>1, AInvHolds, PTL

\* An answer was computed from the snapshot its request has loaded and for what
\* the request asks, whether it was computed, waited for, found in a cache or
\* made from outputs of which other requests have computed some, and whatever
\* was reloaded meanwhile.  A revision is answered with a response to the same
\* revision, made from the snapshot of the request that made it.
THEOREM AnsweredFromItsSnapshotHolds == Spec => []AnsweredFromItsSnapshot
<1>1. AInv => AnsweredFromItsSnapshot
  <2> SUFFICES ASSUME AInv, NEW c \in Callers, answer[c] # None
               PROVE  IF Kind(c) = "revise"
                        THEN LET maker == answer[c].by IN
                             /\ asks[maker] = asks[c]
                             /\ answer[c].of \in {asks[c].name, Change(c)}
                             /\ answer[c].from = seen[maker]
                        ELSE answer[c].of = asks[c].name /\ answer[c].from = seen[c]
    BY DEF AnsweredFromItsSnapshot
  <2>1. Answers(c, answer[c]) /\ answer[c] \in Outputs
    BY DEF AInv, Answered
  <2>2. CASE Kind(c) = "revise"
    <3> DEFINE maker == answer[c].by
    <3>1. /\ Revised(Mutation(c), Change(c), answer[c]) /\ maker \in Callers
      BY <2>1, <2>2 DEF Answers, Outputs
    <3>2. /\ asks[maker].kind = asks[c].kind /\ asks[maker].name = asks[c].name
          /\ asks[maker].change = asks[c].change
      BY <2>2, <3>1 DEF Revised, Kind, Mutation, Change
    <3>3. /\ asks[maker] \in [kind : Kinds, name : Names, change : Names \cup {None}]
          /\ asks[c] \in [kind : Kinds, name : Names, change : Names \cup {None}]
      BY <3>1, ServingAssumption DEF AInv, SInv, Requests, RequestTyped
    <3>4. asks[maker] = asks[c]
      BY <3>2, <3>3
    <3> QED BY <2>2, <3>1, <3>4 DEF Revised, Mutation
  <2>3. CASE Kind(c) # "revise"
    BY <2>1, <2>3 DEF Answers
  <2> QED BY <2>2, <2>3
<1> QED BY <1>1, AInvHolds, PTL

\* Whatever is kept or sent is an answer for the requests that may find it.
THEOREM AnswersAreKeptHolds == Spec => []AnswersAreKept
<1>1. AInv => AnswersAreKept
  <2> SUFFICES ASSUME AInv PROVE AnswersAreKept
    OBVIOUS
  <2>1. /\ responses.entries \in Seq(ResponseEntries) /\ semantic.entries \in Seq(PlanEntries)
    BY DEF AInv, Caches, ResponsesKept, PlansKept, Kept, Counted
  <2>2. /\ \A i \in DOMAIN responses.entries : responses.entries[i] \in ResponseEntries
        /\ \A i \in DOMAIN semantic.entries : semantic.entries[i] \in PlanEntries
    BY <2>1
  <2> QED BY <2>2 DEF AInv, Caches, Answered, AnswersAreKept
<1> QED BY <1>1, AInvHolds, PTL
=============================================================================
