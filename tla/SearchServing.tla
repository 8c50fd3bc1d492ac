---------------------------- MODULE SearchServing ----------------------------
(***************************************************************************)
(* The serving process: HTTP requests over the runtime snapshot, the       *)
(* caches beside it and the customer compute lane, with reloads of the     *)
(* snapshot (src/backend/src/state.rs, routes/search_revisions.rs,         *)
(* routes/properties.rs, routes/admin.rs, security/execution.rs,           *)
(* security/guards.rs).                                                    *)
(*                                                                         *)
(* A request is one future.  It may be dropped wherever it waits: the      *)
(* timeout layer or a client that hangs up drops it with everything it     *)
(* holds, but not the task it has given to the compute lane.               *)
(***************************************************************************)
EXTENDS SearchResponseCache, SearchRevisionCache

CONSTANTS
  Traffic,       \* the assignments of requests to callers to be considered
  Reloads,       \* requests to reload the serving bundle
  SearchSlots,   \* requests.search_concurrency, also the cache's max_in_flight
  ComputeSlots   \* runtime.customer_compute_limit

Names == DOMAIN Weight
Kinds == {"search", "revise", "resume", "listing", "recommend", "nothing"}
Outputs == [by : Callers, of : Names, from : Versions]
RevisionEntries == [leader : Callers, change : Names, response : Outputs \cup {None},
              weight : Nat]

ASSUME ServingAssumption ==
  /\ MaxInFlight = SearchSlots /\ SearchSlots \in Nat \ {0}
  /\ ComputeSlots \in Nat \ {0}
  /\ Versions \subseteq Nat /\ 1 \in Versions
  /\ IsFiniteSet(Callers)
  /\ None \notin Callers \cup Outputs \cup RevisionEntries
  /\ Weight \in [Names -> Nat]
  /\ {ResponseCapacity, ResponseMaxBytes, RevisionCapacity, RevisionMaxBytes,
      SemanticCapacity, SemanticMaxBytes} \subseteq Nat \ {0}
  /\ Traffic \subseteq [Callers -> [kind : Kinds, name : Names, change : Names \cup {None}]]
  /\ \A traffic \in Traffic, c \in Callers :
       /\ traffic[c].kind = "search" => traffic[c].name \in Queries
       /\ traffic[c].kind = "revise" => traffic[c].name \in Mutations
                                        /\ traffic[c].change \in Names
       /\ \A d \in Callers : traffic[c].kind = "listing" /\ traffic[d].kind = "listing" =>
                             traffic[c].name = traffic[d].name

VARIABLES
  asks,            \* what each caller asks for, if anything
  pc, call,        \* the next step of each request, and its compute call
  leads,           \* whether it holds a reservation
  waitsOn,         \* the leader it waits for
  seen,            \* the version of the snapshot it has loaded
  held,            \* the outputs that execute_plan has returned to it
  answer,          \* what it was answered
  snapshot,        \* the version of the runtime snapshot
  published,       \* the newest version in the catalog
  permits, tasks,  \* free compute slots, and callers whose task is running
  catalogLock, catalogCache,
  recommendations,
  reload, loaded   \* the next step of each reload, and the version it loaded

requestVars == <<pc, call, leads, waitsOn, seen, held, answer>>
laneVars == <<permits, tasks>>
listingVars == <<catalogLock, catalogCache, recommendations>>
reloadVars == <<snapshot, published, reload, loaded>>
vars == <<responseVars, revisionVars, channel, asks, requestVars, laneVars,
          listingVars, reloadVars>>

-----------------------------------------------------------------------------
Kind(c) == asks[c].kind
Key(c) == CacheKey(asks[c].name, seen[c])
Mutation(c) == asks[c].name
Change(c) == asks[c].change

\* Mutated form of Plan: execution_cache_key leaves the runtime version out.
PlanOfAnyVersion(c) ==
  [plan |-> IF call[c] = "parent" THEN asks[c].name ELSE Change(c), version |-> 1]

\* The plan a call executes: the parent's, or the one with the change applied.
Plan(c) == [plan |-> IF call[c] = "parent" THEN asks[c].name ELSE Change(c),
            version |-> seen[c]]

\* What a request computes: for whom, of what, from which snapshot.
Computed(c, of) == [by |-> c, of |-> of, from |-> seen[c]]

\* revise_uncached and resume: what may follow each call before the answer.
After(c) ==
  IF Kind(c) = "resume"
    THEN [rebind |-> {"answer", "parent"}, parent |-> {"answer"}]
    ELSE [rebind |-> {"answer", "parent"},
          parent |-> {"answer", "consequence", "compile"},
          compile |-> {"answer", "consequence", "candidate"},
          candidate |-> {"answer", "consequence"},
          consequence |-> {"answer"}]

IsSearch(c) == Kind(c) \in {"search", "revise", "resume"}
Live(c) == pc[c] \notin {"new", "over"}

Init ==
  /\ ResponseInit /\ RevisionInit
  /\ channel = [c \in Callers |-> Open]
  /\ asks \in Traffic
  /\ pc = [c \in Callers |-> IF Kind(c) = "nothing" THEN "over" ELSE "new"]
  /\ call = [c \in Callers |-> None]
  /\ leads = [c \in Callers |-> FALSE]
  /\ waitsOn = [c \in Callers |-> None]
  /\ seen = [c \in Callers |-> 1]
  /\ held = [c \in Callers |-> {}]
  /\ answer = [c \in Callers |-> None]
  /\ snapshot = 1 /\ published = 1
  /\ permits = ComputeSlots /\ tasks = {}
  /\ catalogLock = None /\ catalogCache = None
  /\ recommendations = {}
  /\ reload = [a \in Reloads |-> "idle"]
  /\ loaded = [a \in Reloads |-> 1]

StandsAt(c, step) == pc[c] = step
GoTo(c, step) == pc' = [pc EXCEPT ![c] = step]
Calls(c, next) == GoTo(c, "slot") /\ call' = [call EXCEPT ![c] = next]

\* A request ends: its locals are dropped, a mutex guard with them.
End(c, result) ==
  /\ GoTo(c, "over")
  /\ answer' = [answer EXCEPT ![c] = result]
  /\ call' = [call EXCEPT ![c] = None]
  /\ leads' = [leads EXCEPT ![c] = FALSE]
  /\ waitsOn' = [waitsOn EXCEPT ![c] = None]
  /\ held' = [held EXCEPT ![c] = {}]
  /\ catalogLock' = IF catalogLock = c THEN None ELSE catalogLock
  /\ UNCHANGED <<asks, seen>>

\* ... and a reservation that was not completed.
DropReservation(c) ==
  IF ~leads[c] THEN UNCHANGED <<responseVars, idempotencyVars, channel>>
  ELSE IF Kind(c) = "search"
    THEN DropResponse(c, Key(c)) /\ UNCHANGED idempotencyVars
    ELSE DropRevision(c, Mutation(c)) /\ UNCHANGED responseVars

Abort(c) ==
  /\ End(c, None)
  /\ DropReservation(c)
  /\ UNCHANGED <<semantic, catalogCache, recommendations, reloadVars>>

-----------------------------------------------------------------------------
(* Arrival and the lookups. *)

\* shed_overloaded_requests, then the handler loads the snapshot.
Arrive(c) ==
  /\ StandsAt(c, "new")
  /\ IF IsSearch(c) /\ Cardinality({d \in Callers : IsSearch(d) /\ Live(d)}) >= SearchSlots
       THEN GoTo(c, "over") /\ UNCHANGED <<seen, call>>
       ELSE /\ seen' = [seen EXCEPT ![c] = snapshot]
            /\ IF Kind(c) = "resume" THEN Calls(c, "rebind")
                                     ELSE GoTo(c, "lookup") /\ UNCHANGED call
  /\ UNCHANGED <<responseVars, revisionVars, channel, asks, leads, waitsOn, held, answer,
                 laneVars, listingVars, reloadVars>>

Lead(c, first) ==
  /\ leads' = [leads EXCEPT ![c] = TRUE]
  /\ Calls(c, first)
  /\ UNCHANGED <<waitsOn, answer, asks, seen, held, catalogLock>>
Wait(c, leader) ==
  /\ waitsOn' = [waitsOn EXCEPT ![c] = leader]
  /\ GoTo(c, "wait")
  /\ UNCHANGED <<call, leads, answer, asks, seen, held, catalogLock>>

\* The loop of cached_initial_search.
LookupResponse(c) ==
  LET k == Key(c) IN
  /\ Kind(c) = "search" /\ StandsAt(c, "lookup")
  /\ \/ HitResponse(k) /\ End(c, EntryOf(responses, k).output)
     \/ /\ ~Holds(responses, k) /\ inFlight[k] # None
        /\ Wait(c, inFlight[k]) /\ UNCHANGED responseVars
     \/ /\ Missing(k)
        /\ IF InFlightIsFull
             THEN End(c, None) /\ UNCHANGED responseVars
             ELSE ReserveResponse(c, k) /\ Lead(c, "query")
  /\ UNCHANGED <<revisionVars, channel, laneVars, catalogCache, recommendations,
                 reloadVars>>

\* The loop of revise.
LookupRevision(c) ==
  LET m == Mutation(c) IN
  /\ Kind(c) = "revise" /\ StandsAt(c, "lookup")
  /\ \/ Vacant(m) /\ ReserveRevision(c, m, Change(c)) /\ Lead(c, "rebind")
     \/ /\ ~Vacant(m)
        /\ UNCHANGED idempotencyVars
        /\ IF ~SameRequest(m, Change(c)) THEN End(c, None)
           ELSE IF InFlightRevision(m) THEN Wait(c, revisions[m].leader)
           ELSE End(c, revisions[m].response)
  /\ UNCHANGED <<responseVars, semantic, channel, laneVars, catalogCache,
                 recommendations, reloadVars>>

\* Mutated form of Settled: only a value wakes a waiter.
SettledByValue(leader) == channel[leader].sent # None

\* A waiter sees a value, or that the sender is gone or has given up.
Settled(leader) == ~channel[leader].open

Wake(c) ==
  /\ StandsAt(c, "wait")
  /\ Settled(waitsOn[c])
  /\ IF channel[waitsOn[c]].sent # None
       THEN End(c, channel[waitsOn[c]].sent)
       ELSE /\ GoTo(c, "lookup")
            /\ waitsOn' = [waitsOn EXCEPT ![c] = None]
            /\ UNCHANGED <<call, leads, answer, asks, seen, held, catalogLock>>
  /\ UNCHANGED <<responseVars, revisionVars, channel, laneVars, catalogCache,
                 recommendations, reloadVars>>

-----------------------------------------------------------------------------
(* The compute lane: run_customer_compute. *)

\* A permit is acquired and moved into the blocking task.
StartTask(c) ==
  /\ StandsAt(c, "slot")
  /\ permits > 0
  /\ permits' = permits - 1
  /\ tasks' = tasks \cup {c}
  /\ GoTo(c, "task")
  /\ UNCHANGED <<responseVars, revisionVars, channel, asks, call, leads, waitsOn, seen,
                 held, answer, listingVars, reloadVars>>

\* No permit came free in time.
QueueTimeout(c) ==
  /\ StandsAt(c, "slot")
  /\ Abort(c)
  /\ UNCHANGED laneVars

\* Mutated form of EndTask: a task that panics keeps its permit.
EndTaskKeepingPermit(c) ==
  /\ c \in tasks
  /\ tasks' = tasks \ {c}
  /\ permits' \in {permits, permits + 1}
  /\ IF StandsAt(c, "task") THEN GoTo(c, "called") ELSE UNCHANGED pc
  /\ UNCHANGED <<responseVars, revisionVars, channel, asks, call, leads, waitsOn, seen,
                 held, answer, listingVars, reloadVars>>

\* The task returns or panics, whether or not its request still waits for it.
EndTask(c) ==
  /\ c \in tasks
  /\ tasks' = tasks \ {c}
  /\ permits' = permits + 1
  /\ IF StandsAt(c, "task") THEN GoTo(c, "called") ELSE UNCHANGED pc
  /\ UNCHANGED <<responseVars, revisionVars, channel, asks, call, leads, waitsOn, seen,
                 held, answer, listingVars, reloadVars>>

\* A call that panicked, or whose result is an error, ends the request.
FailCall(c) ==
  /\ pc[c] \in {"called", "decide"}
  /\ Abort(c)
  /\ UNCHANGED laneVars

-----------------------------------------------------------------------------
(* After a call. *)

\* cached_initial_search completes its reservation and answers.
CompleteSearch(c) ==
  /\ StandsAt(c, "called") /\ call[c] = "query"
  /\ CompleteResponse(c, Key(c), Computed(c, asks[c].name))
  /\ End(c, Computed(c, asks[c].name))
  /\ UNCHANGED <<revisionVars, laneVars, catalogCache, recommendations, reloadVars>>

\* A request whose call has returned, or need not be made, decides what is next.
Decides(c) ==
  \/ StandsAt(c, "decide")
  \/ StandsAt(c, "called") /\ call[c] \notin {"query", "list"}

\* execute_plan looks for the output of the plan, and returns what it finds ...
LookupPlan(c) ==
  /\ StandsAt(c, "plan")
  /\ \/ /\ HitPlan(Plan(c))
        /\ held' = [held EXCEPT ![c] = @ \cup {EntryOf(semantic, Plan(c)).output}]
        /\ GoTo(c, "decide")
     \/ ~Holds(semantic, Plan(c)) /\ GoTo(c, "slot") /\ UNCHANGED <<semantic, held>>
  /\ UNCHANGED <<responseVars, idempotencyVars, channel, asks, call, leads, waitsOn,
                 seen, answer, laneVars, listingVars, reloadVars>>

\* ... or keeps and returns what a call has computed.
Executed(c) == StandsAt(c, "called") /\ call[c] \in {"parent", "candidate"}
KeepsPlan(c) ==
  IF Executed(c) THEN InsertPlan(Plan(c), Computed(c, Plan(c).plan), Weight[Plan(c).plan])
                 ELSE UNCHANGED semantic
Given(c) == held[c] \cup IF Executed(c) THEN {Computed(c, Plan(c).plan)} ELSE {}

\* revise_uncached and resume go on to another call.
NextCall(c) ==
  /\ Decides(c)
  /\ KeepsPlan(c)
  /\ held' = [held EXCEPT ![c] = Given(c)]
  /\ \E next \in After(c)[call[c]] \ {"answer"} :
       /\ call' = [call EXCEPT ![c] = next]
       /\ GoTo(c, IF next \in {"parent", "candidate"} THEN "plan" ELSE "slot")
  /\ UNCHANGED <<responseVars, idempotencyVars, channel, asks, leads, waitsOn, seen,
                 answer, laneVars, listingVars, reloadVars>>

\* The envelope of an answer, by any one of the outputs it is made from: the
\* parent's, of which it has the results or the difference to them, and the
\* candidate's; or by what the request makes of a parent it cannot rebind.
Envelopes(c) ==
  IF Given(c) = {} THEN {Computed(c, asks[c].name)}
                   ELSE {[output EXCEPT !.by = c] : output \in Given(c)}

\* revise completes its reservation and answers, resume just answers.
AnswerJourney(c) ==
  /\ Decides(c)
  /\ "answer" \in After(c)[call[c]]
  /\ KeepsPlan(c)
  /\ \E envelope \in Envelopes(c) :
       /\ IF Kind(c) = "revise"
            THEN CompleteRevision(c, Mutation(c), envelope, Weight[Change(c)])
            ELSE UNCHANGED <<idempotencyVars, channel>>
       /\ End(c, envelope)
  /\ UNCHANGED <<responseVars, laneVars, catalogCache, recommendations, reloadVars>>

-----------------------------------------------------------------------------
(* Listings and recommendations. *)

\* list_properties holds the lock of its one entry while it computes.
LookupListing(c) ==
  /\ Kind(c) = "listing" /\ StandsAt(c, "lookup")
  /\ catalogLock = None
  /\ IF catalogCache # None /\ catalogCache.version = seen[c]
       THEN End(c, catalogCache.output)
       ELSE /\ catalogLock' = c
            /\ Calls(c, "list")
            /\ UNCHANGED <<leads, waitsOn, answer, asks, seen, held>>
  /\ UNCHANGED <<responseVars, revisionVars, channel, laneVars, catalogCache,
                 recommendations, reloadVars>>

KeepListing(c) ==
  /\ StandsAt(c, "called") /\ call[c] = "list"
  /\ catalogCache' = [version |-> seen[c], output |-> Computed(c, asks[c].name)]
  /\ End(c, Computed(c, asks[c].name))
  /\ UNCHANGED <<responseVars, revisionVars, channel, laneVars, recommendations,
                 reloadVars>>

\* get_property_recommendations reads its map, and builds what it misses
\* without the compute lane.
Recommended(c) == {e \in recommendations : e.property = asks[c].name /\ e.version = seen[c]}

LookupRecommendation(c) ==
  /\ Kind(c) = "recommend" /\ StandsAt(c, "lookup")
  /\ \/ \E e \in Recommended(c) : End(c, e.output)
     \/ /\ Recommended(c) = {}
        /\ GoTo(c, "build")
        /\ UNCHANGED <<call, leads, waitsOn, seen, held, answer, asks, catalogLock>>
  /\ UNCHANGED <<responseVars, revisionVars, channel, laneVars, catalogCache,
                 recommendations, reloadVars>>

KeepRecommendation(c) ==
  /\ StandsAt(c, "build")
  /\ recommendations' = (recommendations \ Recommended(c)) \cup
       {[property |-> asks[c].name, version |-> seen[c],
         output |-> Computed(c, asks[c].name)]}
  /\ End(c, Computed(c, asks[c].name))
  /\ UNCHANGED <<responseVars, revisionVars, channel, laneVars, catalogCache, reloadVars>>

\* Mutated form of Cancel: the permit of a running task comes back at once.
CancelReturningPermit(c) ==
  /\ pc[c] \notin {"new", "over"}
  /\ Abort(c)
  /\ permits' = IF StandsAt(c, "task") THEN permits + 1 ELSE permits
  /\ UNCHANGED tasks

\* The future of a request is dropped; its task goes on.
Cancel(c) ==
  /\ pc[c] \notin {"new", "over"}
  /\ Abort(c)
  /\ UNCHANGED laneVars

-----------------------------------------------------------------------------
(* reload_serving_bundle *)

ReloadAt(a, step) == reload[a] = step
ReloadGoesTo(a, step) == reload' = [reload EXCEPT ![a] = step]

\* The bundle that the catalog then selects is loaded; newer ones may have
\* been published.
Load(a) ==
  /\ ReloadAt(a, "idle")
  /\ \E v \in Versions :
       v >= published /\ published' = v /\ loaded' = [loaded EXCEPT ![a] = v]
  /\ ReloadGoesTo(a, "recommendations")
  /\ UNCHANGED <<responseVars, revisionVars, channel, asks, requestVars, laneVars,
                 listingVars, snapshot>>

\* The caches are cleared one after another, then the snapshot is stored.
ClearRecommendations(a) ==
  /\ ReloadAt(a, "recommendations")
  /\ recommendations' = {}
  /\ ReloadGoesTo(a, "catalog")
  /\ UNCHANGED <<responseVars, revisionVars, channel, asks, requestVars, laneVars,
                 catalogLock, catalogCache, snapshot, published, loaded>>

ClearListing(a) ==
  /\ ReloadAt(a, "catalog")
  /\ catalogLock = None
  /\ catalogCache' = None
  /\ ReloadGoesTo(a, "responses")
  /\ UNCHANGED <<responseVars, revisionVars, channel, asks, requestVars, laneVars,
                 catalogLock, recommendations, snapshot, published, loaded>>

ClearSearches(a) ==
  /\ ReloadAt(a, "responses")
  /\ ClearResponses
  /\ ReloadGoesTo(a, "store")
  /\ UNCHANGED <<revisionVars, asks, requestVars, laneVars, listingVars, snapshot,
                 published, loaded>>

StoreSnapshot(a) ==
  /\ ReloadAt(a, "store")
  /\ snapshot' = loaded[a]
  /\ ReloadGoesTo(a, "over")
  /\ UNCHANGED <<responseVars, revisionVars, channel, asks, requestVars, laneVars,
                 listingVars, published, loaded>>

\* The bundle cannot be loaded, or the request is dropped at an await.
AbandonReload(a) ==
  /\ reload[a] \notin {"over", "store"}
  /\ ReloadGoesTo(a, "over")
  /\ UNCHANGED <<responseVars, revisionVars, channel, asks, requestVars, laneVars,
                 listingVars, snapshot, published, loaded>>

-----------------------------------------------------------------------------
RequestStep(c) ==
  \/ LookupResponse(c) \/ LookupRevision(c) \/ Wake(c)
  \/ StartTask(c) \/ QueueTimeout(c) \/ FailCall(c)
  \/ CompleteSearch(c) \/ LookupPlan(c) \/ NextCall(c) \/ AnswerJourney(c)
  \/ LookupListing(c) \/ KeepListing(c) \/ LookupRecommendation(c) \/ KeepRecommendation(c)

ReloadStep(a) ==
  \/ ClearRecommendations(a) \/ ClearListing(a) \/ ClearSearches(a) \/ StoreSnapshot(a)

Next ==
  \/ \E c \in Callers : Arrive(c) \/ RequestStep(c) \/ EndTask(c) \/ Cancel(c)
  \/ \E a \in Reloads : Load(a) \/ ReloadStep(a) \/ AbandonReload(a)

\* Every runtime polls its futures, and every task ends; nobody has to ask,
\* hang up or reload.
Fairness ==
  /\ \A c \in Callers : WF_vars(RequestStep(c) \/ EndTask(c))
  /\ \A a \in Reloads : WF_vars(ReloadStep(a))

Spec == Init /\ [][Next]_vars /\ Fairness

-----------------------------------------------------------------------------
(* Properties. *)

CallNames == {"query", "list", "rebind", "parent", "compile", "candidate", "consequence"}

STypeOK ==
  /\ inFlight \in [CacheKeys -> Callers \cup {None}]
  /\ channel \in [Callers -> [open : BOOLEAN, sent : Outputs \cup {None}]]
  /\ revisions \in [Mutations -> RevisionEntries \cup {None}]
  /\ pc \in [Callers -> {"new", "lookup", "wait", "slot", "task", "called",
                         "plan", "decide", "build", "over"}]
  /\ call \in [Callers -> CallNames \cup {None}]
  /\ leads \in [Callers -> BOOLEAN]
  /\ waitsOn \in [Callers -> Callers \cup {None}]
  /\ seen \in [Callers -> Versions] /\ held \in [Callers -> SUBSET Outputs]
  /\ answer \in [Callers -> Outputs \cup {None}]
  /\ snapshot \in Versions /\ published \in Versions
  /\ permits \in 0 .. ComputeSlots /\ tasks \subseteq Callers
  /\ catalogLock \in Callers \cup {None}
  /\ reload \in [Reloads -> {"idle", "recommendations", "catalog", "responses", "store",
                             "over"}]
  /\ loaded \in [Reloads -> Versions]

\* The caches know what they hold: no entry is counted twice or forgotten when
\* it is replaced, evicted or cleared, and every limit holds.  Otherwise the
\* eviction loop of a completion ends too late, or never.
CachesAreAccounted ==
  /\ Accounted(responses, ResponseCapacity, ResponseMaxBytes)
  /\ Accounted(semantic, SemanticCapacity, SemanticMaxBytes)
  /\ Range(completed) = {m \in Mutations : Present(m) /\ ~InFlightRevision(m)}
  /\ \A i, j \in DOMAIN completed : completed[i] = completed[j] => i = j
  /\ completedBytes = Total([i \in 1 .. Len(completed) |-> revisions[completed[i]].weight])
  /\ completedBytes <= RevisionMaxBytes /\ Len(completed) <= RevisionCapacity

\* "Each request loads one Arc and observes one bundle" (state.rs): an answer
\* was computed from the snapshot the request has loaded and for what it asks,
\* whether it computed it, waited for it, found it in a cache or made it from
\* several outputs of which other requests have computed some, and whatever was
\* reloaded meanwhile, though a reload does not clear the cache of plans.  A
\* revision may be answered with the response its mutation already has: then it
\* is the same revision, and made from the snapshot of the request that made it.
AnsweredFromItsSnapshot ==
  \A c \in Callers : answer[c] # None =>
    IF Kind(c) = "revise"
      THEN LET maker == answer[c].by IN
           /\ asks[maker] = asks[c] /\ answer[c].of \in {asks[c].name, Change(c)}
           /\ answer[c].from = seen[maker]
      ELSE answer[c].of = asks[c].name /\ answer[c].from = seen[c]

\* A revision is computed once: whoever computes one holds the entry of its
\* mutation, so no other request computes it, and none has a response yet.
RevisionsRunOnce ==
  \A c \in Callers :
    Kind(c) = "revise" /\ leads[c] =>
      /\ InFlightRevision(Mutation(c))
      /\ revisions[Mutation(c)].leader = c
      /\ revisions[Mutation(c)].change = Change(c)

\* Nobody waits for nothing: a reservation belongs to a live request that
\* still leads it, and one that waits is answered, told that its leader is
\* gone, or waits for such a reservation.
ReservationsAreHeld ==
  LET holds(c, k) == leads[c] /\ Kind(c) = "search" /\ Key(c) = k IN
  /\ \A k \in CacheKeys : inFlight[k] # None => holds(inFlight[k], k)
  /\ \A m \in Mutations : InFlightRevision(m) => leads[revisions[m].leader]
  /\ \A c \in Callers : StandsAt(c, "wait") /\ channel[waitsOn[c]].open =>
       IF Kind(c) = "search" THEN inFlight[Key(c)] = waitsOn[c]
       ELSE InFlightRevision(Mutation(c)) /\ revisions[Mutation(c)].leader = waitsOn[c]

\* A search that was admitted is never refused by the cache: reservations do
\* not outlive the requests that the same limit admits.
AdmittedIsNotRefused ==
  \A c \in Callers :
    Kind(c) = "search" /\ StandsAt(c, "lookup") /\ Missing(Key(c)) => ~InFlightIsFull

\* A slot of the lane is either free or has a task, also after the request it
\* works for is gone.
NoPermitIsLost ==
  /\ permits + Cardinality(tasks) = ComputeSlots
  /\ \A c \in Callers : StandsAt(c, "task") => c \in tasks

\* Every request that arrives is answered or refused, and every reload that
\* has loaded its bundle ends: no waiter, no lock and no full lane stops them.
RequestsEnd ==
  /\ \A c \in Callers : Live(c) ~> StandsAt(c, "over")
  /\ \A a \in Reloads : ReloadAt(a, "recommendations") ~> ReloadAt(a, "over")
-----------------------------------------------------------------------------
(* The inductive strengthening behind AnsweredFromItsSnapshot. *)

\* Whatever is kept for a search is what a request of that name would compute
\* from the snapshot of that version.
ResponseEntries ==
  {e \in [key : CacheKeys, output : Outputs, weight : Nat] :
     e.output.of = e.key.query /\ e.output.from = e.key.version}
PlanEntries ==
  {e \in [key : [plan : Names, version : Versions], output : Outputs, weight : Nat] :
     e.output.of = e.key.plan /\ e.output.from = e.key.version}
Recommendations ==
  {e \in [property : Names, version : Versions, output : Outputs] :
     e.output.of = e.property /\ e.output.from = e.version}

\* What a revision of m with the given change may be answered, whose maker is
\* then under way: its snapshot does not change any more.
Revised(m, change, output) ==
  /\ Kind(output.by) = "revise" /\ ~StandsAt(output.by, "new")
  /\ Mutation(output.by) = m /\ Change(output.by) = change
  /\ output.of \in {m, change} /\ output.from = seen[output.by]

\* What request c may be answered.
Answers(c, output) ==
  IF Kind(c) = "revise" THEN Revised(Mutation(c), Change(c), output)
  ELSE output.of = asks[c].name /\ output.from = seen[c]

\* A leader answers for those that wait for it: it asks for the same.
AsksTheSame(c, leader) ==
  /\ Kind(leader) = Kind(c)
  /\ IF Kind(c) = "search" THEN Key(leader) = Key(c)
     ELSE Mutation(leader) = Mutation(c) /\ Change(leader) = Change(c)

\* What execute_plan has returned to a request is of one of its plans.
HeldAreOwn ==
  \A c \in Callers : \A output \in held[c] :
    /\ ~StandsAt(c, "new") /\ output.from = seen[c]
    /\ IF Kind(c) = "revise" THEN output.of \in {Mutation(c), Change(c)}
                              ELSE output.of = asks[c].name

\* The listing that is kept is the one of its version.
ListingIsKept ==
  catalogCache # None =>
    /\ catalogCache \in [version : Versions, output : Outputs]
    /\ catalogCache.output.from = catalogCache.version
    /\ \A c \in Callers : Kind(c) = "listing" => catalogCache.output.of = asks[c].name

\* The response of a mutation answers the request that reserved it.
RevisionsAnswer ==
  \A m \in Mutations :
    Present(m) /\ ~InFlightRevision(m) => Revised(m, revisions[m].change, revisions[m].response)

\* What a leader sends is an answer for it, and so for those that wait for it.
AnswersReach ==
  \A c \in Callers :
    /\ answer[c] # None => ~StandsAt(c, "new")
    /\ channel[c].sent # None =>
         Kind(c) \in {"search", "revise"} /\ ~StandsAt(c, "new") /\ Answers(c, channel[c].sent)
    /\ StandsAt(c, "wait") => ~StandsAt(waitsOn[c], "new") /\ AsksTheSame(c, waitsOn[c])

\* Wherever an answer is found, it is one for the request that finds it.
AnswersAreKept ==
  /\ \A i \in DOMAIN responses.entries : responses.entries[i] \in ResponseEntries
  /\ \A i \in DOMAIN semantic.entries : semantic.entries[i] \in PlanEntries
  /\ recommendations \subseteq Recommendations
  /\ HeldAreOwn /\ ListingIsKept /\ RevisionsAnswer /\ AnswersReach
=============================================================================
