----------------------------- MODULE MCSources ------------------------------
(***************************************************************************)
(* Four parts that do not share state, one per mode: the event router over *)
(* in-memory buses, the reconciliation of two record sets, peer ratings    *)
(* with their policies, and the incentive planner of the simulator.        *)
(***************************************************************************)
EXTENDS Reconcile, EventRouter

CONSTANTS
    Root, Trusted, Strangers, Subjects, MaxAge, FutureSkew, MaxEntries, MaxPerRater,
    MinInterval, RefreshInterval, ScoreDelta, BatchSize, EvaluationInterval, LastTime,
    MaxRatings,
    Nodes, BytesPerSat, CreditCap, MinSettlement, BatchInterval, FixedPrepay, Prefund,
    UpdateSat, Lifetime, MaxRetries, RetryAfter, Deadline, Claims, PublicDiscovery,
    HomeMint, Gateway, PayloadSizes, MaxBytes, LastDelivery

VARIABLES
    mode,
    now, latest, nextPrune, graph, services, published, nextEval, batch, offered, emitted,
    phase, deliveredAt, remainders, obligations, usefulBytes, strategy, actors, todo, credit,
    report

Ratings == INSTANCE PeerReputation
Planner == INSTANCE Incentives

ratingVars ==
    <<now, latest, nextPrune, graph, services, published, nextEval, batch, offered, emitted>>
plannerVars ==
    <<phase, deliveredAt, remainders, obligations, usefulBytes, strategy, actors, todo, credit,
      report>>

vars == <<mode, routerVars, ratingVars, plannerVars, reconcileVars>>

-----------------------------------------------------------------------------
(* Values of the constants                                                 *)

\* Eight records, several with one time stamp, so that a range is split.
MCRecords ==
    {<<1, 1>>, <<1, 2>>, <<1, 5>>, <<1, 6>>, <<2, 0>>, <<2, 3>>, <<4, 4>>, <<4, 7>>}

\* Two replicas of one data set and a second data set.
MCRoutes ==
    <<[dataset |-> "d1", kind |-> "relay"], [dataset |-> "d1", kind |-> "local"],
      [dataset |-> "d2", kind |-> "relay"]>>

MCCreatedAt == [e \in Events |-> e \div 2]

Filter(events, limit) == [match |-> events, limit |-> limit]

TwoFilters == <<Filter({1}, NoLimit), Filter({2, 3}, NoLimit)>>
MCLiveRequests == {TwoFilters}

MCContents ==
    {NothingStored, <<<<1>>, <<2, 2, 1>>, <<3>>>>, <<<<3, 1>>, <<>>, <<2, 1>>>>,
     <<<<2, 3>>, <<1>>, <<3, 2>>>>}

MCHomeMint == [n \in Nodes |-> n % 2]

-----------------------------------------------------------------------------
Init ==
    /\ mode \in {"live", "query", "rate", "publish", "reconcile", "plan"}
    /\ RouterInit
    /\ mode # "query" => bus = NothingStored
    /\ Ratings!ReputationInit
    /\ Planner!IncentiveInit
    /\ IF mode = "reconcile" THEN ReconcileInit
       ELSE /\ ours = Storage({}) /\ theirs = Storage({})
            /\ side = "idle" /\ frame = <<>> /\ rounds = [ours |-> 0, theirs |-> 0]
            /\ have = <<>> /\ need = <<>>

RouterStep ==
    /\ \/ mode = "live" /\ LiveNext
       \/ /\ mode = "query"
          /\ \/ PublishStep({CHOOSE p \in Publishers : TRUE},
                                   IF begun = 0 THEN {2} ELSE {})
             \/ QueryStep({<<>>, TwoFilters, <<Filter(Events, 1)>>})
    /\ UNCHANGED <<mode, ratingVars, plannerVars, reconcileVars>>

\* Ratings that may come into being now, by id from the least or the greatest.
NewRatings ==
    {[rater |-> x, subject |-> s, created |-> c, id |-> i, score |-> -1] :
        x \in {Root} \cup Trusted \cup Strangers, s \in Subjects,
        c \in {now - 1, now, now + 1} \cap Nat,
        i \in IF Ratings!Unused = {} THEN {} ELSE {Min(Ratings!Unused), Max(Ratings!Unused)}}

RateStep ==
    \/ \E r \in offered \cup {q \in NewRatings :
                q.rater # Root => q.subject = 1 /\ q.id = Min(Ratings!Unused)
                                  /\ q.created = now} :
            Ratings!Observe(r)
    \/ offered = {} /\ Ratings!SetService(1, Ratings!AnyCapability, Ratings!Allow(500))
    \/ Ratings!Maintain(<<>>)

PublishRatingStep ==
    \/ \E score \in [Subjects -> {-1, 0, 1}], by \in {<<1, 2, 3>>, <<3, 2, 1>>} :
            Ratings!Maintain([i \in 1..3 |-> [subject |-> by[i], score |-> score[by[i]]]])
    \/ \E accepted \in BOOLEAN : Ratings!PublishRating(accepted)

RatingStep ==
    /\ mode \in {"rate", "publish"}
    /\ \/ mode = "rate" /\ RateStep
       \/ mode = "publish" /\ PublishRatingStep
       \/ Ratings!Restart
       \/ Ratings!Advance
    /\ UNCHANGED <<mode, routerVars, plannerVars, reconcileVars>>

ReconcileStep ==
    /\ mode = "reconcile"
    /\ ReconcileNext
    /\ UNCHANGED <<mode, routerVars, ratingVars, plannerVars>>

PlannerStep ==
    /\ mode = "plan"
    /\ Planner!IncentiveNext
    /\ UNCHANGED <<mode, routerVars, ratingVars, reconcileVars>>

Next == RouterStep \/ RatingStep \/ ReconcileStep \/ PlannerStep

Spec == Init /\ [][Next]_vars

-----------------------------------------------------------------------------
(* The properties of the other parts, each in its mode.  Those of the      *)
(* router hold trivially where it does not move.                           *)

\* The exchange of two honest sides ends with the exact difference, and no
\* frame on the way is refused (engine.rs, reconcile_aux; lib.rs, tick).
DifferenceExact == mode = "reconcile" => Exact /\ NeverRefused

\* The graph is built from the ratings that a replay of everything offered
\* would keep, in whatever order they came (reputation.rs, consider_event); a
\* key the local root rates down is refused as a peer and dropped as a source
\* whatever boosts it has (social-graph lib.rs, combine); two publications about
\* one subject keep the minimum interval, across restarts too, unless the later
\* one turns negative (should_publish_event).
RatingsSound ==
    /\ mode = "rate" => Ratings!Replayable /\ Ratings!Shunned
    /\ mode = "publish" => Ratings!Paced

\* The planner's books balance, nothing it priced vanishes, and unsecured
\* credit stays within the cap (incentives.rs, accepted_batch.rs).
BooksBalance == mode = "plan" => Planner!BooksBalance
=============================================================================
