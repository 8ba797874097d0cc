---------------------------- MODULE EventRouter ----------------------------
(***************************************************************************)
(* NostrPubsubRouter (crates/nostr-pubsub/src/router.rs) over in-memory    *)
(* buses: routed publication, routed queries (routes.rs) and live          *)
(* subscriptions across routes (live_routes.rs).  Publishers, sessions and *)
(* queries are concurrent callers; a step is what one of them does between *)
(* two awaits or two locks.  The policy is the application's and may       *)
(* allow, drop or fail at every call; a route may fail too.                *)
(***************************************************************************)
EXTENDS Filters, Integers, SequencesExt, FiniteSets

(***************************************************************************)
(* InMemoryEventBus (crates/nostr-pubsub/src/memory.rs) and the filter     *)
(* matching it shares with its callers (lib.rs).  An event is a number,    *)
(* its id; CreatedAt gives its time stamp.  A filter is the set of events  *)
(* it matches and its own limit.  A bus is the sequence of the copies it   *)
(* stored, in arrival order: publishing an event twice stores it twice.    *)
(***************************************************************************)
CONSTANTS Events,    \* numbers: the byte order of ids is their order
          CreatedAt  \* [Events -> Nat]

NoLimit == 1000      \* usize::MAX

Anything == [match |-> Events, limit |-> NoLimit]

\* filters_match: no filter at all matches everything.
FiltersMatch(filters, e) == filters = <<>> \/ \E i \in DOMAIN filters : e \in filters[i].match

\* The order of every answer: newest first, then by id.
Before(a, b) ==
    \/ CreatedAt[a] > CreatedAt[b]
    \/ CreatedAt[a] = CreatedAt[b] /\ a < b

First(s, limit) == SubSeq(s, 1, IF limit < Len(s) THEN limit ELSE Len(s))

\* query: a filter's own limit counts the copies it matched; the caller's
\* limit counts events.
Matched(f, copies) == First(SelectSeq(copies, LAMBDA e : e \in f.match), f.limit)

Query(stored, filters, limit) ==
    LET copies == SortSeq(stored, Before)
        asked == IF filters = <<>> THEN <<Anything>> ELSE filters
        hits == UNION {ToSet(Matched(f, copies)) : f \in ToSet(asked)}
    IN  First(SetToSortSeq(hits, Before), limit)

-----------------------------------------------------------------------------
(***************************************************************************)
(* The pure parts of query_routes_with_policy                              *)
(* (crates/nostr-pubsub/src/routes.rs): which routes are asked, in which   *)
(* order, and how the answers become one report.  Routes is the router's   *)
(* list; a route is named by its position.                                 *)
(***************************************************************************)
CONSTANT Routes      \* sequence of [dataset, kind]

\* EventSourceKind::default_priority.
DefaultPriority == [local |-> 300, fips |-> 200, peer |-> 100, relay |-> -100]

\* allowed_candidates: the policy drops a route, or adds to its priority;
\* those that are left, the domain of added, are tried by falling priority, then by position.
Candidates(added) ==
    LET rank(r) == DefaultPriority[Routes[r].kind] + added[r]
    IN  SetToSortSeq(DOMAIN added, LAMBDA a, b : rank(a) > rank(b) \/ (rank(a) = rank(b) /\ a < b))

\* group_by_dataset: groups in the order of their first candidate.
GroupByDataset(candidates) ==
    LET dataset(r) == Routes[r].dataset
        like(r) == SelectSeq(candidates, LAMBDA q : dataset(q) = dataset(r))
        firsts == SelectSeq(candidates, LAMBDA r : r = Head(like(r)))
    IN  [i \in DOMAIN firsts |-> [dataset |-> dataset(firsts[i]), replicas |-> like(firsts[i])]]

\* Mutant: the answers one after another, as the datasets were ranked.
MergedInTurn(answers) ==
    LET all == FlattenSeq([i \in DOMAIN answers |-> answers[i].events])
        firsts == {k \in DOMAIN all : \A l \in 1 .. k - 1 : all[l] # all[k]}
        order == SetToSortSeq(firsts, <)
    IN  [i \in DOMAIN order |->
            [event |-> all[order[i]],
             routes |-> {answers[j].route : j \in {j \in DOMAIN answers :
                             Contains(answers[j].events, all[order[i]])}}]]

\* routed_event, merge_routed_events: one entry for each event, with the
\* routes that brought it, newest first.
Merged(answers) ==
    LET bringing(e) == {i \in DOMAIN answers : Contains(answers[i].events, e)}
        events == {e \in Events : bringing(e) # {}}
        sorted == SetToSortSeq(events, Before)
    IN  [i \in DOMAIN sorted |->
            [event |-> sorted[i], routes |-> {answers[j].route : j \in bringing(sorted[i])}]]

-----------------------------------------------------------------------------
CONSTANTS
    Publishers,     \* callers of publish
    Sessions,       \* live subscriptions, each opened at most once
    Limits,         \* query limits that callers use
    Contents,       \* what the buses may hold at the start
    MaxSeen,        \* max_seen_events
    MaxPublishes,   \* bound: publications begun
    MaxFaults,      \* bound: failures of routes and of the policy
    Posted,         \* events published while sessions are live
    LiveRequests,   \* filter lists a session may ask for
    LiveChoices     \* sets of routes the policy may allow a session

\* The routes are a list, and the policy chooses among them.
ASSUME RouterAssumption ==
    /\ Routes \in Seq([dataset : STRING, kind : STRING])
    /\ Posted \subseteq Events /\ LiveChoices \subseteq SUBSET DOMAIN Routes
    /\ MaxSeen \in Nat

VARIABLES
    bus,       \* route -> the copies it stores
    handlers,  \* route -> sessions whose handler is registered there
    pub,       \* publisher -> its call
    session,   \* session -> its call
    seen,      \* session -> SeenEvents, oldest first
    query,     \* the query
    taken,     \* history: session -> events it took, in order, while not closed
    since,     \* history: session -> [route -> copies stored before it registered]
    held,      \* history: what the routes stored when the query began
    begun, faults

routerVars == <<bus, handlers, pub, session, seen, query, taken, since, held, begun, faults>>

RouteIds == DOMAIN Routes
NoOne == "none"
IdlePublisher == [phase |-> "idle", event |-> 0, route |-> 1, left |-> {}, taking |-> NoOne,
                  accepted |-> 0, attempted |-> 0]
NewSession == [phase |-> "new", filters |-> <<>>, left |-> <<>>, active |-> <<>>]
NoQuery == [phase |-> "none", filters |-> <<>>, limit |-> 0, groups |-> <<>>,
            answers |-> <<>>, complete |-> FALSE, events |-> <<>>]

RouterInit ==
    /\ bus \in Contents
    /\ handlers = [r \in RouteIds |-> {}]
    /\ pub = [p \in Publishers |-> IdlePublisher]
    /\ session = [s \in Sessions |-> NewSession]
    /\ seen = [s \in Sessions |-> <<>>]
    /\ query = NoQuery
    /\ taken = [s \in Sessions |-> <<>>]
    /\ since = [s \in Sessions |-> [r \in RouteIds |-> 0]]
    /\ held = [r \in RouteIds |-> {}]
    /\ begun = 0
    /\ faults = 0

Fault == faults < MaxFaults /\ faults' = faults + 1

-----------------------------------------------------------------------------
(* publish_to_routes, with InMemoryEventBus::publish at each route.        *)

Begin(p, e) ==
    /\ pub[p].phase = "idle" /\ begun < MaxPublishes
    /\ pub' = [pub EXCEPT ![p] = [IdlePublisher EXCEPT !.phase = "routing", !.event = e]]
    /\ begun' = begun + 1
    /\ UNCHANGED <<bus, handlers, session, seen, query, taken, since, held, faults>>

AtRoute(p) == pub[p].phase = "routing" /\ pub[p].route \in RouteIds

\* The policy drops the route.
SkipRoute(p) ==
    /\ AtRoute(p)
    /\ pub' = [pub EXCEPT ![p].route = @ + 1]
    /\ UNCHANGED <<bus, handlers, session, seen, query, taken, since, held, begun, faults>>

\* The policy fails: the call returns its error, whatever the routes before
\* this one have stored.
AbortPublish(p) ==
    /\ AtRoute(p) /\ Fault
    /\ pub' = [pub EXCEPT ![p] = IdlePublisher]
    /\ UNCHANGED <<bus, handlers, session, seen, query, taken, since, held, begun>>

\* The route's own policy drops the event, or the route fails.
RefuseAtRoute(p) ==
    /\ AtRoute(p) /\ Fault
    /\ pub' = [pub EXCEPT ![p].route = @ + 1, ![p].attempted = @ + 1]
    /\ UNCHANGED <<bus, handlers, session, seen, query, taken, since, held, begun>>

\* Mutant: only the first filter decides.
InterestedInFirst(r, e) ==
    {s \in handlers[r] : session[s].filters = <<>> \/ e \in session[s].filters[1].match}

\* Under the write lock: store the event and note the handlers to call.
Interested(r, e) == {s \in handlers[r] : FiltersMatch(session[s].filters, e)}
StoreAtRoute(p) ==
    /\ AtRoute(p)
    /\ LET r == pub[p].route IN
           /\ bus' = [bus EXCEPT ![r] = Append(@, pub[p].event)]
           /\ pub' = [pub EXCEPT ![p].phase = "calling", ![p].attempted = @ + 1,
                                 ![p].left = Interested(r, pub[p].event)]
    /\ UNCHANGED <<handlers, session, seen, query, taken, since, held, begun, faults>>

\* Mutant: the oldest id leaves one insertion early.
InsertShort(order, e) ==
    LET grown == Append(order, e) IN
    IF Len(grown) >= MaxSeen THEN Tail(grown) ELSE grown

\* SeenEvents::insert
Insert(order, e) ==
    LET grown == Append(order, e) IN
    IF Len(grown) > MaxSeen THEN Tail(grown) ELSE grown

\* A handler of a live session: it takes the event unless it knows it, and
\* then calls the subscriber, who may run at any later moment.
CallHandler(p, s) ==
    /\ pub[p].phase = "calling" /\ s \in pub[p].left /\ pub[p].taking = NoOne
    /\ LET e == pub[p].event
           known == Contains(seen[s], e) IN
           /\ seen' = IF known THEN seen ELSE [seen EXCEPT ![s] = Insert(@, e)]
           /\ taken' = IF known \/ session[s].phase = "closed" THEN taken
                       ELSE [taken EXCEPT ![s] = Append(@, e)]
           /\ pub' = [pub EXCEPT ![p].left = @ \ {s}, ![p].taking = IF known THEN NoOne ELSE s]
    /\ UNCHANGED <<bus, handlers, session, query, since, held, begun, faults>>

SubscriberRuns(p) ==
    /\ pub[p].taking # NoOne
    /\ pub' = [pub EXCEPT ![p].taking = NoOne]
    /\ UNCHANGED <<bus, handlers, session, seen, query, taken, since, held, begun, faults>>

\* The route's publish returns.
RouteAccepted(p) ==
    /\ pub[p].phase = "calling" /\ pub[p].left = {} /\ pub[p].taking = NoOne
    /\ pub' = [pub EXCEPT ![p].phase = "routing", ![p].route = @ + 1, ![p].accepted = @ + 1]
    /\ UNCHANGED <<bus, handlers, session, seen, query, taken, since, held, begun, faults>>

\* The report: accepted when some route accepted.
ReportPublish(p) ==
    /\ pub[p].phase = "routing" /\ pub[p].route \notin RouteIds
    /\ pub' = [pub EXCEPT ![p] = IdlePublisher]
    /\ UNCHANGED <<bus, handlers, session, seen, query, taken, since, held, begun, faults>>

PublishStep(callers, events) ==
    \E p \in callers :
        \/ \E e \in events : Begin(p, e)
        \/ SkipRoute(p) \/ AbortPublish(p) \/ RefuseAtRoute(p) \/ StoreAtRoute(p)
        \/ \E s \in Sessions : CallHandler(p, s)
        \/ SubscriberRuns(p) \/ RouteAccepted(p) \/ ReportPublish(p)

-----------------------------------------------------------------------------
(* subscribe_routes_with_policy and RoutedLiveSubscription::close.         *)

\* The policy is asked about every route before any is opened.
Subscribe(s, filters, allowed) ==
    /\ session[s].phase = "new"
    /\ session' = [session EXCEPT ![s] = [NewSession EXCEPT
                       !.phase = "opening", !.filters = filters,
                       !.left = Only([r \in RouteIds |-> r], allowed)]]
    /\ UNCHANGED <<bus, handlers, pub, seen, query, taken, since, held, begun, faults>>

\* subscribe on an in-memory bus registers the handler under its lock.
OpenRoute(s) ==
    /\ session[s].phase = "opening" /\ session[s].left # <<>>
    /\ LET r == Head(session[s].left) IN
           /\ handlers' = [handlers EXCEPT ![r] = @ \cup {s}]
           /\ since' = [since EXCEPT ![s][r] = Len(bus[r])]
           /\ session' = [session EXCEPT ![s].left = Tail(@), ![s].active = Append(@, r)]
    /\ UNCHANGED <<bus, pub, seen, query, taken, held, begun, faults>>

\* A route cannot be opened: the ones already open are closed again.
OpenFails(s) ==
    /\ session[s].phase = "opening" /\ session[s].left # <<>> /\ Fault
    /\ session' = [session EXCEPT ![s].phase = "undoing", ![s].left = <<>>]
    /\ UNCHANGED <<bus, handlers, pub, seen, query, taken, since, held, begun>>

Subscribed(s) ==
    /\ session[s].phase = "opening" /\ session[s].left = <<>>
    /\ session' = [session EXCEPT ![s].phase = "open"]
    /\ UNCHANGED <<bus, handlers, pub, seen, query, taken, since, held, begun, faults>>

Close(s) ==
    /\ session[s].phase = "open"
    /\ session' = [session EXCEPT ![s].phase = "closing"]
    /\ UNCHANGED <<bus, handlers, pub, seen, query, taken, since, held, begun, faults>>

\* close_subscriptions: one route after another, whether or not one fails.
CloseRoute(s) ==
    /\ session[s].phase \in {"closing", "undoing"} /\ session[s].active # <<>>
    /\ handlers' = [handlers EXCEPT ![Head(session[s].active)] = @ \ {s}]
    /\ session' = [session EXCEPT ![s].active = Tail(@)]
    /\ UNCHANGED <<bus, pub, seen, query, taken, since, held, begun, faults>>

\* The routes are closed and the seen events forgotten; a handler that a
\* publisher noted before may still run.  A failed subscribe forgets nothing.
Closed(s) ==
    /\ session[s].phase \in {"closing", "undoing"} /\ session[s].active = <<>>
    /\ seen' = IF session[s].phase = "closing" THEN [seen EXCEPT ![s] = <<>>] ELSE seen
    /\ session' = [session EXCEPT ![s].phase = "closed"]
    /\ UNCHANGED <<bus, handlers, pub, query, taken, since, held, begun, faults>>

LiveStep(filterLists, choices) ==
    \E s \in Sessions :
        \/ \E filters \in filterLists, allowed \in choices : Subscribe(s, filters, allowed)
        \/ OpenRoute(s) \/ OpenFails(s) \/ Subscribed(s)
        \/ Close(s) \/ CloseRoute(s) \/ Closed(s)

\* Live sessions and publishers together, over buses that are empty at first.
NothingStored == [r \in RouteIds |-> <<>>]
LiveInit == RouterInit /\ bus = NothingStored
LiveNext == PublishStep(Publishers, Posted) \/ LiveStep(LiveRequests, LiveChoices)
LiveSpec == LiveInit /\ [][LiveNext]_routerVars

-----------------------------------------------------------------------------
(* query_routes_with_policy: the datasets are asked concurrently, the      *)
(* replicas of one in turn.                                                *)

Ask(filters, limit, added) ==
    /\ query.phase = "none"
    /\ LET groups == GroupByDataset(Candidates(added)) IN
           query' = [NoQuery EXCEPT
               !.phase = IF limit = 0 THEN "done" ELSE "asking", !.filters = filters,
               !.limit = limit, !.groups = groups, !.complete = (limit = 0),
               !.answers = [g \in DOMAIN groups |-> [route |-> 0, events |-> <<>>]]]
    /\ held' = [r \in RouteIds |-> ToSet(bus[r])]
    /\ UNCHANGED <<bus, handlers, pub, session, seen, taken, since, begun, faults>>

\* The dataset still has a replica to ask.
Unanswered(g) ==
    query.phase = "asking" /\ query.answers[g].route = 0 /\ query.groups[g].replicas # <<>>

ReplicaAnswers(g) ==
    /\ Unanswered(g)
    /\ LET r == Head(query.groups[g].replicas) IN
           query' = [query EXCEPT !.answers[g] =
               [route |-> r, events |-> Query(bus[r], query.filters, query.limit)]]
    /\ UNCHANGED <<bus, handlers, pub, session, seen, taken, since, held, begun, faults>>

ReplicaFails(g) ==
    /\ Unanswered(g) /\ Fault
    /\ query' = [query EXCEPT !.groups[g].replicas = Tail(@)]
    /\ UNCHANGED <<bus, handlers, pub, session, seen, taken, since, held, begun>>

Report ==
    /\ query.phase = "asking" /\ \A g \in DOMAIN query.groups : ~ Unanswered(g)
    /\ query' = [query EXCEPT !.phase = "done",
           !.complete = \A g \in DOMAIN query.groups : query.answers[g].route # 0,
           !.events = First(Merged(query.answers), query.limit)]
    /\ UNCHANGED <<bus, handlers, pub, session, seen, taken, since, held, begun, faults>>

QueryStep(filterLists) ==
    \/ \E filters \in filterLists, limit \in Limits, allowed \in SUBSET RouteIds :
           \E added \in [allowed -> {0, 300}] : Ask(filters, limit, added)
    \/ \E g \in DOMAIN query.groups : ReplicaAnswers(g) \/ ReplicaFails(g)
    \/ Report

-----------------------------------------------------------------------------
\* While a session stands, it takes an event a second time only after it took
\* MaxSeen others: whichever routes bring the copies, in whatever order the
\* handlers run (live_routes.rs, SeenEvents::insert).
OncePerWindow ==
    \A s \in Sessions : \A i, j \in DOMAIN taken[s] :
        i < j /\ taken[s][i] = taken[s][j] => j - i > MaxSeen

\* Once every publisher is done, an open session has taken every matching
\* event that any of its routes stored after the session registered there
\* (memory.rs, publish: stored and handlers noted under one lock).
NoneMissed ==
    (\A p \in Publishers : pub[p].phase = "idle") =>
        \A s \in Sessions : session[s].phase = "open" =>
            \A i \in DOMAIN session[s].active :
                LET r == session[s].active[i] IN
                \A k \in since[s][r] + 1 .. Len(bus[r]) :
                    FiltersMatch(session[s].filters, bus[r][k])
                        => Contains(taken[s], bus[r][k])

\* A complete report has asked every dataset, and lacks a matching event that
\* an answering route held when the query began only if the limit is filled
\* with events before it.  A filter with a limit of its own asks for less.
NewestKept ==
    query.phase = "done" /\ query.complete /\ query.limit > 0
        /\ (\A i \in DOMAIN query.filters : query.filters[i].limit = NoLimit) =>
        \A g \in DOMAIN query.groups :
            LET r == query.answers[g].route IN
            /\ r # 0
            /\ \A e \in held[r] : FiltersMatch(query.filters, e) =>
                   \/ \E i \in DOMAIN query.events : query.events[i].event = e
                                                  /\ r \in query.events[i].routes
                   \/ /\ Len(query.events) = query.limit
                      /\ \A i \in DOMAIN query.events : Before(query.events[i].event, e)
=============================================================================
