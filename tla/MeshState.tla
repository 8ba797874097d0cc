----------------------------- MODULE MeshState -----------------------------
(***************************************************************************)
(* The data of crates/nostr-pubsub/src/mesh.rs (struct InvWantMesh) and    *)
(* the state changes its handlers are built from, as operators on one      *)
(* record `m`, so that the handlers (InvWantMesh) compose them.            *)
(*                                                                         *)
(* A HashMap from event id to an expiry is a function on Events whose      *)
(* value is the expiry, 0 meaning "no entry": every expiry the code stores *)
(* is now + ttl with ttl >= 1.  A VecDeque is a sequence.                  *)
(***************************************************************************)
EXTENDS Integers, Sequences, FiniteSets, SequencesExt, FiniteSetsExt, Filters, PeerBehavior

CONSTANTS
    Events,        \* canonical event ids; an id determines its signed event
    MalformedId,   \* any id validate_event_id refuses
    Forged,        \* the body of a frame whose signature does not verify
    KindOf,        \* the kind of each signed event
    SizeOf,        \* its serialised size in bytes
    Options,       \* InvWantMeshOptions as the application passes them
    MaxProviders   \* MAX_UPSTREAM_PROVIDERS_PER_EVENT (3 in the code)

AtLeast(low, x) == IF x < low THEN low ELSE x
AtMost(high, x) == IF x > high THEN high ELSE x

\* InvWantMesh::new normalises the options before it keeps them.
Opt ==
    LET fanout      == AtLeast(1, Options.fanout)
        event_bytes == AtLeast(1, Options.max_event_bytes)
        route_ttl   == AtLeast(1, Options.route_ttl_ms)
    IN  [fanout                      |-> fanout,
         unknown_peer_reserve        |-> AtMost(fanout, Options.unknown_peer_reserve),
         max_hops                    |-> AtLeast(1, Options.max_hops),
         max_event_bytes             |-> event_bytes,
         max_cached_events           |-> AtLeast(1, Options.max_cached_events),
         max_cached_event_bytes      |-> AtLeast(event_bytes, Options.max_cached_event_bytes),
         max_seen_events             |-> AtLeast(1, Options.max_seen_events),
         max_pending_peers_per_event |-> AtLeast(1, Options.max_pending_peers_per_event),
         route_ttl_ms                |-> route_ttl,
         event_ttl_ms                |-> AtLeast(route_ttl, Options.event_ttl_ms),
         allowed_kinds               |-> Options.allowed_kinds]

OptionsType ==
    [fanout : Nat, unknown_peer_reserve : Nat, max_hops : Nat, max_event_bytes : Nat,
     max_cached_events : Nat, max_cached_event_bytes : Nat, max_seen_events : Nat,
     max_pending_peers_per_event : Nat, route_ttl_ms : Nat, event_ttl_ms : Nat,
     allowed_kinds : SUBSET Nat]

ASSUME EventsAssumption  == /\ IsFiniteSet(Events)
                            /\ MalformedId \notin Events /\ Forged \notin Events
ASSUME SignedAssumption  == KindOf \in [Events -> Nat] /\ SizeOf \in [Events -> Nat \ {0}]
ASSUME OptionsAssumption == Options \in OptionsType /\ MaxProviders \in Nat \ {0}

-----------------------------------------------------------------------------
(* The state *)

\* struct UpstreamRoute; expires = 0 is the absent route.
Route ==
    [peer : Peers \cup {0}, alternates : SUBSET Peers, disrupted : SUBSET Peers,
     kind : Nat, bytes : Nat, hop : Nat, expires : Nat, fulfilled : BOOLEAN]

NoRoute ==
    [peer |-> 0, alternates |-> {}, disrupted |-> {}, kind |-> 0, bytes |-> 0,
     hop |-> 0, expires |-> 0, fulfilled |-> FALSE]

\* struct PendingPeers; expires = 0 is the absent entry.
Pending   == [peers : SUBSET Peers, expires : Nat]
NoPending == [peers |-> {}, expires |-> 0]

MeshType ==
    [cached : [Events -> Nat], cacheOrder : Seq(Events), cachedBytes : Nat,
     seen : [Events -> Nat], seenOrder : Seq(Events),
     delivered : [Events -> Nat], deliveredOrder : Seq(Events),
     routes : [Events -> Route], pending : [Events -> Pending], pendingCount : Nat,
     wantForwarded : [Events -> Nat], nextPrune : Nat]

Absent == [e \in Events |-> 0]

EmptyMesh ==
    [cached |-> Absent, cacheOrder |-> <<>>, cachedBytes |-> 0,
     seen |-> Absent, seenOrder |-> <<>>,
     delivered |-> Absent, deliveredOrder |-> <<>>,
     routes |-> [e \in Events |-> NoRoute],
     pending |-> [e \in Events |-> NoPending], pendingCount |-> 0,
     wantForwarded |-> Absent, nextPrune |-> 0]

Live(f)      == {e \in Events : f[e] > 0}
Routed(m)    == {e \in Events : m.routes[e].expires > 0}
Waiting(m)   == {e \in Events : m.pending[e].expires > 0}
Providers(r) == {r.peer} \cup r.alternates

-----------------------------------------------------------------------------
(* Helpers of the handlers *)

SaturatingSub(a, b) == AtLeast(0, a - b)

\* HashMap::retain and the VecDeque::retain that follows it.
Retain(f, now)          == [e \in Events |-> IF f[e] > now THEN f[e] ELSE 0]
RetainOrder(order, f)   == Only(order, Live(f))
Without(f, gone)        == [e \in Events |-> IF e \in gone THEN 0 ELSE f[e]]
Prefix(order, k)        == ToSet(SubSeq(order, 1, k))
DropPrefix(order, k)    == SubSeq(order, k + 1, Len(order))

\* A total is the size of the set of things it counts: the bytes of some
\* events, the peers waiting for some events.
Bytes(events)              == Cardinality(UNION {{e} \X (1..SizeOf[e]) : e \in events})
Waiters(pending, events)   == {w \in events \X Peers : w[2] \in pending[w[1]].peers}
PeerCount(pending, events) == Cardinality(Waiters(pending, events))

\* How many of the oldest entries the loop
\* `while map.len() >= limit { order.pop_front() .. }` removes.
EvictionCount(order, live, limit) ==
    Min({k \in 0..Len(order) :
            k = Len(order) \/ Cardinality(live \ Prefix(order, k)) < limit})

\* Mutant: the schedule is set once and never moved to an earlier expiry.
TrackExpiryOnce(next, t) == IF next = 0 THEN t ELSE next

TrackExpiry(next, t) == IF next = 0 \/ t < next THEN t ELSE next

\* mesh_resources.rs remove_pending_event, for a set of events.
RemovePending(m, events) ==
    [m EXCEPT !.pending = [e \in Events |-> IF e \in events THEN NoPending ELSE m.pending[e]],
              !.pendingCount = SaturatingSub(@, PeerCount(m.pending, events))]

\* mesh.rs remember_inventory: TRUE when the inventory is new.
IsNewInventory(m, e, now) == ~(m.seen[e] > now)

\* Mutant: an evicted inventory leaves its waiting peers behind.
RememberInventoryKeepingWaiters(m, e, now) ==
    LET known == m.seen[e] > 0
        k     == IF known THEN 0 ELSE EvictionCount(m.seenOrder, Live(m.seen), Opt.max_seen_events)
        gone  == Prefix(m.seenOrder, k)
    IN  [m EXCEPT
            !.seen = [Without(m.seen, gone) EXCEPT ![e] = now + Opt.route_ttl_ms],
            !.seenOrder = IF known THEN m.seenOrder ELSE Append(DropPrefix(m.seenOrder, k), e),
            !.routes = [x \in Events |-> IF x \in gone THEN NoRoute ELSE m.routes[x]],
            !.wantForwarded = Without(m.wantForwarded, gone),
            !.nextPrune = TrackExpiry(m.nextPrune, now + Opt.route_ttl_ms)]

\* Mutant: an evicted inventory leaves its want marker behind.
RememberInventoryKeepingWant(m, e, now) ==
    [RememberInventoryKeepingWaiters(m, e, now) EXCEPT !.wantForwarded = m.wantForwarded]

RememberInventory(m, e, now) ==
    LET known  == m.seen[e] > 0
        k      == IF known THEN 0 ELSE EvictionCount(m.seenOrder, Live(m.seen), Opt.max_seen_events)
        gone   == Prefix(m.seenOrder, k)
        expiry == now + Opt.route_ttl_ms
    IN  [RemovePending(m, gone) EXCEPT
            !.seen = [Without(m.seen, gone) EXCEPT ![e] = expiry],
            !.seenOrder = IF known THEN m.seenOrder ELSE Append(DropPrefix(m.seenOrder, k), e),
            !.routes = [x \in Events |-> IF x \in gone THEN NoRoute ELSE m.routes[x]],
            !.wantForwarded = Without(m.wantForwarded, gone),
            !.nextPrune = TrackExpiry(m.nextPrune, expiry)]

\* Mutant: only the number of cached events is bounded.
StoreEventByCount(m, e, now) ==
    LET known == m.cached[e] > 0
        k     == IF known THEN 0
                 ELSE EvictionCount(m.cacheOrder, Live(m.cached), Opt.max_cached_events)
        gone  == IF known THEN {e} ELSE Prefix(m.cacheOrder, k)
    IN  [m EXCEPT
            !.cached = [Without(m.cached, gone) EXCEPT ![e] = now + Opt.event_ttl_ms],
            !.cacheOrder = IF known THEN m.cacheOrder ELSE Append(DropPrefix(m.cacheOrder, k), e),
            !.cachedBytes = SaturatingSub(m.cachedBytes, Bytes(gone)) + SizeOf[e],
            !.nextPrune = TrackExpiry(m.nextPrune, now + Opt.event_ttl_ms)]

\* mesh_resources.rs store_event with evict_oldest_cached_event.
StoreEvent(m, e, now) ==
    LET known  == m.cached[e] > 0
        Room(k) == /\ Cardinality(Live(m.cached) \ Prefix(m.cacheOrder, k)) < Opt.max_cached_events
                   /\ SaturatingSub(m.cachedBytes, Bytes(Prefix(m.cacheOrder, k))) + SizeOf[e]
                         <= Opt.max_cached_event_bytes
        k      == IF known THEN 0
                  ELSE Min({i \in 0..Len(m.cacheOrder) : i = Len(m.cacheOrder) \/ Room(i)})
        gone   == IF known THEN {e} ELSE Prefix(m.cacheOrder, k)
        expiry == now + Opt.event_ttl_ms
    IN  [m EXCEPT
            !.cached = [Without(m.cached, gone) EXCEPT ![e] = expiry],
            !.cacheOrder = IF known THEN m.cacheOrder ELSE Append(DropPrefix(m.cacheOrder, k), e),
            !.cachedBytes = SaturatingSub(m.cachedBytes, Bytes(gone)) + SizeOf[e],
            !.nextPrune = TrackExpiry(m.nextPrune, expiry)]

\* mesh_resources.rs remember_delivered: TRUE when the event is delivered now.
IsNewDelivery(m, e) == m.delivered[e] = 0

\* Mutant: a delivery record lives only as long as a route.
RememberDeliveredBriefly(m, e, now) ==
    LET k == EvictionCount(m.deliveredOrder, Live(m.delivered), Opt.max_seen_events)
    IN  [m EXCEPT
            !.delivered = [Without(m.delivered, Prefix(m.deliveredOrder, k))
                              EXCEPT ![e] = now + Opt.route_ttl_ms],
            !.deliveredOrder = Append(DropPrefix(m.deliveredOrder, k), e),
            !.nextPrune = TrackExpiry(m.nextPrune, now + Opt.route_ttl_ms)]

RememberDelivered(m, e, now) ==
    LET k      == EvictionCount(m.deliveredOrder, Live(m.delivered), Opt.max_seen_events)
        expiry == now + Opt.event_ttl_ms
    IN  [m EXCEPT
            !.delivered = [Without(m.delivered, Prefix(m.deliveredOrder, k)) EXCEPT ![e] = expiry],
            !.deliveredOrder = Append(DropPrefix(m.deliveredOrder, k), e),
            !.nextPrune = TrackExpiry(m.nextPrune, expiry)]

-----------------------------------------------------------------------------
(* prune *)

PruneDue(m, now) == m.nextPrune # 0 /\ m.nextPrune <= now

\* Routes whose providers are blamed when they expire.
UnservedRoutes(m, now) ==
    IF PruneDue(m, now)
    THEN {e \in Routed(m) : ~m.routes[e].fulfilled /\ m.routes[e].expires <= now}
    ELSE {}

\* The expiries prune schedules itself by; pending entries are not among them.
ExpiriesOf(m, e) == {m.cached[e], m.seen[e], m.delivered[e], m.routes[e].expires} \ {0}
Expiries(m)      == UNION {ExpiriesOf(m, e) : e \in Events}

\* The maps prune scans, without their expired entries.
Unexpired(m, now) ==
    [cached    |-> Retain(m.cached, now),
     seen      |-> Retain(m.seen, now),
     delivered |-> Retain(m.delivered, now),
     routes    |-> [e \in Events |-> IF m.routes[e].expires > now THEN m.routes[e] ELSE NoRoute]]

\* Waiting peers and want markers go with their own expiry or with the route.
UnexpiredPending(m, routes, now) ==
    [e \in Events |-> IF m.pending[e].expires > now /\ routes[e].expires > 0
                      THEN m.pending[e] ELSE NoPending]
UnexpiredWants(m, routes, now) ==
    [e \in Events |-> IF m.wantForwarded[e] > now /\ routes[e].expires > 0
                      THEN m.wantForwarded[e] ELSE 0]

\* Everything prune does to the maps once it is due.
Pruned(m, now) ==
    LET kept    == Unexpired(m, now)
        pending == UnexpiredPending(m, kept.routes, now)
    IN  [cached         |-> kept.cached,
         cacheOrder     |-> RetainOrder(m.cacheOrder, kept.cached),
         cachedBytes    |-> Bytes(Live(kept.cached)),
         seen           |-> kept.seen,
         seenOrder      |-> RetainOrder(m.seenOrder, kept.seen),
         delivered      |-> kept.delivered,
         deliveredOrder |-> RetainOrder(m.deliveredOrder, kept.delivered),
         routes         |-> kept.routes,
         pending        |-> pending,
         pendingCount   |-> PeerCount(pending, Events),
         wantForwarded  |-> UnexpiredWants(m, kept.routes, now),
         nextPrune      |-> IF Expiries(kept) = {} THEN 0 ELSE Min(Expiries(kept))]

Prune(m, now) == IF PruneDue(m, now) THEN Pruned(m, now) ELSE m

-----------------------------------------------------------------------------
(* The messages a mesh sends: InvWantWireMessage wrapped in InvWantAction::Send *)

InventoryTo(p, e, kind, bytes, hop) ==
    [to |-> p, type |-> "inventory", event |-> e, kind |-> kind, bytes |-> bytes, hop |-> hop]
WantTo(p, e)  == [to |-> p, type |-> "want", event |-> e]
FrameTo(p, e) == [to |-> p, type |-> "frame", event |-> e, body |-> e]

\* publish and replay announce the event with the full local hop budget.
AnnouncementTo(p, e, hop) == InventoryTo(p, e, KindOf[e], SizeOf[e], hop)

-----------------------------------------------------------------------------
(* Admission *)

Admissible(kind, bytes) == kind \in Opt.allowed_kinds /\ bytes <= Opt.max_event_bytes

\* validate_verified_event; validate_event also refuses a Forged body.
ValidEvent(e) == Admissible(KindOf[e], SizeOf[e])

\* receive_inventory, in the order of its early returns.  The first three
\* predicates look at a pruned mesh m.
InvalidInventory(inv) ==
    \/ inv.event = MalformedId
    \/ ~Admissible(inv.kind, inv.bytes)
    \/ inv.hop > Opt.max_hops

\* An inventory for an event the mesh is already asking for.
RepeatedInventory(m, inv, now) ==
    /\ ~InvalidInventory(inv) /\ inv.hop > 0 /\ m.cached[inv.event] = 0
    /\ ~IsNewInventory(m, inv.event, now)
    /\ inv.event \in Routed(m) /\ ~m.routes[inv.event].fulfilled

FirstInventory(m, inv, now) ==
    /\ ~InvalidInventory(inv) /\ inv.hop > 0 /\ m.cached[inv.event] = 0
    /\ IsNewInventory(m, inv.event, now)

SameAnnouncement(r, inv) == r.kind = inv.kind /\ r.bytes = inv.bytes

\* Room for p: it is a provider already, or the route takes another one.
MayProvide(r, p) == p \in Providers(r) \/ Cardinality(r.alternates) + 1 < MaxProviders

-----------------------------------------------------------------------------
(* State changes of the handlers, on a pruned mesh *)

\* The route's budget grows even when the new source is turned away.
RaiseHop(r, hop) == [r EXCEPT !.hop = AtLeast(hop, @)]

\* Mutant: asking again does not clear the disruption mark.
RepeatRouteStillDisrupted(m, p, inv, now) ==
    LET e == inv.event
        r == RaiseHop(m.routes[e], inv.hop)
        t == IF p \in Providers(r) THEN r.expires ELSE now + Opt.route_ttl_ms
    IN  [m EXCEPT !.routes[e] = [r EXCEPT !.alternates = @ \cup ({p} \ {r.peer}), !.expires = t],
                  !.seen[e] = t, !.wantForwarded[e] = t]

\* A known provider keeps the route's expiry, a new alternate extends it.
RepeatRoute(m, p, inv, now) ==
    LET e        == inv.event
        r        == RaiseHop(m.routes[e], inv.hop)
        extended == now + Opt.route_ttl_ms
    IN  IF p \in Providers(r)
        THEN [m EXCEPT !.routes[e] = [r EXCEPT !.disrupted = @ \ {p}]]
        ELSE [m EXCEPT !.routes[e] = [r EXCEPT !.alternates = @ \cup {p},
                                               !.expires = extended,
                                               !.disrupted = @ \ {p}],
                       !.seen[e] = extended,
                       !.wantForwarded[e] = extended]

OpenRoute(m, p, inv, now) ==
    LET e      == inv.event
        seen   == RememberInventory(m, e, now)
        expiry == now + Opt.route_ttl_ms
        opened == [peer |-> p, alternates |-> {}, disrupted |-> {}, kind |-> inv.kind,
                   bytes |-> inv.bytes, hop |-> inv.hop, expires |-> expiry, fulfilled |-> FALSE]
    IN  [seen EXCEPT !.routes[e] = IF @.expires > 0 THEN @ ELSE opened,
                     !.wantForwarded[e] = expiry]

\* receive_want for an event with a live, unanswered route.
JoinPending(m, p, e, now) ==
    LET entry == IF m.pending[e].expires > 0 THEN m.pending[e]
                 ELSE [peers |-> {}, expires |-> now + Opt.route_ttl_ms]
        room  == Cardinality(entry.peers) < Opt.max_pending_peers_per_event
        added == IF room THEN {p} \ entry.peers ELSE {}
    IN  [m EXCEPT !.pending[e] = [entry EXCEPT !.peers = @ \cup added],
                  !.pendingCount = @ + Cardinality(added)]

AlreadyForwarded(m, e, now) == m.wantForwarded[e] > now

ForwardWant(m, e) ==
    [m EXCEPT !.routes[e].disrupted = @ \ {m.routes[e].peer},
              !.wantForwarded[e] = m.routes[e].expires]

CloseRoute(m, e) ==
    [m EXCEPT !.routes[e].fulfilled = TRUE, !.routes[e].disrupted = {}]

\* receive_frame: the frame is admitted, whether or not it still matters.
FrameRequested(m, p, id) ==
    /\ id \in Routed(m) /\ m.wantForwarded[id] > 0
    /\ p \in Providers(m.routes[id])

ValidFrame(m, p, id, body) ==
    /\ id # MalformedId /\ FrameRequested(m, p, id)
    /\ body # Forged /\ ValidEvent(body)
    /\ body = id
    /\ m.routes[id].kind = KindOf[body] /\ m.routes[id].bytes = SizeOf[body]

AcceptFrame(m, e, now) ==
    LET stored == CloseRoute(StoreEvent(m, e, now), e)
        noted  == IF IsNewDelivery(stored, e) THEN RememberDelivered(stored, e, now) ELSE stored
    IN  RemovePending(noted, {e})

-----------------------------------------------------------------------------
(* Invariants of one mesh *)

\* A live route, its seen inventory and its forwarded-want marker expire at the
\* same instant.
CoherentRoutes(m) ==
    \A e \in Events :
        IF e \in Routed(m)
        THEN m.seen[e] = m.routes[e].expires /\ m.wantForwarded[e] = m.routes[e].expires
        ELSE m.wantForwarded[e] = 0

\* Somebody waits, and for an event that an open route still asks for.
OpenWaits(m) ==
    \A e \in Waiting(m) :
        e \in Routed(m) /\ ~m.routes[e].fulfilled /\ m.pending[e].peers # {}

\* next_prune_at_ms is no later than any expiry prune has to notice.
ScheduledPrune(m) ==
    \A e \in Events : \A x \in ExpiriesOf(m, e) : m.nextPrune # 0 /\ m.nextPrune <= x

\* No entry prune looks after has expired.
Fresh(m, now) ==
    \A e \in Events : \A x \in ExpiriesOf(m, e) : x > now
=============================================================================
