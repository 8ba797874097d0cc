------------------------- MODULE InvWantMeshProofs -------------------------
(***************************************************************************)
(* Proofs about InvWantMesh, for every set of events and peers, every      *)
(* choice of options and every input: the routes and the waiters first,    *)
(* then its books: the eviction queues, the running totals and the limits  *)
(* of the options, the delivery records, and the behaviour scores with the *)
(* debts they stand for.                                                   *)
(***************************************************************************)
EXTENDS InvWantMesh, FilterProofs

\* The maps of a mesh have their types; nothing is said of the eviction queues
\* and the running totals, which no invariant below depends on.
Maps(m) ==
    m \in [cached : [Events -> Nat], cacheOrder : {m.cacheOrder}, cachedBytes : {m.cachedBytes},
           seen : [Events -> Nat], seenOrder : {m.seenOrder},
           delivered : [Events -> Nat], deliveredOrder : {m.deliveredOrder},
           routes : [Events -> Route], pending : [Events -> Pending],
           pendingCount : {m.pendingCount},
           wantForwarded : [Events -> Nat], nextPrune : Nat]

\* No route outlives route_ttl_ms from now.
BoundedRoutes(m, t) ==
    \A e \in Events : m.routes[e].expires <= t + Opt.route_ttl_ms

\* What every call finds.  Closing a route breaks OpenWaits until its waiters
\* are removed, so the rest has a name of its own.
Core(m, t) ==
    Maps(m) /\ CoherentRoutes(m) /\ ScheduledPrune(m) /\ BoundedRoutes(m, t)
Good(m, t) == Core(m, t) /\ OpenWaits(m)

\* What holds once a call has pruned.
Ready(m, t) == Good(m, t) /\ Fresh(m, t)

-----------------------------------------------------------------------------
(* Options and arithmetic *)

\* InvWantMesh::new leaves every lifetime and every limit positive.
LEMMA OptionsNormalised ==
    /\ Opt.route_ttl_ms \in Nat /\ Opt.route_ttl_ms > 0
    /\ Opt.event_ttl_ms \in Nat /\ Opt.event_ttl_ms > 0
    /\ Opt.max_pending_peers_per_event \in Nat /\ Opt.max_pending_peers_per_event > 0
BY OptionsAssumption DEF Opt, OptionsType, AtLeast, AtMost

\* track_expiry moves the schedule to the new expiry or leaves it earlier.
LEMMA TrackExpiryEarliest ==
    ASSUME NEW next \in Nat, NEW t \in Nat, t > 0
    PROVE  /\ TrackExpiry(next, t) \in Nat
           /\ TrackExpiry(next, t) # 0
           /\ TrackExpiry(next, t) <= t
           /\ next # 0 => TrackExpiry(next, t) <= next
BY DEF TrackExpiry

\* Min of a non-empty set of naturals is its least element.
LEMMA MinOfNaturals ==
    ASSUME NEW S, S \subseteq Nat, S # {}
    PROVE  Min(S) \in S /\ \A x \in S : Min(S) <= x
<1>1. PICK n \in S : \A x \in S : ~(<<x, n>> \in OpToRel(<, Nat))
  BY NatLessThanWellFounded, WFMin, Zenon
<1>2. OpToRel(<, Nat) = {ss \in Nat \X Nat : ss[1] < ss[2]}
  BY Zenon DEF OpToRel
<1>3. \A x \in S : n <= x
  <2> SUFFICES ASSUME NEW x \in S, x < n PROVE FALSE
    OBVIOUS
  <2>1. <<x, n>> \in {ss \in Nat \X Nat : ss[1] < ss[2]}
    OBVIOUS
  <2> QED BY <1>1, <1>2, <2>1, Zenon
<1> QED
  BY <1>3 DEF Min

-----------------------------------------------------------------------------
(* prune *)

\* The scanned maps stay well typed, and what is left of them is unexpired.
LEMMA UnexpiredKept ==
    ASSUME NEW m, NEW t \in Nat, Maps(m), NEW kept, kept = Unexpired(m, t)
    PROVE  /\ kept.cached \in [Events -> Nat] /\ kept.seen \in [Events -> Nat]
           /\ kept.delivered \in [Events -> Nat] /\ kept.routes \in [Events -> Route]
           /\ Expiries(kept) \subseteq Nat
           /\ Fresh(kept, t)
<1>1. /\ kept.cached \in [Events -> Nat] /\ kept.seen \in [Events -> Nat]
      /\ kept.delivered \in [Events -> Nat] /\ kept.routes \in [Events -> Route]
  BY DEF Maps, Unexpired, Retain, Route, NoRoute
<1>2. Expiries(kept) \subseteq Nat
  BY <1>1 DEF Expiries, ExpiriesOf, Route
<1>3. ASSUME NEW e \in Events
      PROVE  /\ kept.cached[e] > 0 => kept.cached[e] > t
             /\ kept.seen[e] > 0 => kept.seen[e] > t
             /\ kept.delivered[e] > 0 => kept.delivered[e] > t
             /\ kept.routes[e].expires > 0 => kept.routes[e].expires > t
  BY DEF Maps, Unexpired, Retain, Route, NoRoute
<1>4. Fresh(kept, t)
  BY <1>1, <1>3 DEF Fresh, ExpiriesOf, Route
<1> QED
  BY <1>1, <1>2, <1>4

\* prune keeps the maps well typed and schedules itself for what is left.
LEMMA PrunedMaps ==
    ASSUME NEW m, NEW t \in Nat, Maps(m)
    PROVE  /\ Maps(Pruned(m, t))
           /\ ScheduledPrune(Pruned(m, t))
           /\ Fresh(Pruned(m, t), t)
<1> DEFINE kept == Unexpired(m, t)
           n    == IF Expiries(kept) = {} THEN 0 ELSE Min(Expiries(kept))
           p    == Pruned(m, t)
<1>1. /\ kept.cached \in [Events -> Nat] /\ kept.seen \in [Events -> Nat]
      /\ kept.delivered \in [Events -> Nat] /\ kept.routes \in [Events -> Route]
      /\ Expiries(kept) \subseteq Nat
      /\ Fresh(kept, t)
  BY UnexpiredKept
<1>2. n \in Nat /\ \A x \in Expiries(kept) : n <= x /\ n \in Expiries(kept)
  <2> HIDE DEF kept
  <2> QED BY <1>1, MinOfNaturals
<1>3. UnexpiredPending(m, kept.routes, t) \in [Events -> Pending]
  BY DEF Maps, UnexpiredPending, Pending, NoPending
<1>4. UnexpiredWants(m, kept.routes, t) \in [Events -> Nat]
  BY DEF Maps, UnexpiredWants
<1>5. /\ p.cached = kept.cached /\ p.seen = kept.seen /\ p.delivered = kept.delivered
      /\ p.routes = kept.routes /\ p.nextPrune = n
  BY DEF Pruned
<1>6. Maps(p)
  BY <1>1, <1>2, <1>3, <1>4 DEF Pruned, Maps
<1>7. \A e \in Events : ExpiriesOf(p, e) = ExpiriesOf(kept, e)
  BY <1>5 DEF ExpiriesOf
<1>8. ScheduledPrune(p)
  <2> SUFFICES ASSUME NEW e \in Events, NEW x \in ExpiriesOf(p, e)
               PROVE  p.nextPrune # 0 /\ p.nextPrune <= x
    BY DEF ScheduledPrune
  <2>1. x \in Expiries(kept)
    BY <1>7 DEF Expiries
  <2>2. 0 \notin Expiries(kept)
    BY DEF Expiries, ExpiriesOf
  <2> QED BY <1>2, <1>5, <2>1, <2>2
<1>9. Fresh(p, t)
  BY <1>1, <1>7 DEF Fresh
<1> QED
  BY <1>6, <1>8, <1>9

\* prune re-establishes everything a handler relies on, whenever it runs: a
\* skipped prune has nothing to drop.
LEMMA PruneReady ==
    ASSUME NEW m, NEW t \in Nat, Good(m, t)
    PROVE  Ready(Prune(m, t), t)
<1> DEFINE p == Pruned(m, t)
<1>1. CASE ~PruneDue(m, t)
  <2>1. Prune(m, t) = m
    BY <1>1 DEF Prune
  <2>2. Fresh(m, t)
    <3> SUFFICES ASSUME NEW e \in Events, NEW x \in ExpiriesOf(m, e)
                 PROVE  x > t
      BY DEF Fresh
    <3>1. x \in Nat /\ m.nextPrune \in Nat
      BY DEF Good, Core, Maps, ExpiriesOf, Route
    <3> QED BY <1>1, <3>1 DEF Good, Core, ScheduledPrune, PruneDue
  <2> QED BY <2>1, <2>2 DEF Ready
<1>2. CASE PruneDue(m, t)
  <2>1. Prune(m, t) = p
    BY <1>2 DEF Prune
  <2>2. Maps(p) /\ ScheduledPrune(p) /\ Fresh(p, t)
    BY PrunedMaps DEF Good, Core
  <2>3. ASSUME NEW e \in Events
        PROVE  /\ p.routes[e] = IF m.routes[e].expires > t THEN m.routes[e] ELSE NoRoute
               /\ p.seen[e] = IF m.seen[e] > t THEN m.seen[e] ELSE 0
               /\ p.wantForwarded[e] = IF m.wantForwarded[e] > t /\ p.routes[e].expires > 0
                                       THEN m.wantForwarded[e] ELSE 0
               /\ p.pending[e] = IF m.pending[e].expires > t /\ p.routes[e].expires > 0
                                 THEN m.pending[e] ELSE NoPending
    BY DEF Pruned, Unexpired, UnexpiredPending, UnexpiredWants, Retain
  <2>4. \A e \in Events : /\ m.routes[e].expires \in Nat /\ m.seen[e] \in Nat
                          /\ m.wantForwarded[e] \in Nat /\ m.pending[e].expires \in Nat
    BY DEF Good, Core, Maps, Route, Pending
  <2>5. \A e \in Events : p.routes[e].expires > 0 => p.routes[e] = m.routes[e]
    BY <2>3 DEF NoRoute
  <2>6. CoherentRoutes(p)
    BY <2>3, <2>4 DEF Good, Core, CoherentRoutes, Routed, NoRoute
  <2>7. OpenWaits(p)
    <3> SUFFICES ASSUME NEW e \in Waiting(p)
                 PROVE  e \in Routed(p) /\ ~p.routes[e].fulfilled /\ p.pending[e].peers # {}
      BY DEF OpenWaits
    <3>1. e \in Events /\ p.pending[e].expires > 0
      BY DEF Waiting
    <3>2. p.pending[e] = m.pending[e] /\ p.routes[e].expires > 0
      BY <2>3, <3>1 DEF NoPending
    <3> QED BY <2>5, <3>1, <3>2 DEF Good, Core, OpenWaits, Waiting, Routed
  <2>8. BoundedRoutes(p, t)
    BY <2>3, <2>4, OptionsNormalised DEF Good, Core, BoundedRoutes, NoRoute
  <2> QED BY <2>1, <2>2, <2>6, <2>7, <2>8 DEF Ready, Good, Core
<1> QED
  BY <1>1, <1>2

\* Time passing invalidates nothing: routes only come closer to their expiry.
LEMMA TickGood ==
    ASSUME NEW m, NEW t \in Nat, Good(m, t)
    PROVE  Good(m, t + 1)
<1>1. \A e \in Events : m.routes[e].expires \in Nat
  BY DEF Good, Core, Maps, Route
<1> QED
  BY <1>1, OptionsNormalised DEF Good, Core, BoundedRoutes

-----------------------------------------------------------------------------
(* The state changes of the handlers *)

\* Adding one expiry and telling track_expiry keeps the schedule right.
LEMMA ScheduleTracks ==
    ASSUME NEW m, NEW n, NEW t \in Nat, NEW expiry \in Nat, expiry > t,
           Maps(m), ScheduledPrune(m), Fresh(m, t),
           n.nextPrune = TrackExpiry(m.nextPrune, expiry),
           \A x \in Events : ExpiriesOf(n, x) \subseteq ExpiriesOf(m, x) \cup {expiry}
    PROVE  n.nextPrune \in Nat /\ ScheduledPrune(n) /\ Fresh(n, t)
<1>1. /\ n.nextPrune \in Nat /\ n.nextPrune # 0 /\ n.nextPrune <= expiry
      /\ m.nextPrune # 0 => n.nextPrune <= m.nextPrune
  BY TrackExpiryEarliest DEF Maps
<1>2. \A x \in Events : ExpiriesOf(m, x) \subseteq Nat
  BY DEF Maps, ExpiriesOf, Route
<1> QED
  BY <1>1, <1>2 DEF Maps, ScheduledPrune, Fresh

\* store_event only touches the cache and the schedule.
LEMMA StoreReady ==
    ASSUME NEW m, NEW t \in Nat, NEW e \in Events, Ready(m, t)
    PROVE  /\ Ready(StoreEvent(m, e, t), t)
           /\ StoreEvent(m, e, t).routes = m.routes
           /\ StoreEvent(m, e, t).seen = m.seen
<1> DEFINE n      == StoreEvent(m, e, t)
           expiry == t + Opt.event_ttl_ms
<1>1. expiry \in Nat /\ expiry > t
  BY OptionsNormalised
<1>2. PICK gone : n.cached = [Without(m.cached, gone) EXCEPT ![e] = expiry]
  BY DEF Ready, Good, Core, Maps, StoreEvent
<1>3. /\ n.seen = m.seen /\ n.delivered = m.delivered /\ n.routes = m.routes
      /\ n.pending = m.pending /\ n.wantForwarded = m.wantForwarded
      /\ n.nextPrune = TrackExpiry(m.nextPrune, expiry)
  BY DEF Ready, Good, Core, Maps, StoreEvent
<1>4. n.cached \in [Events -> Nat] /\ \A x \in Events : n.cached[x] \in {0, m.cached[x], expiry}
  BY <1>1, <1>2 DEF Ready, Good, Core, Maps, Without
<1>5. \A x \in Events : ExpiriesOf(n, x) \subseteq ExpiriesOf(m, x) \cup {expiry}
  BY <1>3, <1>4 DEF ExpiriesOf
<1>6. n.nextPrune \in Nat /\ ScheduledPrune(n) /\ Fresh(n, t)
  BY <1>1, <1>3, <1>5, ScheduleTracks DEF Ready, Good, Core
<1>7. Maps(n)
  BY <1>3, <1>4, <1>6 DEF Ready, Good, Core, Maps, StoreEvent
<1>8. CoherentRoutes(n) /\ OpenWaits(n) /\ BoundedRoutes(n, t)
  BY <1>3 DEF Ready, Good, Core, CoherentRoutes, OpenWaits, BoundedRoutes, Routed, Waiting
<1> QED
  BY <1>3, <1>6, <1>7, <1>8 DEF Ready, Good, Core

\* remember_delivered only touches the delivery records and the schedule.
LEMMA DeliveredCore ==
    ASSUME NEW m, NEW t \in Nat, NEW e \in Events, Core(m, t), Fresh(m, t)
    PROVE  /\ Core(RememberDelivered(m, e, t), t)
           /\ Fresh(RememberDelivered(m, e, t), t)
           /\ RememberDelivered(m, e, t).routes = m.routes
           /\ RememberDelivered(m, e, t).pending = m.pending
<1> DEFINE n      == RememberDelivered(m, e, t)
           expiry == t + Opt.event_ttl_ms
<1>1. expiry \in Nat /\ expiry > t
  BY OptionsNormalised
<1>2. PICK gone : n.delivered = [Without(m.delivered, gone) EXCEPT ![e] = expiry]
  BY DEF Core, Maps, RememberDelivered
<1>3. /\ n.seen = m.seen /\ n.cached = m.cached /\ n.routes = m.routes
      /\ n.pending = m.pending /\ n.wantForwarded = m.wantForwarded
      /\ n.nextPrune = TrackExpiry(m.nextPrune, expiry)
  BY DEF Core, Maps, RememberDelivered
<1>4. n.delivered \in [Events -> Nat] /\ \A x \in Events : n.delivered[x] \in {0, m.delivered[x], expiry}
  BY <1>1, <1>2 DEF Core, Maps, Without
<1>5. \A x \in Events : ExpiriesOf(n, x) \subseteq ExpiriesOf(m, x) \cup {expiry}
  BY <1>3, <1>4 DEF ExpiriesOf
<1>6. n.nextPrune \in Nat /\ ScheduledPrune(n) /\ Fresh(n, t)
  BY <1>1, <1>3, <1>5, ScheduleTracks DEF Core
<1>7. Maps(n)
  BY <1>3, <1>4, <1>6 DEF Core, Maps, RememberDelivered
<1>8. CoherentRoutes(n) /\ BoundedRoutes(n, t)
  BY <1>3 DEF Core, CoherentRoutes, BoundedRoutes, Routed
<1> QED
  BY <1>3, <1>6, <1>7, <1>8 DEF Core

\* remove_pending_event touches nothing but the waiters.
LEMMA RemovePendingFields ==
    ASSUME NEW m, NEW S, Maps(m)
    PROVE  LET n == RemovePending(m, S) IN
           /\ Maps(n)
           /\ n.cached = m.cached /\ n.seen = m.seen /\ n.delivered = m.delivered
           /\ n.routes = m.routes /\ n.wantForwarded = m.wantForwarded
           /\ n.nextPrune = m.nextPrune
           /\ \A e \in Events : n.pending[e] = IF e \in S THEN NoPending ELSE m.pending[e]
<1>1. NoPending \in Pending
  BY DEF NoPending, Pending
<1> QED
  BY <1>1 DEF Maps, RemovePending

\* Closing a route and forgetting its waiters together keeps everything.
LEMMA CloseGood ==
    ASSUME NEW m, NEW t \in Nat, NEW e \in Events, Good(m, t)
    PROVE  LET c == CloseRoute(m, e) IN
           /\ Core(c, t)
           /\ \A x \in Events : ExpiriesOf(c, x) = ExpiriesOf(m, x)
           /\ c.pending = m.pending
           /\ \A x \in Events \ {e} : c.routes[x] = m.routes[x]
<1> DEFINE c == CloseRoute(m, e)
           r == [m.routes[e] EXCEPT !.fulfilled = TRUE, !.disrupted = {}]
<1>1. r \in Route /\ r.expires = m.routes[e].expires
  BY DEF Good, Core, Maps, Route
<1>2. c.routes = [m.routes EXCEPT ![e] = r]
  BY DEF CloseRoute, Good, Core, Maps, Route
<1>3. /\ c.cached = m.cached /\ c.seen = m.seen /\ c.delivered = m.delivered
      /\ c.pending = m.pending /\ c.wantForwarded = m.wantForwarded
      /\ c.nextPrune = m.nextPrune
  BY DEF CloseRoute, Good, Core, Maps
<1>4. Maps(c)
  BY <1>1, <1>2, <1>3 DEF CloseRoute, Good, Core, Maps
<1>5. \A x \in Events : c.routes[x].expires = m.routes[x].expires
  BY <1>1, <1>2 DEF Good, Core, Maps
<1>6. \A x \in Events : ExpiriesOf(c, x) = ExpiriesOf(m, x)
  BY <1>3, <1>5 DEF ExpiriesOf
<1>7. CoherentRoutes(c) /\ ScheduledPrune(c) /\ BoundedRoutes(c, t)
  BY <1>3, <1>5, <1>6 DEF Good, Core, CoherentRoutes, ScheduledPrune, BoundedRoutes, Routed
<1>8. \A x \in Events \ {e} : c.routes[x] = m.routes[x]
  BY <1>2 DEF Good, Core, Maps
<1> QED
  BY <1>3, <1>4, <1>6, <1>7, <1>8 DEF Core

\* Removing the waiters of S repairs OpenWaits wherever only S broke it.
LEMMA RemovePendingGood ==
    ASSUME NEW m, NEW t \in Nat, NEW S, Core(m, t),
           \A x \in Waiting(m) : x \in S \/
               (x \in Routed(m) /\ ~m.routes[x].fulfilled /\ m.pending[x].peers # {})
    PROVE  /\ Good(RemovePending(m, S), t)
           /\ Fresh(m, t) => Fresh(RemovePending(m, S), t)
<1> DEFINE n == RemovePending(m, S)
<1>1. /\ Maps(n)
      /\ n.cached = m.cached /\ n.seen = m.seen /\ n.delivered = m.delivered
      /\ n.routes = m.routes /\ n.wantForwarded = m.wantForwarded
      /\ n.nextPrune = m.nextPrune
      /\ \A e \in Events : n.pending[e] = IF e \in S THEN NoPending ELSE m.pending[e]
  BY RemovePendingFields DEF Core
<1> HIDE DEF n
<1>2. \A x \in Events : ExpiriesOf(n, x) = ExpiriesOf(m, x)
  BY <1>1 DEF ExpiriesOf
<1>3. Core(n, t)
  BY <1>1, <1>2 DEF Core, CoherentRoutes, ScheduledPrune, BoundedRoutes, Routed
<1>4. OpenWaits(n)
  BY <1>1 DEF OpenWaits, Waiting, Routed, NoPending
<1>5. Fresh(m, t) => Fresh(n, t)
  BY <1>2 DEF Fresh
<1> QED
  BY <1>3, <1>4, <1>5 DEF Good, n

\* dismiss_frame.
LEMMA DismissGood ==
    ASSUME NEW m, NEW t \in Nat, NEW e \in Events, Good(m, t)
    PROVE  Good(RemovePending(CloseRoute(m, e), {e}), t)
<1> DEFINE c == CloseRoute(m, e)
<1>1. /\ Core(c, t)
      /\ \A x \in Events : ExpiriesOf(c, x) = ExpiriesOf(m, x)
      /\ c.pending = m.pending
      /\ \A x \in Events \ {e} : c.routes[x] = m.routes[x]
  BY CloseGood
<1> HIDE DEF c
<1>2. \A x \in Waiting(c) : x \in {e} \/
          (x \in Routed(c) /\ ~c.routes[x].fulfilled /\ c.pending[x].peers # {})
  BY <1>1 DEF Good, OpenWaits, Waiting, Routed
<1>3. Good(RemovePending(c, {e}), t)
  BY <1>1, <1>2, RemovePendingGood
<1> QED
  BY <1>3 DEF c

\* receive_frame, when it accepts.
LEMMA AcceptReady ==
    ASSUME NEW m, NEW t \in Nat, NEW e \in Events, Ready(m, t)
    PROVE  Good(AcceptFrame(m, e, t), t)
<1> DEFINE s == StoreEvent(m, e, t)
           c == CloseRoute(s, e)
           d == RememberDelivered(c, e, t)
           n == IF IsNewDelivery(c, e) THEN d ELSE c
<1>1. Ready(s, t)
  BY StoreReady
<1>2. /\ Core(c, t)
      /\ \A x \in Events : ExpiriesOf(c, x) = ExpiriesOf(s, x)
      /\ c.pending = s.pending
      /\ \A x \in Events \ {e} : c.routes[x] = s.routes[x]
  <2> HIDE DEF s
  <2> QED BY <1>1, CloseGood DEF Ready
<1>3. Fresh(c, t)
  BY <1>1, <1>2 DEF Ready, Fresh
<1>4. Core(d, t) /\ d.routes = c.routes /\ d.pending = c.pending
  <2> HIDE DEF c
  <2> QED BY <1>2, <1>3, DeliveredCore
<1>5. Core(n, t) /\ n.routes = c.routes /\ n.pending = c.pending
  BY <1>2, <1>4
<1>6. \A x \in Waiting(n) : x \in {e} \/
          (x \in Routed(n) /\ ~n.routes[x].fulfilled /\ n.pending[x].peers # {})
  <2> HIDE DEF n, c, s
  <2> QED BY <1>1, <1>2, <1>5 DEF Ready, Good, OpenWaits, Waiting, Routed
<1>7. Good(RemovePending(n, {e}), t)
  <2> HIDE DEF n
  <2> QED BY <1>5, <1>6, RemovePendingGood
<1> QED
  BY <1>7 DEF AcceptFrame

\* remember_inventory of a new event: whatever it evicts goes as a whole, and
\* the event has no route yet.
LEMMA RememberReady ==
    ASSUME NEW m, NEW t \in Nat, NEW e \in Events, Ready(m, t), IsNewInventory(m, e, t)
    PROVE  LET n == RememberInventory(m, e, t) IN
           /\ Ready(n, t)
           /\ n.seen[e] = t + Opt.route_ttl_ms
           /\ n.routes[e].expires = 0
<1> DEFINE n      == RememberInventory(m, e, t)
           expiry == t + Opt.route_ttl_ms
<1>1. expiry \in Nat /\ expiry > t
  BY OptionsNormalised
<1>2. m.seen[e] = 0 /\ m.routes[e].expires = 0
  BY DEF Ready, Good, Core, Maps, Fresh, ExpiriesOf, IsNewInventory, CoherentRoutes, Routed, Route
<1>3. PICK gone :
         /\ n.seen = [Without(m.seen, gone) EXCEPT ![e] = expiry]
         /\ n.routes = [x \in Events |-> IF x \in gone THEN NoRoute ELSE m.routes[x]]
         /\ n.wantForwarded = Without(m.wantForwarded, gone)
         /\ n.pending = RemovePending(m, gone).pending
         /\ n.cached = m.cached /\ n.delivered = m.delivered
         /\ n.nextPrune = TrackExpiry(m.nextPrune, expiry)
         /\ \A x \in Events : n.pending[x] = IF x \in gone THEN NoPending ELSE m.pending[x]
         /\ n.pending \in [Events -> Pending]
  <2> DEFINE k == IF m.seen[e] > 0 THEN 0
                  ELSE EvictionCount(m.seenOrder, Live(m.seen), Opt.max_seen_events)
             g == Prefix(m.seenOrder, k)
             q == RemovePending(m, g)
  <2>1. /\ Maps(q)
        /\ q.cached = m.cached /\ q.delivered = m.delivered
        /\ \A x \in Events : q.pending[x] = IF x \in g THEN NoPending ELSE m.pending[x]
    BY RemovePendingFields DEF Ready, Good, Core
  <2>2. n = [q EXCEPT
            !.seen = [Without(m.seen, g) EXCEPT ![e] = expiry],
            !.seenOrder = IF m.seen[e] > 0 THEN m.seenOrder ELSE Append(DropPrefix(m.seenOrder, k), e),
            !.routes = [x \in Events |-> IF x \in g THEN NoRoute ELSE m.routes[x]],
            !.wantForwarded = Without(m.wantForwarded, g),
            !.nextPrune = TrackExpiry(m.nextPrune, expiry)]
    BY DEF RememberInventory
  <2> HIDE DEF n, q, g, k
  <2>3. /\ n.seen = [Without(m.seen, g) EXCEPT ![e] = expiry]
        /\ n.routes = [x \in Events |-> IF x \in g THEN NoRoute ELSE m.routes[x]]
        /\ n.wantForwarded = Without(m.wantForwarded, g)
        /\ n.nextPrune = TrackExpiry(m.nextPrune, expiry)
        /\ n.pending = q.pending /\ n.cached = q.cached /\ n.delivered = q.delivered
    BY <2>1, <2>2 DEF Maps
  <2>4. q.pending \in [Events -> Pending]
    BY <2>1 DEF Maps
  <2> QED BY <2>1, <2>3, <2>4 DEF q
<1>4. Maps(n)
  <2>1. n.seen \in [Events -> Nat] /\ n.routes \in [Events -> Route] /\ n.wantForwarded \in [Events -> Nat]
    BY <1>1, <1>3 DEF Ready, Good, Core, Maps, Without, NoRoute, Route
  <2>2. n.nextPrune \in Nat
    BY <1>1, <1>3, TrackExpiryEarliest DEF Ready, Good, Core, Maps
  <2> QED
    BY <1>3, <2>1, <2>2 DEF RememberInventory, RemovePending, Ready, Good, Core, Maps
<1>5. \A x \in Events :
         /\ n.seen[x] = IF x = e THEN expiry ELSE IF x \in gone THEN 0 ELSE m.seen[x]
         /\ n.routes[x] = IF x \in gone THEN NoRoute ELSE m.routes[x]
         /\ n.wantForwarded[x] = IF x \in gone THEN 0 ELSE m.wantForwarded[x]
  BY <1>3 DEF Without
<1> HIDE DEF n
<1>6. \A x \in Events : ExpiriesOf(n, x) \subseteq ExpiriesOf(m, x) \cup {expiry}
  BY <1>3, <1>5 DEF ExpiriesOf, NoRoute
<1>7. ScheduledPrune(n) /\ Fresh(n, t)
  BY <1>1, <1>3, <1>6, ScheduleTracks DEF Ready, Good, Core
<1>8. CoherentRoutes(n)
  BY <1>2, <1>5 DEF Ready, Good, Core, CoherentRoutes, Routed, NoRoute
<1>9. OpenWaits(n)
  BY <1>3, <1>5 DEF Ready, Good, OpenWaits, Waiting, Routed, NoPending
<1>10. BoundedRoutes(n, t)
  BY <1>1, <1>5 DEF Ready, Good, Core, BoundedRoutes, NoRoute
<1>11. n.seen[e] = expiry /\ n.routes[e].expires = 0
  BY <1>2, <1>5 DEF NoRoute
<1> QED
  BY <1>4, <1>7, <1>8, <1>9, <1>10, <1>11 DEF Ready, Good, Core, n

\* receive_inventory of a new event opens a route that expires with its
\* inventory.
LEMMA OpenRouteGood ==
    ASSUME NEW m, NEW t \in Nat, NEW p \in Peers, NEW inv \in Announcements,
           inv.event \in Events, Ready(m, t), IsNewInventory(m, inv.event, t)
    PROVE  Good(OpenRoute(m, p, inv, t), t)
<1> DEFINE e      == inv.event
           s      == RememberInventory(m, e, t)
           expiry == t + Opt.route_ttl_ms
           opened == [peer |-> p, alternates |-> {}, disrupted |-> {}, kind |-> inv.kind,
                      bytes |-> inv.bytes, hop |-> inv.hop, expires |-> expiry,
                      fulfilled |-> FALSE]
           n      == [s EXCEPT !.routes[e] = opened, !.wantForwarded[e] = expiry]
<1>1. expiry \in Nat /\ expiry > t
  BY OptionsNormalised
<1>2. Ready(s, t) /\ s.seen[e] = expiry /\ s.routes[e].expires = 0
  BY RememberReady
<1>3. opened \in Route
  BY <1>1, InputsAssumption DEF Route
<1> HIDE DEF s, opened
<1>4. OpenRoute(m, p, inv, t) = n
  <2>1. (IF s.routes[e].expires > 0 THEN s.routes[e] ELSE opened) = opened
    BY <1>2
  <2> QED BY <2>1 DEF OpenRoute, s, opened
<1>5. /\ n.routes = [s.routes EXCEPT ![e] = opened]
      /\ n.wantForwarded = [s.wantForwarded EXCEPT ![e] = expiry]
      /\ n.cached = s.cached /\ n.seen = s.seen /\ n.delivered = s.delivered
      /\ n.pending = s.pending /\ n.nextPrune = s.nextPrune
  BY <1>2 DEF Ready, Good, Core, Maps
<1>6. Maps(n)
  BY <1>1, <1>2, <1>3, <1>5 DEF Ready, Good, Core, Maps
<1>7. \A x \in Events : /\ n.routes[x] = IF x = e THEN opened ELSE s.routes[x]
                        /\ n.wantForwarded[x] = IF x = e THEN expiry ELSE s.wantForwarded[x]
  BY <1>2, <1>5 DEF Ready, Good, Core, Maps
<1> HIDE DEF n
<1>8. opened.expires = expiry /\ ~opened.fulfilled
  BY DEF opened
<1>9. CoherentRoutes(n)
  BY <1>1, <1>2, <1>5, <1>7, <1>8 DEF Ready, Good, Core, CoherentRoutes, Routed
<1>10. OpenWaits(n)
  BY <1>1, <1>2, <1>5, <1>7, <1>8 DEF Ready, Good, OpenWaits, Waiting, Routed
<1>11. ScheduledPrune(n)
  <2>1. expiry \in ExpiriesOf(s, e)
    BY <1>1, <1>2 DEF ExpiriesOf
  <2>2. \A x \in Events : ExpiriesOf(n, x) \subseteq ExpiriesOf(s, x)
    BY <1>5, <1>7, <1>8, <2>1 DEF ExpiriesOf
  <2> QED BY <1>2, <1>5, <2>2 DEF Ready, Good, Core, ScheduledPrune
<1>12. BoundedRoutes(n, t)
  BY <1>1, <1>2, <1>7, <1>8 DEF Ready, Good, Core, BoundedRoutes
<1> QED
  BY <1>4, <1>6, <1>9, <1>10, <1>11, <1>12 DEF Good, Core

\* Replacing an open route by one with the same expiry keeps everything.
LEMMA SameExpiryGood ==
    ASSUME NEW m, NEW t \in Nat, NEW e \in Events, Good(m, t), NEW r \in Route,
           r.expires = m.routes[e].expires, r.fulfilled = m.routes[e].fulfilled
    PROVE  Good([m EXCEPT !.routes[e] = r], t)
<1> DEFINE n == [m EXCEPT !.routes[e] = r]
<1>1. /\ n.routes = [m.routes EXCEPT ![e] = r]
      /\ n.cached = m.cached /\ n.seen = m.seen /\ n.delivered = m.delivered
      /\ n.pending = m.pending /\ n.nextPrune = m.nextPrune
      /\ n.wantForwarded = m.wantForwarded
  BY DEF Good, Core, Maps
<1>2. Maps(n)
  BY <1>1 DEF Good, Core, Maps
<1>3. \A x \in Events : /\ n.routes[x].expires = m.routes[x].expires
                        /\ n.routes[x].fulfilled = m.routes[x].fulfilled
  BY <1>1 DEF Good, Core, Maps
<1> HIDE DEF n
<1>4. \A x \in Events : ExpiriesOf(n, x) = ExpiriesOf(m, x)
  BY <1>1, <1>3 DEF ExpiriesOf
<1>5. /\ CoherentRoutes(n) /\ ScheduledPrune(n) /\ BoundedRoutes(n, t)
      /\ OpenWaits(n)
  BY <1>1, <1>3, <1>4
     DEF Good, Core, CoherentRoutes, ScheduledPrune, BoundedRoutes, OpenWaits, Routed, Waiting
<1> QED
  BY <1>2, <1>5 DEF Good, Core, n

\* A larger hop budget changes nothing else of a route.
LEMMA RaiseHopRoute ==
    ASSUME NEW r \in Route, NEW hop \in Nat
    PROVE  /\ RaiseHop(r, hop) \in Route
           /\ RaiseHop(r, hop).expires = r.expires
           /\ RaiseHop(r, hop).fulfilled = r.fulfilled
<1>1. AtLeast(hop, r.hop) \in Nat
  BY DEF Route, AtLeast
<1> QED
  BY <1>1 DEF RaiseHop, Route

\* A repeated inventory: a new alternate moves the three expiries together, and
\* only ever later, so the schedule stays early enough.
LEMMA RepeatRouteGood ==
    ASSUME NEW m, NEW t \in Nat, NEW p \in Peers, NEW inv \in Announcements,
           inv.event \in Events, Good(m, t), inv.event \in Routed(m)
    PROVE  Good(RepeatRoute(m, p, inv, t), t)
<1> DEFINE e        == inv.event
           r        == RaiseHop(m.routes[e], inv.hop)
           extended == t + Opt.route_ttl_ms
           known    == [r EXCEPT !.disrupted = r.disrupted \ {p}]
           joined   == [r EXCEPT !.alternates = r.alternates \cup {p}, !.expires = extended,
                                 !.disrupted = r.disrupted \ {p}]
           n        == [m EXCEPT !.routes[e] = joined, !.seen[e] = extended,
                                 !.wantForwarded[e] = extended]
<1>1. extended \in Nat /\ extended > t
  BY OptionsNormalised
<1>2. /\ r \in Route
      /\ r.expires = m.routes[e].expires /\ r.fulfilled = m.routes[e].fulfilled
  <2>1. m.routes[e] \in Route /\ inv.hop \in Nat
    BY InputsAssumption DEF Good, Core, Maps
  <2> QED BY <2>1, RaiseHopRoute
<1> HIDE DEF r
<1>3. /\ known \in Route /\ known.expires = m.routes[e].expires
      /\ known.fulfilled = m.routes[e].fulfilled
      /\ joined \in Route /\ joined.expires = extended /\ joined.fulfilled = r.fulfilled
  BY <1>1, <1>2 DEF Route
<1>4. CASE p \in Providers(r)
  <2>1. Good([m EXCEPT !.routes[e] = known], t)
    <3> HIDE DEF known
    <3> QED BY <1>3, SameExpiryGood
  <2>2. RepeatRoute(m, p, inv, t) = [m EXCEPT !.routes[e] = known]
    BY <1>4 DEF RepeatRoute, r
  <2> QED BY <2>1, <2>2
<1>5. CASE p \notin Providers(r)
  <2>1. RepeatRoute(m, p, inv, t) = n
    BY <1>5 DEF RepeatRoute, r
  <2> HIDE DEF joined
  <2>2. /\ n.routes = [m.routes EXCEPT ![e] = joined]
        /\ n.seen = [m.seen EXCEPT ![e] = extended]
        /\ n.wantForwarded = [m.wantForwarded EXCEPT ![e] = extended]
        /\ n.cached = m.cached /\ n.delivered = m.delivered
        /\ n.pending = m.pending /\ n.nextPrune = m.nextPrune
    BY DEF Good, Core, Maps
  <2>3. Maps(n)
    BY <1>1, <1>3, <2>2 DEF Good, Core, Maps
  <2>4. \A x \in Events :
           /\ n.routes[x] = IF x = e THEN joined ELSE m.routes[x]
           /\ n.seen[x] = IF x = e THEN extended ELSE m.seen[x]
           /\ n.wantForwarded[x] = IF x = e THEN extended ELSE m.wantForwarded[x]
    BY <2>2 DEF Good, Core, Maps
  <2> HIDE DEF n
  <2>5. CoherentRoutes(n)
    BY <1>1, <1>3, <2>4 DEF Good, Core, CoherentRoutes, Routed
  <2>6. OpenWaits(n)
    BY <1>1, <1>2, <1>3, <2>2, <2>4 DEF Good, OpenWaits, Waiting, Routed
  <2>7. m.nextPrune # 0 /\ m.nextPrune <= extended
    <3>1. m.routes[e].expires \in ExpiriesOf(m, e) /\ m.routes[e].expires <= extended
      BY DEF Good, Core, Maps, Route, ExpiriesOf, Routed, BoundedRoutes
    <3>2. m.nextPrune # 0 /\ m.nextPrune <= m.routes[e].expires
      BY <3>1 DEF Good, Core, ScheduledPrune
    <3> QED BY <1>1, <3>1, <3>2 DEF Good, Core, Maps, Route
  <2>8. ScheduledPrune(n)
    <3>1. \A x \in Events : ExpiriesOf(n, x) \subseteq ExpiriesOf(m, x) \cup {extended}
      BY <1>3, <2>2, <2>4 DEF ExpiriesOf
    <3> QED BY <2>2, <2>7, <3>1 DEF Good, Core, ScheduledPrune
  <2>9. BoundedRoutes(n, t)
    BY <1>1, <1>3, <2>4 DEF Good, Core, BoundedRoutes
  <2> QED BY <2>1, <2>3, <2>5, <2>6, <2>8, <2>9 DEF Good, Core
<1> QED
  BY <1>4, <1>5

\* receive_want with a live route: a peer waits; it always finds room for the
\* first one.
LEMMA JoinPendingGood ==
    ASSUME NEW m, NEW t \in Nat, NEW p \in Peers, NEW e \in Events, Good(m, t),
           e \in Routed(m), ~m.routes[e].fulfilled
    PROVE  Good(JoinPending(m, p, e, t), t)
<1> DEFINE n     == JoinPending(m, p, e, t)
           entry == IF m.pending[e].expires > 0 THEN m.pending[e]
                    ELSE [peers |-> {}, expires |-> t + Opt.route_ttl_ms]
           added == IF Cardinality(entry.peers) < Opt.max_pending_peers_per_event
                    THEN {p} \ entry.peers ELSE {}
           new   == [entry EXCEPT !.peers = entry.peers \cup added]
<1>1. entry \in Pending /\ entry.expires > 0
  BY OptionsNormalised DEF Good, Core, Maps, Pending
<1>2. new \in Pending
  BY <1>1 DEF Pending
<1>3. new.peers # {}
  <2>1. CASE entry.peers = {}
    <3>1. Cardinality({}) = 0
      BY FS_EmptySet
    <3>2. added = {p}
      BY <2>1, <3>1, OptionsNormalised
    <3> HIDE DEF entry, added
    <3> QED BY <1>1, <3>2 DEF Pending
  <2>2. CASE entry.peers # {}
    BY <1>1, <2>2 DEF Pending
  <2> QED BY <2>1, <2>2
<1>4. /\ n.pending = [m.pending EXCEPT ![e] = new]
      /\ n.routes = m.routes /\ n.cached = m.cached /\ n.seen = m.seen
      /\ n.delivered = m.delivered /\ n.nextPrune = m.nextPrune
      /\ n.wantForwarded = m.wantForwarded
  BY DEF Good, Core, Maps, JoinPending
<1>5. Maps(n)
  BY <1>2, <1>4 DEF Good, Core, Maps, JoinPending
<1> HIDE DEF n, new
<1>6. \A x \in Events : n.pending[x] = IF x = e THEN new ELSE m.pending[x]
  BY <1>4 DEF Good, Core, Maps
<1>7. \A x \in Events : ExpiriesOf(n, x) = ExpiriesOf(m, x)
  BY <1>4 DEF ExpiriesOf
<1>8. CoherentRoutes(n) /\ ScheduledPrune(n) /\ BoundedRoutes(n, t)
  BY <1>4, <1>7 DEF Good, Core, CoherentRoutes, ScheduledPrune, BoundedRoutes, Routed
<1>9. OpenWaits(n)
  BY <1>3, <1>4, <1>6 DEF Good, OpenWaits, Waiting, Routed
<1> QED
  BY <1>5, <1>8, <1>9 DEF Good, Core, n

\* receive_want's forwarding branch is never taken: a live, unexpired route
\* always has its want marker.
LEMMA WantAlreadyForwarded ==
    ASSUME NEW m, NEW t \in Nat, NEW p \in Peers, NEW e \in Events, Ready(m, t), e \in Routed(m)
    PROVE  AlreadyForwarded(JoinPending(m, p, e, t), e, t)
<1>1. JoinPending(m, p, e, t).wantForwarded = m.wantForwarded
  BY DEF Ready, Good, Core, Maps, JoinPending
<1>2. m.wantForwarded[e] = m.routes[e].expires
  BY DEF Ready, Good, Core, CoherentRoutes
<1>3. m.routes[e].expires \in ExpiriesOf(m, e)
  BY DEF ExpiriesOf, Routed, Ready, Good, Core, Maps, Route
<1> QED
  BY <1>1, <1>2, <1>3 DEF AlreadyForwarded, Ready, Fresh

-----------------------------------------------------------------------------
(* The inductive invariant *)

IInv == now \in Nat /\ Good(mesh, now)

\* An empty mesh satisfies the invariant.
LEMMA InitIInv == Init => IInv
<1> SUFFICES ASSUME Init PROVE IInv
  OBVIOUS
<1>1. Maps(EmptyMesh)
  BY DEF Maps, EmptyMesh, Absent, NoRoute, NoPending, Route, Pending
<1>2. \A e \in Events : /\ EmptyMesh.cached[e] = 0 /\ EmptyMesh.seen[e] = 0
                        /\ EmptyMesh.delivered[e] = 0 /\ EmptyMesh.wantForwarded[e] = 0
                        /\ EmptyMesh.routes[e].expires = 0 /\ EmptyMesh.pending[e].expires = 0
  BY DEF EmptyMesh, Absent, NoRoute, NoPending
<1>3. \A e \in Events : ExpiriesOf(EmptyMesh, e) = {}
  BY <1>2 DEF ExpiriesOf
<1>4. /\ CoherentRoutes(EmptyMesh) /\ OpenWaits(EmptyMesh)
      /\ ScheduledPrune(EmptyMesh) /\ BoundedRoutes(EmptyMesh, 0)
  BY <1>2, <1>3, OptionsNormalised
     DEF CoherentRoutes, OpenWaits, ScheduledPrune, BoundedRoutes, Routed, Waiting
<1> QED
  BY <1>1, <1>4 DEF Init, IInv, Good, Core

\* Every call that starts with prune works on a Ready mesh.
LEMMA CurrentReady ==
    ASSUME IInv
    PROVE  Ready(Current, now) /\ Good(Current, now)
BY PruneReady DEF IInv, Current, Ready

\* The local calls preserve the invariant.
LEMMA LocalCallIInv ==
    ASSUME IInv, LocalCall
    PROVE  IInv'
<1>1. Ready(Current, now) /\ Good(Current, now)
  BY CurrentReady
<1>2. ASSUME NEW e \in Events, NEW peers \in PeerLists, Publish(e, peers) PROVE IInv'
  <2>1. Ready(StoreEvent(Current, e, now), now)
    BY <1>1, StoreReady DEF IInv
  <2>2. IsNewInventory(StoreEvent(Current, e, now), e, now) =>
            Ready(RememberInventory(StoreEvent(Current, e, now), e, now), now)
    BY <2>1, RememberReady DEF IInv
  <2> QED BY <1>2, <2>1, <2>2 DEF Publish, Return, IInv, Ready
<1>3. ASSUME NEW e \in Events, SeedVerified(e) PROVE IInv'
  <2>1. Ready(StoreEvent(Current, e, now), now)
    BY <1>1, StoreReady DEF IInv
  <2> QED BY <1>3, <2>1 DEF SeedVerified, Return, IInv, Ready
<1>4. ASSUME NEW e \in Events, NEW p \in Peers, ReplayToPeer(e, p) PROVE IInv'
  <2>1. Ready(StoreEvent(Current, e, now), now)
    BY <1>1, StoreReady DEF IInv
  <2> QED BY <1>4, <2>1 DEF ReplayToPeer, Return, IInv, Ready
<1>5. ASSUME NEW p \in Peers, ReplayCachedToPeer(p) PROVE IInv'
  BY <1>1, <1>5 DEF ReplayCachedToPeer, Reply, Return, IInv
<1>6. ASSUME Maintain PROVE IInv'
  BY <1>1, <1>6 DEF Maintain, Reply, Return, IInv
<1>7. ASSUME NEW p \in Peers, RecordInvalidMessage(p) PROVE IInv'
  BY <1>7 DEF RecordInvalidMessage, Return, IInv
<1>8. ASSUME NEW p \in Peers, NEW e \in Events, DismissFrame(p, e) PROVE IInv'
  BY <1>8, DismissGood DEF DismissFrame, Return, IInv
<1>9. ASSUME NEW p \in Peers, NEW e \in Events, RecordTransportDisruption(p, e) PROVE IInv'
  <2> DEFINE r == [mesh.routes[e] EXCEPT !.disrupted = @ \cup {p}]
  <2>1. r \in Route /\ r.expires = mesh.routes[e].expires /\ r.fulfilled = mesh.routes[e].fulfilled
    BY DEF IInv, Good, Core, Maps, Route
  <2>2. mesh' = [mesh EXCEPT !.routes[e] = r]
    BY <1>9 DEF RecordTransportDisruption, Return
  <2> HIDE DEF r
  <2>3. Good([mesh EXCEPT !.routes[e] = r], now)
    BY <2>1, SameExpiryGood DEF IInv
  <2> QED BY <1>9, <2>2, <2>3 DEF RecordTransportDisruption, Return, IInv
<1> QED
  BY <1>2, <1>3, <1>4, <1>5, <1>6, <1>7, <1>8, <1>9 DEF LocalCall

\* Received inventories preserve the invariant.
LEMMA ReceiveInventoryIInv ==
    ASSUME IInv, ReceiveInventory
    PROVE  IInv'
<1>1. Ready(Current, now) /\ Good(Current, now)
  BY CurrentReady
<1>2. PICK p \in Peers, inv \in Announcements :
         \/ RefuseInventory(p, inv) \/ IgnoreInventory(p, inv) \/ AskFirstProvider(p, inv)
         \/ RefuseChangedInventory(p, inv) \/ AskAnotherProvider(p, inv)
         \/ TurnAwayProvider(p, inv)
  BY DEF ReceiveInventory
<1>3. CASE RefuseInventory(p, inv) \/ IgnoreInventory(p, inv) \/ RefuseChangedInventory(p, inv)
  BY <1>1, <1>3
     DEF RefuseInventory, IgnoreInventory, RefuseChangedInventory, Refuse, Reply, Return, IInv
<1>4. CASE AskFirstProvider(p, inv)
  <2>1. inv.event \in Events /\ IsNewInventory(Current, inv.event, now)
    BY <1>4, InputsAssumption DEF AskFirstProvider, FirstInventory, InvalidInventory
  <2>2. Good(OpenRoute(Current, p, inv, now), now)
    BY <1>1, <2>1, OpenRouteGood DEF IInv
  <2> QED BY <1>4, <2>2 DEF AskFirstProvider, Return, IInv
<1>5. CASE AskAnotherProvider(p, inv)
  <2>1. inv.event \in Events /\ inv.event \in Routed(Current)
    BY <1>5 DEF AskAnotherProvider, RepeatedInventory, Routed
  <2>2. Good(RepeatRoute(Current, p, inv, now), now)
    BY <1>1, <2>1, RepeatRouteGood DEF IInv
  <2> QED BY <1>5, <2>2 DEF AskAnotherProvider, Return, IInv
<1>6. CASE TurnAwayProvider(p, inv)
  <2> DEFINE e == inv.event
             r == RaiseHop(Current.routes[e], inv.hop)
  <2>1. e \in Events
    BY <1>6 DEF TurnAwayProvider, RepeatedInventory, Routed
  <2>2. /\ r \in Route
        /\ r.expires = Current.routes[e].expires /\ r.fulfilled = Current.routes[e].fulfilled
    <3>1. Current.routes[e] \in Route /\ inv.hop \in Nat
      BY <1>1, <2>1, InputsAssumption DEF Good, Core, Maps
    <3> QED BY <3>1, RaiseHopRoute
  <2>3. mesh' = [Current EXCEPT !.routes[e] = r] /\ now' = now
    BY <1>6 DEF TurnAwayProvider, Return
  <2> HIDE DEF r, e
  <2>4. Good([Current EXCEPT !.routes[e] = r], now)
    BY <1>1, <2>1, <2>2, SameExpiryGood DEF IInv
  <2> QED BY <2>3, <2>4 DEF IInv
<1> QED
  BY <1>2, <1>3, <1>4, <1>5, <1>6

\* Received wants preserve the invariant.
LEMMA ReceiveWantIInv ==
    ASSUME IInv, ReceiveWant
    PROVE  IInv'
<1>1. Ready(Current, now) /\ Good(Current, now)
  BY CurrentReady
<1>2. ASSUME NEW p \in Peers, RefuseWant(p) PROVE IInv'
  BY <1>1, <1>2 DEF RefuseWant, Refuse, Return, IInv
<1>3. ASSUME NEW p \in Peers, NEW e \in Events, ServeWant(p, e) \/ IgnoreWant(p, e) PROVE IInv'
  BY <1>1, <1>3 DEF ServeWant, IgnoreWant, Reply, Return, IInv
<1>4. ASSUME NEW p \in Peers, NEW e \in Events, RetainWant(p, e) PROVE IInv'
  <2>1. e \in Routed(Current) /\ ~Current.routes[e].fulfilled
    BY <1>4 DEF RetainWant
  <2>2. Good(JoinPending(Current, p, e, now), now)
    BY <1>1, <2>1, JoinPendingGood DEF IInv
  <2>3. AlreadyForwarded(JoinPending(Current, p, e, now), e, now)
    BY <1>1, <2>1, WantAlreadyForwarded DEF IInv
  <2> QED BY <1>4, <2>2, <2>3 DEF RetainWant, Return, IInv
<1> QED
  BY <1>2, <1>3, <1>4 DEF ReceiveWant

\* Received frames preserve the invariant.
LEMMA ReceiveFrameIInv ==
    ASSUME IInv, ReceiveFrame
    PROVE  IInv'
<1>1. Ready(Current, now) /\ Good(Current, now)
  BY CurrentReady
<1>2. ASSUME NEW p \in Peers, NEW id \in Events \cup {MalformedId},
             NEW body \in Events \cup {Forged}, RefuseFrame(p, id, body)
      PROVE  IInv'
  BY <1>1, <1>2 DEF RefuseFrame, Refuse, Return, IInv
<1>3. ASSUME NEW p \in Peers, NEW e \in Events, AbsorbFrame(p, e) PROVE IInv'
  BY <1>1, <1>3 DEF AbsorbFrame, Reply, Return, IInv
<1>4. ASSUME NEW p \in Peers, NEW e \in Events, NEW peers \in PeerLists,
             AcceptFrameFrom(p, e, peers)
      PROVE  IInv'
  <2>1. Good(AcceptFrame(Current, e, now), now)
    BY <1>1, AcceptReady DEF IInv
  <2> QED BY <1>4, <2>1 DEF AcceptFrameFrom, IInv
<1> QED
  BY <1>2, <1>3, <1>4 DEF ReceiveFrame

\* Every step of the mesh preserves the invariant.
LEMMA NextIInv == IInv /\ [Next]_vars => IInv'
<1> SUFFICES ASSUME IInv, [Next]_vars PROVE IInv'
  OBVIOUS
<1>1. CASE Tick
  BY <1>1, TickGood DEF Tick, IInv
<1>2. CASE UNCHANGED vars
  BY <1>2 DEF vars, IInv
<1> QED
  BY <1>1, <1>2, LocalCallIInv, ReceiveInventoryIInv, ReceiveWantIInv, ReceiveFrameIInv DEF Next

-----------------------------------------------------------------------------
(* Theorems *)

\* The inductive invariant holds in every reachable state.
THEOREM InvariantHolds == Spec => []IInv
BY InitIInv, NextIInv, PTL DEF Spec

\* The seen inventory, the route and the forwarded-want marker of an event
\* always expire together (receive_inventory, remember_inventory, prune).
THEOREM RoutesStayCoherent == Spec => []RoutesCoherent
<1>1. IInv => RoutesCoherent
  BY DEF IInv, Good, Core, RoutesCoherent
<1> QED
  BY <1>1, InvariantHolds, PTL

\* A retained want always belongs to a live, unanswered route.
THEOREM WaitersKeepARoute == Spec => []WaitersHaveRoute
<1>1. IInv => WaitersHaveRoute
  BY DEF IInv, Good, WaitersHaveRoute
<1> QED
  BY <1>1, InvariantHolds, PTL

\* The lazily scheduled prune is complete: no call ever works on an expired
\* cache entry, inventory, delivery record or route.
THEOREM NoCallSeesStaleState == Spec => []NothingStale
<1>1. IInv => NothingStale
  BY CurrentReady DEF Ready, NothingStale
<1> QED
  BY <1>1, InvariantHolds, PTL

-----------------------------------------------------------------------------
(* Eviction queues *)

\* order is an eviction queue for the live keys of f, and no longer than max.
Line(order, f, max) ==
    /\ order \in Seq(Events) /\ IsInjective(order)
    /\ ToSet(order) = Live(f)
    /\ Len(order) <= max

\* A queue that enumerates the live keys has as many entries as there are keys.
LEMMA LineEnumerates ==
    ASSUME NEW order, NEW f, NEW max, Line(order, f, max)
    PROVE  Enumerates(order, f)
BY DistinctCardinality DEF Line, Enumerates

\* Retaining in the queue what the map retained keeps them in step.
LEMMA LineRetained ==
    ASSUME NEW order, NEW f, NEW g, NEW max \in Nat, Line(order, f, max), Live(g) \subseteq Live(f)
    PROVE  Line(RetainOrder(order, g), g, max)
<1>1. /\ Only(order, Live(g)) \in Seq(Events)
      /\ Len(Only(order, Live(g))) <= Len(order)
      /\ ToSet(Only(order, Live(g))) = ToSet(order) \cap Live(g)
      /\ IsInjective(Only(order, Live(g)))
  BY OnlyRetains DEF Line
<1>2. Len(Only(order, Live(g))) \in Nat /\ Len(order) \in Nat
  BY <1>1 DEF Line
<1> QED
  BY <1>1, <1>2 DEF Line, RetainOrder

\* Dropping k of the oldest entries leaves the others.
LEMMA LineDropped ==
    ASSUME NEW order, NEW f, NEW max, Line(order, f, max), NEW k \in 0..Len(order)
    PROVE  /\ DropPrefix(order, k) \in Seq(Events) /\ IsInjective(DropPrefix(order, k))
           /\ Len(DropPrefix(order, k)) = Len(order) - k
           /\ ToSet(DropPrefix(order, k)) = Live(f) \ Prefix(order, k)
           /\ Cardinality(Live(f) \ Prefix(order, k)) = Len(order) - k
           /\ Prefix(order, k) \subseteq Live(f)
<1>1. /\ DropPrefix(order, k) \in Seq(Events) /\ IsInjective(DropPrefix(order, k))
      /\ Len(DropPrefix(order, k)) = Len(order) - k
      /\ ToSet(DropPrefix(order, k)) = Live(f) \ Prefix(order, k)
      /\ Prefix(order, k) \subseteq Live(f)
  BY DistinctPrefix DEF Line, DropPrefix, Prefix
<1>2. Cardinality(ToSet(DropPrefix(order, k))) = Len(order) - k
  BY <1>1, DistinctCardinality
<1> QED
  BY <1>1, <1>2

\* Queueing a new key after dropping enough of the oldest ones.
LEMMA LineAppended ==
    ASSUME NEW order, NEW f, NEW g, NEW max \in Nat, Line(order, f, max), NEW e \in Events,
           f[e] = 0, NEW k \in 0..Len(order), Len(order) - k < max,
           Live(g) = (Live(f) \ Prefix(order, k)) \cup {e}
    PROVE  Line(Append(DropPrefix(order, k), e), g, max)
<1> DEFINE rest == DropPrefix(order, k)
<1>1. /\ rest \in Seq(Events) /\ IsInjective(rest)
      /\ Len(rest) = Len(order) - k
      /\ ToSet(rest) = Live(f) \ Prefix(order, k)
  BY LineDropped
<1>2. e \notin ToSet(rest)
  BY <1>1 DEF Live
<1> HIDE DEF rest
<1>3. IsInjective(Append(rest, e)) /\ ToSet(Append(rest, e)) = ToSet(rest) \cup {e}
  BY <1>1, <1>2, DistinctEnds
<1>4. Append(rest, e) \in Seq(Events) /\ Len(Append(rest, e)) = Len(rest) + 1
  BY <1>1
<1>5. Len(order) \in Nat
  BY DEF Line
<1>6. Len(Append(rest, e)) <= max
  BY <1>1, <1>4, <1>5
<1> QED
  BY <1>1, <1>3, <1>4, <1>6 DEF Line, rest

\* The eviction loop stops at the first count that leaves room for one more.
LEMMA EvictionMakesRoom ==
    ASSUME NEW order, NEW f, NEW max \in Nat, max > 0, Line(order, f, max)
    PROVE  /\ EvictionCount(order, Live(f), max) \in 0..Len(order)
           /\ Len(order) - EvictionCount(order, Live(f), max) < max
           /\ EvictionCount(order, Live(f), max) <= 1
           /\ Len(order) < max => EvictionCount(order, Live(f), max) = 0
<1> DEFINE enough == {k \in 0..Len(order) :
                         k = Len(order) \/ Cardinality(Live(f) \ Prefix(order, k)) < max}
           n      == EvictionCount(order, Live(f), max)
<1>1. Len(order) \in Nat /\ Len(order) <= max
  BY DEF Line
<1>2. \A k \in 0..Len(order) : Cardinality(Live(f) \ Prefix(order, k)) = Len(order) - k
  BY LineDropped
<1>3. enough = {k \in 0..Len(order) : Len(order) - k < max}
  BY <1>1, <1>2
<1>4. n = Min(enough)
  BY DEF EvictionCount
<1>5. enough \subseteq Nat /\ Len(order) \in enough
  BY <1>1
<1> HIDE DEF enough, n
<1>6. n \in enough /\ \A x \in enough : n <= x
  BY <1>4, <1>5, MinOfNaturals
<1>7. n \in 0..Len(order) /\ Len(order) - n < max
  BY <1>3, <1>6
<1>8. n <= 1
  <2>1. CASE Len(order) <= 1
    BY <1>1, <1>7, <2>1
  <2>2. CASE Len(order) > 1
    <3>1. 1 \in enough
      BY <1>1, <1>3, <2>2
    <3> QED BY <1>6, <3>1
  <2> QED BY <1>1, <2>1, <2>2
<1>9. Len(order) < max => n = 0
  <2> SUFFICES ASSUME Len(order) < max PROVE n = 0
    OBVIOUS
  <2>1. 0 \in enough
    BY <1>1, <1>3
  <2> QED BY <1>6, <1>7, <2>1
<1> QED
  BY <1>7, <1>8, <1>9 DEF n

-----------------------------------------------------------------------------
(* Running totals *)

Volume(S) == UNION {{e} \X (1..SizeOf[e]) : e \in S}

\* The bytes of some events are finite.
LEMMA VolumeFinite == \A S \in SUBSET Events : IsFiniteSet(Volume(S))
<1> DEFINE G == {T \in SUBSET Events : IsFiniteSet(Volume(T))}
<1>1. ASSUME NEW T \in SUBSET Events, \A U \in SUBSET T : U # T => U \in G PROVE T \in G
  <2>1. CASE T = {}
    <3>1. Volume(T) = {}
      BY <2>1 DEF Volume
    <3> QED BY <2>1, <3>1, FS_EmptySet
  <2>2. CASE T # {}
    <3>1. PICK e \in T : TRUE
      BY <2>2
    <3>2. IsFiniteSet(Volume(T \ {e}))
      BY <1>1, <3>1
    <3>3. IsFiniteSet({e} \X (1..SizeOf[e]))
      <4>1. SizeOf[e] \in Nat
        BY <3>1, SignedAssumption
      <4>2. IsFiniteSet(1..SizeOf[e])
        BY <4>1, FS_Interval
      <4> QED BY <4>2, FS_Singleton, FS_Product
    <3>4. Volume(T) = Volume(T \ {e}) \cup ({e} \X (1..SizeOf[e]))
      BY <3>1 DEF Volume
    <3>5. IsFiniteSet(Volume(T \ {e}) \cup ({e} \X (1..SizeOf[e])))
      BY <3>2, <3>3, FS_Union, Zenon
    <3>6. IsFiniteSet(Volume(T))
      BY <3>4, <3>5, Zenon
    <3> QED BY <3>6
  <2> QED BY <2>1, <2>2
<1> HIDE DEF G
<1>2. \A T \in SUBSET Events : T \in G
  BY <1>1, EventsAssumption, SubsetInduction
<1> QED
  BY <1>2 DEF G

\* The bytes of an event are its size, those of disjoint sets add up.
LEMMA BytesAdd ==
    /\ Bytes({}) = 0
    /\ \A e \in Events : Bytes({e}) = SizeOf[e]
    /\ \A S \in SUBSET Events : Bytes(S) \in Nat
    /\ \A S, T \in SUBSET Events : S \cap T = {} => Bytes(S \cup T) = Bytes(S) + Bytes(T)
<1>1. \A S : Bytes(S) = Cardinality(Volume(S))
  BY DEF Bytes, Volume
<1>2. Bytes({}) = 0
  <2>1. Volume({}) = {}
    BY DEF Volume
  <2> QED BY <1>1, <2>1, FS_EmptySet
<1>3. ASSUME NEW e \in Events PROVE Bytes({e}) = SizeOf[e]
  <2> DEFINE n == SizeOf[e]
             places == 1..n
  <2>1. n \in Nat /\ n > 0
    BY SignedAssumption
  <2>2. Bytes({e}) = Cardinality({e} \X places)
    <3>1. Volume({e}) = {e} \X places
      BY DEF Volume
    <3> QED BY <1>1, <3>1, Zenon
  <2> HIDE DEF n
  <2>3. IsFiniteSet(places) /\ Cardinality(places) = n
    <3>1. IsFiniteSet(1..n) /\ Cardinality(1..n) = IF 1 > n THEN 0 ELSE n - 1 + 1
      BY <2>1, FS_Interval
    <3> QED BY <2>1, <3>1
  <2> HIDE DEF places
  <2>4. IsFiniteSet({e}) /\ Cardinality({e}) = 1
    BY FS_Singleton, Zenon
  <2>5. Cardinality({e} \X places) = Cardinality({e}) * Cardinality(places)
    BY <2>3, <2>4, FS_Product
  <2>6. Cardinality({e} \X places) = n
    BY <2>1, <2>3, <2>4, <2>5
  <2> QED BY <2>2, <2>6 DEF n
<1>4. ASSUME NEW S \in SUBSET Events PROVE Bytes(S) \in Nat
  BY <1>1, VolumeFinite, FS_CardinalityType
<1>5. ASSUME NEW S \in SUBSET Events, NEW T \in SUBSET Events, S \cap T = {}
      PROVE  Bytes(S \cup T) = Bytes(S) + Bytes(T)
  <2>1. Volume(S \cup T) = Volume(S) \cup Volume(T)
    BY DEF Volume
  <2>2. Volume(S) \cap Volume(T) = {}
    BY <1>5 DEF Volume
  <2>3. IsFiniteSet(Volume(S)) /\ IsFiniteSet(Volume(T))
    BY VolumeFinite
  <2>4. Cardinality(Volume(S) \cup Volume(T)) = Cardinality(Volume(S)) + Cardinality(Volume(T)) - 0
    BY <2>2, <2>3, FS_Union, FS_EmptySet
  <2>5. Bytes(S) \in Nat /\ Bytes(T) \in Nat
    BY <1>4
  <2>6. /\ Bytes(S \cup T) = Cardinality(Volume(S) \cup Volume(T))
        /\ Bytes(S) = Cardinality(Volume(S)) /\ Bytes(T) = Cardinality(Volume(T))
    BY <1>1, <2>1, Zenon
  <2> QED BY <2>4, <2>5, <2>6
<1> QED
  BY <1>2, <1>3, <1>4, <1>5

\* Taking some of the counted events away takes their bytes away.
LEMMA BytesSubtract ==
    ASSUME NEW S \in SUBSET Events, NEW T \in SUBSET S
    PROVE  SaturatingSub(Bytes(S), Bytes(T)) = Bytes(S \ T)
<1>1. Bytes(T) \in Nat /\ Bytes(S \ T) \in Nat /\ Bytes(T \cup (S \ T)) = Bytes(T) + Bytes(S \ T)
  BY BytesAdd
<1>2. T \cup (S \ T) = S
  OBVIOUS
<1>3. Bytes(S) = Bytes(T) + Bytes(S \ T)
  BY <1>1, <1>2
<1> QED
  BY <1>1, <1>3 DEF SaturatingSub, AtLeast

\* The waiting peers are finitely many.
LEMMA WaitersCounted ==
    ASSUME NEW pending, NEW S \in SUBSET Events
    PROVE  IsFiniteSet(Waiters(pending, S)) /\ PeerCount(pending, S) \in Nat
<1>1. IsFiniteSet(Events \X Peers)
  BY EventsAssumption, PeersAssumption, FS_Product
<1>2. Waiters(pending, S) \in SUBSET (Events \X Peers)
  BY DEF Waiters
<1>3. IsFiniteSet(Waiters(pending, S))
  BY <1>1, <1>2, FS_Subset
<1> QED
  BY <1>3, FS_CardinalityType DEF PeerCount

\* Removing the entries of S removes exactly the waiters counted for S.
LEMMA WaitersRemoved ==
    ASSUME NEW pending \in [Events -> Pending], NEW S \in SUBSET Events,
           NEW after \in [Events -> Pending],
           \A e \in Events : after[e] = IF e \in S THEN NoPending ELSE pending[e]
    PROVE  PeerCount(after, Events) = SaturatingSub(PeerCount(pending, Events), PeerCount(pending, S))
<1> DEFINE all  == Waiters(pending, Events)
           gone == Waiters(pending, S)
<1>2. gone \in SUBSET all
  BY DEF Waiters
<1>3. IsFiniteSet(all)
  BY WaitersCounted
<1>4. Waiters(after, Events) = all \ gone
  BY DEF Waiters, NoPending, Pending
<1>5. all \cap gone = gone
  BY <1>2
<1> HIDE DEF all, gone
<1>6. IsFiniteSet(gone) /\ Cardinality(gone) <= Cardinality(all)
  BY <1>2, <1>3, FS_Subset
<1>7. Cardinality(all) \in Nat /\ Cardinality(gone) \in Nat
  BY <1>3, <1>6, FS_CardinalityType
<1>8. Cardinality(all \ gone) = Cardinality(all) - Cardinality(gone)
  BY <1>3, <1>5, FS_Difference
<1>9. /\ PeerCount(pending, Events) = Cardinality(all) /\ PeerCount(pending, S) = Cardinality(gone)
      /\ PeerCount(after, Events) = Cardinality(all \ gone)
  BY <1>4 DEF PeerCount, all, gone
<1> QED
  BY <1>6, <1>7, <1>8, <1>9 DEF SaturatingSub, AtLeast

\* One more peer waiting for e is one more waiter.
LEMMA WaiterAdded ==
    ASSUME NEW pending \in [Events -> Pending], NEW e \in Events, NEW p \in Peers,
           p \notin pending[e].peers, NEW after \in [Events -> Pending],
           \A x \in Events : after[x].peers = IF x = e THEN pending[e].peers \cup {p} ELSE pending[x].peers
    PROVE  PeerCount(after, Events) = PeerCount(pending, Events) + 1
<1> DEFINE all == Waiters(pending, Events)
<1>3. IsFiniteSet(all)
  BY WaitersCounted
<1>4. Waiters(after, Events) = all \cup {<<e, p>>}
  BY DEF Waiters
<1>5. <<e, p>> \notin all
  BY DEF Waiters
<1>6. PeerCount(pending, Events) = Cardinality(all) /\ PeerCount(after, Events) = Cardinality(all \cup {<<e, p>>})
  BY <1>4 DEF PeerCount
<1> HIDE DEF all
<1>7. Cardinality(all \cup {<<e, p>>}) = Cardinality(all) + 1
  BY <1>3, <1>5, FS_AddElement
<1> QED
  BY <1>6, <1>7

-----------------------------------------------------------------------------
(* The books of a mesh *)

\* InvWantMesh::new: every limit admits one entry, and the cache one event.
LEMMA Limits ==
    /\ Opt.max_cached_events \in Nat /\ Opt.max_cached_events > 0
    /\ Opt.max_seen_events \in Nat /\ Opt.max_seen_events > 0
    /\ Opt.max_pending_peers_per_event \in Nat /\ Opt.max_pending_peers_per_event > 0
    /\ Opt.max_event_bytes \in Nat /\ Opt.max_cached_event_bytes \in Nat
    /\ Opt.max_event_bytes <= Opt.max_cached_event_bytes
    /\ MaxProviders \in Nat /\ MaxProviders > 0
BY OptionsAssumption DEF Opt, OptionsType, AtLeast, AtMost

\* The cache: its queue, its size in bytes and both limits.
CacheBook(cached, order, bytes) ==
    /\ Line(order, cached, Opt.max_cached_events)
    /\ bytes = Bytes(Live(cached))
    /\ bytes <= Opt.max_cached_event_bytes

\* The waiting peers: their number, and the limit for each event.
WaitBook(pending, count) ==
    /\ count = PeerCount(pending, Events)
    /\ \A e \in Events : /\ Cardinality(pending[e].peers) <= Opt.max_pending_peers_per_event
                         /\ pending[e].expires = 0 => pending[e].peers = {}

\* A route counts its first provider and the alternates.
RouteBook(routes) == \A e \in Events : Cardinality(routes[e].alternates) + 1 <= MaxProviders

Accounts(m) ==
    /\ CacheBook(m.cached, m.cacheOrder, m.cachedBytes)
    /\ Line(m.seenOrder, m.seen, Opt.max_seen_events)
    /\ Line(m.deliveredOrder, m.delivered, Opt.max_seen_events)
    /\ WaitBook(m.pending, m.pendingCount)
    /\ RouteBook(m.routes)

\* Emptying entries leaves the limits of the others.
LEMMA WaitBookRemoved ==
    ASSUME NEW pending \in [Events -> Pending], NEW count, WaitBook(pending, count),
           NEW S \in SUBSET Events, NEW after \in [Events -> Pending],
           \A e \in Events : after[e] = IF e \in S THEN NoPending ELSE pending[e]
    PROVE  /\ \A e \in Events : /\ Cardinality(after[e].peers) <= Opt.max_pending_peers_per_event
                                /\ after[e].expires = 0 => after[e].peers = {}
           /\ WaitBook(after, SaturatingSub(count, PeerCount(pending, S)))
<1>1. \A e \in Events : /\ Cardinality(after[e].peers) <= Opt.max_pending_peers_per_event
                        /\ after[e].expires = 0 => after[e].peers = {}
  <2> SUFFICES ASSUME NEW e \in Events
               PROVE  /\ Cardinality(after[e].peers) <= Opt.max_pending_peers_per_event
                      /\ after[e].expires = 0 => after[e].peers = {}
    OBVIOUS
  <2>1. CASE e \in S
    <3>1. after[e].peers = {}
      BY <2>1 DEF NoPending
    <3> QED BY <3>1, Limits, FS_EmptySet
  <2>2. CASE e \notin S
    BY <2>2 DEF WaitBook
  <2> QED BY <2>1, <2>2
<1>2. PeerCount(after, Events) = SaturatingSub(PeerCount(pending, Events), PeerCount(pending, S))
  BY WaitersRemoved
<1> QED
  BY <1>1, <1>2 DEF WaitBook

\* Closing, forgetting or keeping routes admits no provider.
LEMMA RouteBookKept ==
    ASSUME NEW routes, RouteBook(routes), NEW after,
           \A e \in Events : after[e] = NoRoute \/ after[e].alternates = routes[e].alternates
    PROVE  RouteBook(after)
<1> SUFFICES ASSUME NEW e \in Events PROVE Cardinality(after[e].alternates) + 1 <= MaxProviders
  BY DEF RouteBook
<1>1. CASE after[e] = NoRoute
  BY <1>1, Limits, FS_EmptySet DEF NoRoute
<1>2. CASE after[e].alternates = routes[e].alternates
  BY <1>2 DEF RouteBook
<1> QED
  BY <1>1, <1>2

-----------------------------------------------------------------------------
(* The operations keep the books *)

\* An unexpired map is a part of the map.
LEMMA RetainLive ==
    ASSUME NEW f \in [Events -> Nat], NEW t \in Nat
    PROVE  Live(Retain(f, t)) \subseteq Live(f)
BY DEF Live, Retain

\* prune recounts the totals and rebuilds the queues from what it kept.
LEMMA PruneAccounts ==
    ASSUME NEW m, NEW t \in Nat, Maps(m), Accounts(m)
    PROVE  Accounts(Prune(m, t))
<1> SUFFICES ASSUME PruneDue(m, t) PROVE Accounts(Pruned(m, t))
  BY DEF Prune
<1> DEFINE p == Pruned(m, t)
<1>1. /\ p.cached = Retain(m.cached, t) /\ p.cacheOrder = RetainOrder(m.cacheOrder, p.cached)
      /\ p.cachedBytes = Bytes(Live(p.cached))
      /\ p.seen = Retain(m.seen, t) /\ p.seenOrder = RetainOrder(m.seenOrder, p.seen)
      /\ p.delivered = Retain(m.delivered, t)
      /\ p.deliveredOrder = RetainOrder(m.deliveredOrder, p.delivered)
      /\ p.routes = [e \in Events |-> IF m.routes[e].expires > t THEN m.routes[e] ELSE NoRoute]
      /\ p.pending = UnexpiredPending(m, p.routes, t)
      /\ p.pendingCount = PeerCount(p.pending, Events)
  BY DEF Pruned, Unexpired
<1> HIDE DEF p
<1>2. Live(p.cached) \subseteq Live(m.cached)
  BY <1>1, RetainLive DEF Maps
<1>3. CacheBook(p.cached, p.cacheOrder, p.cachedBytes)
  <2>1. Line(p.cacheOrder, p.cached, Opt.max_cached_events)
    BY <1>1, <1>2, LineRetained, Limits DEF Accounts, CacheBook
  <2>2. Bytes(Live(p.cached)) <= Bytes(Live(m.cached))
    <3> DEFINE S == Live(m.cached)
               T == Live(p.cached)
    <3>1. S \in SUBSET Events /\ T \in SUBSET S
      BY <1>2 DEF Live
    <3> HIDE DEF S, T
    <3>2. Bytes(T) \in Nat /\ Bytes(S \ T) \in Nat /\ Bytes(T \cup (S \ T)) = Bytes(T) + Bytes(S \ T)
      BY <3>1, BytesAdd
    <3>3. T \cup (S \ T) = S
      BY <3>1
    <3>4. Bytes(S) = Bytes(T) + Bytes(S \ T)
      BY <3>2, <3>3
    <3>5. Bytes(T) <= Bytes(S)
      BY <3>2, <3>4
    <3> QED BY <3>5 DEF S, T
  <2>3. Bytes(Live(p.cached)) \in Nat /\ Bytes(Live(m.cached)) \in Nat
    BY BytesAdd DEF Live
  <2> QED BY <1>1, <2>1, <2>2, <2>3, Limits DEF Accounts, CacheBook
<1>4. Line(p.seenOrder, p.seen, Opt.max_seen_events)
  BY <1>1, RetainLive, LineRetained, Limits DEF Accounts, Maps
<1>5. Line(p.deliveredOrder, p.delivered, Opt.max_seen_events)
  BY <1>1, RetainLive, LineRetained, Limits DEF Accounts, Maps
<1>6. WaitBook(p.pending, p.pendingCount)
  <2> DEFINE S == {e \in Events : ~(m.pending[e].expires > t /\ p.routes[e].expires > 0)}
  <2>1. p.pending \in [Events -> Pending] /\ m.pending \in [Events -> Pending]
    BY <1>1 DEF UnexpiredPending, Maps, Pending, NoPending
  <2>2. \A e \in Events : p.pending[e] = IF e \in S THEN NoPending ELSE m.pending[e]
    BY <1>1 DEF UnexpiredPending
  <2> HIDE DEF S
  <2>3. S \in SUBSET Events
    BY DEF S
  <2>4. WaitBook(m.pending, m.pendingCount)
    BY DEF Accounts
  <2>5. \A e \in Events : /\ Cardinality(p.pending[e].peers) <= Opt.max_pending_peers_per_event
                          /\ p.pending[e].expires = 0 => p.pending[e].peers = {}
    BY <2>1, <2>2, <2>3, <2>4, WaitBookRemoved
  <2> QED BY <1>1, <2>5 DEF WaitBook
<1>7. RouteBook(p.routes)
  BY <1>1, RouteBookKept DEF Accounts
<1> QED
  BY <1>3, <1>4, <1>5, <1>6, <1>7 DEF Accounts, p

\* store_event: a known event keeps its place, a new one is queued once the
\* oldest have made room for it in number and in bytes; an event that
\* validate_verified_event admits always fits.
LEMMA StoreAccounts ==
    ASSUME NEW m, NEW t \in Nat, NEW e \in Events, Maps(m), Accounts(m), ValidEvent(e)
    PROVE  Accounts(StoreEvent(m, e, t))
<1> DEFINE order   == m.cacheOrder
           live    == Live(m.cached)
           Room(k) == /\ Cardinality(live \ Prefix(order, k)) < Opt.max_cached_events
                      /\ SaturatingSub(m.cachedBytes, Bytes(Prefix(order, k))) + SizeOf[e]
                            <= Opt.max_cached_event_bytes
           rooms   == {i \in 0..Len(order) : i = Len(order) \/ Room(i)}
           known   == m.cached[e] > 0
           k       == IF known THEN 0 ELSE Min(rooms)
           gone    == IF known THEN {e} ELSE Prefix(order, k)
           expiry  == t + Opt.event_ttl_ms
           n       == StoreEvent(m, e, t)
<1>1. /\ n.cached = [Without(m.cached, gone) EXCEPT ![e] = expiry]
      /\ n.cacheOrder = IF known THEN order ELSE Append(DropPrefix(order, k), e)
      /\ n.cachedBytes = SaturatingSub(m.cachedBytes, Bytes(gone)) + SizeOf[e]
      /\ n.seen = m.seen /\ n.seenOrder = m.seenOrder
      /\ n.delivered = m.delivered /\ n.deliveredOrder = m.deliveredOrder
      /\ n.pending = m.pending /\ n.pendingCount = m.pendingCount /\ n.routes = m.routes
  BY DEF Maps, StoreEvent
<1>2. expiry \in Nat /\ expiry > 0
  BY OptionsNormalised
<1>3. /\ Line(order, m.cached, Opt.max_cached_events) /\ m.cachedBytes = Bytes(live)
      /\ m.cachedBytes <= Opt.max_cached_event_bytes
  BY DEF Accounts, CacheBook
<1>4. /\ SizeOf[e] \in Nat /\ SizeOf[e] <= Opt.max_cached_event_bytes
      /\ Bytes({e}) = SizeOf[e] /\ live \in SUBSET Events
  BY SignedAssumption, Limits, BytesAdd DEF ValidEvent, Admissible, Live
<1> HIDE DEF n
<1>5. CASE known
  <2>1. e \in live /\ gone = {e} /\ Live(n.cached) = live
    BY <1>1, <1>2, <1>5 DEF Live, Without, Maps
  <2>2. n.cachedBytes = SaturatingSub(Bytes(live), Bytes({e})) + SizeOf[e]
    BY <1>1, <1>3, <2>1
  <2> HIDE DEF live
  <2>3. SaturatingSub(Bytes(live), Bytes({e})) = Bytes(live \ {e})
    BY <1>4, <2>1, BytesSubtract
  <2>4. Bytes((live \ {e}) \cup {e}) = Bytes(live \ {e}) + Bytes({e})
    BY <1>4, <2>1, BytesAdd
  <2>5. (live \ {e}) \cup {e} = live
    BY <2>1
  <2>6. n.cachedBytes = Bytes(live)
    BY <1>4, <2>2, <2>3, <2>4, <2>5
  <2>7. Line(order, n.cached, Opt.max_cached_events)
    BY <1>3, <2>1 DEF Line, live
  <2> QED BY <1>1, <1>3, <1>5, <2>1, <2>6, <2>7 DEF Accounts, CacheBook, n
<1>6. CASE ~known
  <2>1. Len(order) \in Nat
    BY <1>3 DEF Line
  <2>2. k = Min(rooms) /\ gone = Prefix(order, k)
    BY <1>6
  <2>3. rooms \subseteq Nat /\ Len(order) \in rooms
    BY <2>1
  <2> HIDE DEF k, gone
  <2>4. k \in rooms
    <3> HIDE DEF rooms
    <3> QED BY <2>2, <2>3, MinOfNaturals
  <2>5. k \in 0..Len(order) /\ (k = Len(order) \/ Room(k))
    BY <2>4
  <2> HIDE DEF rooms
  <2>6. /\ Cardinality(live \ gone) = Len(order) - k /\ gone \subseteq live
        /\ DropPrefix(order, k) \in Seq(Events) /\ Len(DropPrefix(order, k)) = Len(order) - k
        /\ ToSet(DropPrefix(order, k)) = live \ gone
    BY <1>3, <2>2, <2>5, LineDropped
  <2>7. SaturatingSub(m.cachedBytes, Bytes(gone)) = Bytes(live \ gone) /\ Bytes(live \ gone) \in Nat
    <3> HIDE DEF live
    <3>1. SaturatingSub(Bytes(live), Bytes(gone)) = Bytes(live \ gone)
      BY <1>4, <2>6, BytesSubtract
    <3>2. Bytes(live \ gone) \in Nat
      BY <1>4, BytesAdd
    <3> QED BY <1>3, <3>1, <3>2
  <2>8. Len(order) - k < Opt.max_cached_events /\ Bytes(live \ gone) + SizeOf[e] <= Opt.max_cached_event_bytes
    <3>1. CASE k = Len(order)
      <4>1. Len(DropPrefix(order, k)) = 0
        BY <2>1, <2>6, <3>1
      <4>2. ToSet(DropPrefix(order, k)) = {}
        BY <2>6, <4>1 DEF ToSet
      <4>3. Bytes(live \ gone) = 0
        BY <2>6, <4>2, BytesAdd
      <4> QED BY <1>4, <2>1, <3>1, <4>3, Limits
    <3>2. CASE Room(k)
      BY <2>2, <2>6, <2>7, <3>2
    <3> QED BY <2>5, <3>1, <3>2
  <2>9. e \notin live /\ m.cached[e] = 0
    BY <1>6 DEF Live, Maps
  <2>10. Live(n.cached) = (live \ gone) \cup {e}
    BY <1>1, <1>2 DEF Live, Without, Maps
  <2>11. Bytes((live \ gone) \cup {e}) = Bytes(live \ gone) + Bytes({e})
    <3> HIDE DEF live
    <3> QED BY <1>4, <2>9, BytesAdd
  <2>12. n.cachedBytes = Bytes(Live(n.cached)) /\ n.cachedBytes <= Opt.max_cached_event_bytes
    BY <1>1, <1>4, <2>7, <2>8, <2>10, <2>11
  <2>13. Line(Append(DropPrefix(order, k), e), n.cached, Opt.max_cached_events)
    BY <1>3, <2>2, <2>5, <2>8, <2>9, <2>10, LineAppended, Limits
  <2> QED BY <1>1, <1>6, <2>12, <2>13 DEF Accounts, CacheBook, n
<1> QED
  BY <1>5, <1>6

\* remove_pending_event: the total loses exactly the waiters that go.
LEMMA RemovePendingAccounts ==
    ASSUME NEW m, NEW S \in SUBSET Events, Maps(m), Accounts(m)
    PROVE  Accounts(RemovePending(m, S))
<1> DEFINE n == RemovePending(m, S)
<1>1. /\ n.pending = [e \in Events |-> IF e \in S THEN NoPending ELSE m.pending[e]]
      /\ n.pendingCount = SaturatingSub(m.pendingCount, PeerCount(m.pending, S))
      /\ n.cached = m.cached /\ n.cacheOrder = m.cacheOrder /\ n.cachedBytes = m.cachedBytes
      /\ n.seen = m.seen /\ n.seenOrder = m.seenOrder
      /\ n.delivered = m.delivered /\ n.deliveredOrder = m.deliveredOrder /\ n.routes = m.routes
  BY DEF Maps, RemovePending
<1> HIDE DEF n
<1>2. m.pending \in [Events -> Pending] /\ n.pending \in [Events -> Pending]
  BY <1>1 DEF Maps, NoPending, Pending
<1>3. \A e \in Events : n.pending[e] = IF e \in S THEN NoPending ELSE m.pending[e]
  BY <1>1
<1>4. WaitBook(n.pending, n.pendingCount)
  BY <1>1, <1>2, <1>3, WaitBookRemoved DEF Accounts
<1>5. Accounts(n)
  BY <1>1, <1>4 DEF Accounts
<1> QED
  BY <1>5 DEF n

\* remember_inventory of a new event, with everything it evicts.
LEMMA RememberAccounts ==
    ASSUME NEW m, NEW t \in Nat, NEW e \in Events, Maps(m), Accounts(m), m.seen[e] = 0
    PROVE  Accounts(RememberInventory(m, e, t))
<1> DEFINE k      == EvictionCount(m.seenOrder, Live(m.seen), Opt.max_seen_events)
           gone   == Prefix(m.seenOrder, k)
           expiry == t + Opt.route_ttl_ms
           q      == RemovePending(m, gone)
           n      == RememberInventory(m, e, t)
<1>1. expiry \in Nat /\ expiry > 0
  BY OptionsNormalised
<1>2. k \in 0..Len(m.seenOrder) /\ Len(m.seenOrder) - k < Opt.max_seen_events
  BY EvictionMakesRoom, Limits DEF Accounts
<1>3. gone \subseteq Live(m.seen)
  BY <1>2, LineDropped DEF Accounts
<1> HIDE DEF k
<1>4. gone \in SUBSET Events
  BY <1>3 DEF Live
<1>5. n = [q EXCEPT
            !.seen = [Without(m.seen, gone) EXCEPT ![e] = expiry],
            !.seenOrder = Append(DropPrefix(m.seenOrder, k), e),
            !.routes = [x \in Events |-> IF x \in gone THEN NoRoute ELSE m.routes[x]],
            !.wantForwarded = Without(m.wantForwarded, gone),
            !.nextPrune = TrackExpiry(m.nextPrune, expiry)]
  <2>1. ~(m.seen[e] > 0)
    OBVIOUS
  <2> QED BY <2>1 DEF RememberInventory, k
<1>6. Maps(q) /\ q.routes = m.routes
  BY RemovePendingFields
<1>7. Accounts(q)
  BY <1>4, RemovePendingAccounts
<1> HIDE DEF q, n, gone
<1>8. /\ n.seen = [Without(m.seen, gone) EXCEPT ![e] = expiry]
      /\ n.seenOrder = Append(DropPrefix(m.seenOrder, k), e)
      /\ n.routes = [x \in Events |-> IF x \in gone THEN NoRoute ELSE m.routes[x]]
      /\ n.cached = q.cached /\ n.cacheOrder = q.cacheOrder /\ n.cachedBytes = q.cachedBytes
      /\ n.delivered = q.delivered /\ n.deliveredOrder = q.deliveredOrder
      /\ n.pending = q.pending /\ n.pendingCount = q.pendingCount
  BY <1>5, <1>6 DEF Maps
<1>9. Live(n.seen) = (Live(m.seen) \ gone) \cup {e}
  BY <1>1, <1>8 DEF Live, Without, Maps
<1>10. Line(n.seenOrder, n.seen, Opt.max_seen_events)
  BY <1>2, <1>8, <1>9, LineAppended, Limits DEF Accounts, gone
<1>11. RouteBook(n.routes)
  BY <1>8, RouteBookKept DEF Accounts
<1>12. Accounts(n)
  BY <1>7, <1>8, <1>10, <1>11 DEF Accounts
<1> QED
  BY <1>12 DEF n

\* remember_delivered of an event without a delivery record.
LEMMA DeliveredAccounts ==
    ASSUME NEW m, NEW t \in Nat, NEW e \in Events, Maps(m), Accounts(m), m.delivered[e] = 0
    PROVE  Accounts(RememberDelivered(m, e, t))
<1> DEFINE k      == EvictionCount(m.deliveredOrder, Live(m.delivered), Opt.max_seen_events)
           gone   == Prefix(m.deliveredOrder, k)
           expiry == t + Opt.event_ttl_ms
           n      == RememberDelivered(m, e, t)
<1>1. expiry \in Nat /\ expiry > 0
  BY OptionsNormalised
<1>2. k \in 0..Len(m.deliveredOrder) /\ Len(m.deliveredOrder) - k < Opt.max_seen_events
  BY EvictionMakesRoom, Limits DEF Accounts
<1>3. /\ n.delivered = [Without(m.delivered, gone) EXCEPT ![e] = expiry]
      /\ n.deliveredOrder = Append(DropPrefix(m.deliveredOrder, k), e)
      /\ n.cached = m.cached /\ n.cacheOrder = m.cacheOrder /\ n.cachedBytes = m.cachedBytes
      /\ n.seen = m.seen /\ n.seenOrder = m.seenOrder /\ n.routes = m.routes
      /\ n.pending = m.pending /\ n.pendingCount = m.pendingCount
  BY DEF Maps, RememberDelivered
<1> HIDE DEF k, n
<1>4. Live(n.delivered) = (Live(m.delivered) \ gone) \cup {e}
  BY <1>1, <1>3 DEF Live, Without, Maps
<1>5. Line(n.deliveredOrder, n.delivered, Opt.max_seen_events)
  <2>1. Line(m.deliveredOrder, m.delivered, Opt.max_seen_events) /\ Opt.max_seen_events \in Nat
    BY Limits DEF Accounts
  <2> HIDE DEF gone
  <2>2. Line(Append(DropPrefix(m.deliveredOrder, k), e), n.delivered, Opt.max_seen_events)
    BY <1>2, <1>4, <2>1, LineAppended DEF gone
  <2> QED BY <1>3, <2>2
<1>6. Accounts(n)
  BY <1>3, <1>5 DEF Accounts
<1> QED
  BY <1>6 DEF n

\* Replacing one route by another with no more providers.
LEMMA RouteAccounts ==
    ASSUME NEW m, NEW e \in Events, Maps(m), Accounts(m), NEW r \in Route,
           Cardinality(r.alternates) + 1 <= MaxProviders
    PROVE  Accounts([m EXCEPT !.routes[e] = r])
<1> DEFINE n == [m EXCEPT !.routes[e] = r]
<1>1. /\ n.routes = [m.routes EXCEPT ![e] = r]
      /\ n.cached = m.cached /\ n.cacheOrder = m.cacheOrder /\ n.cachedBytes = m.cachedBytes
      /\ n.seen = m.seen /\ n.seenOrder = m.seenOrder
      /\ n.delivered = m.delivered /\ n.deliveredOrder = m.deliveredOrder
      /\ n.pending = m.pending /\ n.pendingCount = m.pendingCount
  BY DEF Maps
<1> HIDE DEF n
<1>2. RouteBook(n.routes)
  BY <1>1 DEF Accounts, RouteBook, Maps
<1>3. Accounts(n)
  BY <1>1, <1>2 DEF Accounts
<1> QED
  BY <1>3 DEF n

\* Closing a route.
LEMMA CloseAccounts ==
    ASSUME NEW m, NEW e \in Events, Maps(m), Accounts(m)
    PROVE  Accounts(CloseRoute(m, e)) /\ Maps(CloseRoute(m, e))
<1> DEFINE r == [m.routes[e] EXCEPT !.fulfilled = TRUE, !.disrupted = {}]
<1>1. r \in Route /\ r.alternates = m.routes[e].alternates
  BY DEF Maps, Route
<1>2. Cardinality(r.alternates) + 1 <= MaxProviders
  BY <1>1 DEF Accounts, RouteBook
<1>3. CloseRoute(m, e) = [m EXCEPT !.routes[e] = r]
  BY DEF CloseRoute, Maps, Route
<1> HIDE DEF r
<1>4. Accounts([m EXCEPT !.routes[e] = r])
  BY <1>1, <1>2, RouteAccounts
<1>5. Maps([m EXCEPT !.routes[e] = r])
  BY <1>1 DEF Maps
<1> QED
  BY <1>3, <1>4, <1>5

\* receive_inventory of a new event: one provider.
LEMMA OpenRouteAccounts ==
    ASSUME NEW m, NEW t \in Nat, NEW p \in Peers, NEW inv \in Announcements,
           inv.event \in Events, Ready(m, t), IsNewInventory(m, inv.event, t), Accounts(m)
    PROVE  Accounts(OpenRoute(m, p, inv, t))
<1> DEFINE e      == inv.event
           s      == RememberInventory(m, e, t)
           expiry == t + Opt.route_ttl_ms
           opened == [peer |-> p, alternates |-> {}, disrupted |-> {}, kind |-> inv.kind,
                      bytes |-> inv.bytes, hop |-> inv.hop, expires |-> expiry,
                      fulfilled |-> FALSE]
           n      == [s EXCEPT !.routes[e] = opened, !.wantForwarded[e] = expiry]
<1>1. expiry \in Nat
  BY OptionsNormalised
<1>2. Ready(s, t) /\ s.routes[e].expires = 0
  BY RememberReady
<1>3. m.seen[e] = 0
  BY DEF Ready, Good, Core, Maps, Fresh, ExpiriesOf, IsNewInventory
<1>4. Accounts(s)
  BY <1>3, RememberAccounts DEF Ready, Good, Core
<1>5. opened \in Route /\ opened.alternates = {}
  BY <1>1, InputsAssumption DEF Route
<1> HIDE DEF s, opened
<1>6. OpenRoute(m, p, inv, t) = n
  <2>1. (IF s.routes[e].expires > 0 THEN s.routes[e] ELSE opened) = opened
    BY <1>2
  <2> QED BY <2>1 DEF OpenRoute, s, opened
<1>7. Maps(s)
  BY <1>2 DEF Ready, Good, Core
<1>8. /\ n.routes = [s.routes EXCEPT ![e] = opened]
      /\ n.cached = s.cached /\ n.cacheOrder = s.cacheOrder /\ n.cachedBytes = s.cachedBytes
      /\ n.seen = s.seen /\ n.seenOrder = s.seenOrder
      /\ n.delivered = s.delivered /\ n.deliveredOrder = s.deliveredOrder
      /\ n.pending = s.pending /\ n.pendingCount = s.pendingCount
  BY <1>7 DEF Maps
<1> HIDE DEF n
<1>9. Cardinality(opened.alternates) + 1 <= MaxProviders
  BY <1>5, Limits, FS_EmptySet
<1>10. RouteBook(n.routes)
  BY <1>4, <1>7, <1>8, <1>9 DEF Accounts, RouteBook, Maps
<1>11. Accounts(n)
  BY <1>4, <1>8, <1>10 DEF Accounts
<1> QED
  BY <1>6, <1>11

\* receive_inventory from another source: an alternate more only where
\* MAX_UPSTREAM_PROVIDERS_PER_EVENT leaves room.
LEMMA RepeatRouteAccounts ==
    ASSUME NEW m, NEW t \in Nat, NEW p \in Peers, NEW inv \in Announcements,
           inv.event \in Events, Good(m, t), inv.event \in Routed(m), Accounts(m),
           MayProvide(m.routes[inv.event], p)
    PROVE  Accounts(RepeatRoute(m, p, inv, t))
<1> DEFINE e        == inv.event
           r        == RaiseHop(m.routes[e], inv.hop)
           extended == t + Opt.route_ttl_ms
           known    == [r EXCEPT !.disrupted = r.disrupted \ {p}]
           joined   == [r EXCEPT !.alternates = r.alternates \cup {p}, !.expires = extended,
                                 !.disrupted = r.disrupted \ {p}]
           n        == [m EXCEPT !.routes[e] = joined, !.seen[e] = extended,
                                 !.wantForwarded[e] = extended]
<1>1. extended \in Nat /\ extended > 0
  BY OptionsNormalised
<1>2. Maps(m) /\ m.routes[e] \in Route /\ inv.hop \in Nat
  BY InputsAssumption DEF Good, Core, Maps
<1>3. /\ r \in Route /\ r.alternates = m.routes[e].alternates
      /\ Providers(r) = Providers(m.routes[e])
  BY <1>2, RaiseHopRoute DEF RaiseHop, Route, Providers
<1>4. Cardinality(r.alternates) + 1 <= MaxProviders
  BY <1>3 DEF Accounts, RouteBook
<1> HIDE DEF r
<1>5. /\ known \in Route /\ known.alternates = r.alternates
      /\ joined \in Route /\ joined.alternates = r.alternates \cup {p}
  BY <1>1, <1>3 DEF Route
<1>6. CASE p \in Providers(r)
  <2>1. Accounts([m EXCEPT !.routes[e] = known])
    <3> HIDE DEF known
    <3> QED BY <1>2, <1>4, <1>5, RouteAccounts
  <2>2. RepeatRoute(m, p, inv, t) = [m EXCEPT !.routes[e] = known]
    BY <1>6 DEF RepeatRoute, r
  <2> QED BY <2>1, <2>2
<1>7. CASE p \notin Providers(r)
  <2>1. RepeatRoute(m, p, inv, t) = n
    BY <1>7 DEF RepeatRoute, r
  <2> HIDE DEF joined
  <2>2. /\ n.routes = [m.routes EXCEPT ![e] = joined]
        /\ n.seen = [m.seen EXCEPT ![e] = extended] /\ n.seenOrder = m.seenOrder
        /\ n.cached = m.cached /\ n.cacheOrder = m.cacheOrder /\ n.cachedBytes = m.cachedBytes
        /\ n.delivered = m.delivered /\ n.deliveredOrder = m.deliveredOrder
        /\ n.pending = m.pending /\ n.pendingCount = m.pendingCount
    BY <1>2 DEF Maps
  <2> HIDE DEF n
  <2>3. Cardinality(joined.alternates) + 1 <= MaxProviders
    <3>1. IsFiniteSet(r.alternates)
      BY <1>3, PeersAssumption, FS_Subset DEF Route
    <3>2. Cardinality(r.alternates) + 1 < MaxProviders
      BY <1>3, <1>7 DEF MayProvide
    <3>3. Cardinality(r.alternates) \in Nat
      BY <3>1, FS_CardinalityType
    <3>4. Cardinality(r.alternates \cup {p}) <= Cardinality(r.alternates) + 1
      <4>1. Cardinality(r.alternates \cup {p}) =
                IF p \in r.alternates THEN Cardinality(r.alternates) ELSE Cardinality(r.alternates) + 1
        BY <3>1, FS_AddElement, Zenon
      <4> QED BY <3>3, <4>1
    <3>5. Cardinality(r.alternates \cup {p}) \in Nat
      BY <3>1, FS_AddElement, FS_CardinalityType
    <3> QED BY <1>5, <3>2, <3>3, <3>4, <3>5, Limits
  <2>4. RouteBook(n.routes)
    BY <1>2, <2>2, <2>3 DEF Accounts, RouteBook, Maps
  <2>5. m.seen[e] > 0
    BY DEF Good, Core, CoherentRoutes, Routed
  <2>6. Live(n.seen) = Live(m.seen)
    BY <1>1, <1>2, <2>2, <2>5 DEF Live, Maps
  <2>7. Line(n.seenOrder, n.seen, Opt.max_seen_events)
    BY <2>2, <2>6 DEF Accounts, Line
  <2>8. Accounts(n)
    BY <2>2, <2>4, <2>7 DEF Accounts
  <2> QED BY <2>1, <2>8
<1> QED
  BY <1>6, <1>7

\* receive_want with a live route: a peer is added and counted only where
\* max_pending_peers_per_event leaves room, and never twice.
LEMMA JoinPendingAccounts ==
    ASSUME NEW m, NEW t \in Nat, NEW p \in Peers, NEW e \in Events, Maps(m), Accounts(m)
    PROVE  Accounts(JoinPending(m, p, e, t))
<1> DEFINE n     == JoinPending(m, p, e, t)
           entry == IF m.pending[e].expires > 0 THEN m.pending[e]
                    ELSE [peers |-> {}, expires |-> t + Opt.route_ttl_ms]
           added == IF Cardinality(entry.peers) < Opt.max_pending_peers_per_event
                    THEN {p} \ entry.peers ELSE {}
           new   == [entry EXCEPT !.peers = entry.peers \cup added]
<1>1. entry \in Pending /\ entry.expires > 0 /\ entry.peers = m.pending[e].peers
  <2>1. m.pending[e] \in Pending /\ (m.pending[e].expires = 0 => m.pending[e].peers = {})
    BY DEF Maps, Accounts, WaitBook
  <2>2. CASE m.pending[e].expires > 0
    BY <2>1, <2>2
  <2>3. CASE ~(m.pending[e].expires > 0)
    <3>1. m.pending[e].expires = 0
      BY <2>1, <2>3 DEF Pending
    <3>2. entry = [peers |-> {}, expires |-> t + Opt.route_ttl_ms]
      BY <2>3
    <3> HIDE DEF entry
    <3> QED BY <2>1, <3>1, <3>2, OptionsNormalised DEF Pending
  <2> QED BY <2>2, <2>3
<1>2. /\ n.pending = [m.pending EXCEPT ![e] = new]
      /\ n.pendingCount = m.pendingCount + Cardinality(added)
      /\ n.cached = m.cached /\ n.cacheOrder = m.cacheOrder /\ n.cachedBytes = m.cachedBytes
      /\ n.seen = m.seen /\ n.seenOrder = m.seenOrder
      /\ n.delivered = m.delivered /\ n.deliveredOrder = m.deliveredOrder /\ n.routes = m.routes
  BY DEF Maps, JoinPending
<1> HIDE DEF n, entry
<1>3. new \in Pending /\ new.expires > 0 /\ new.peers = m.pending[e].peers \cup added
  BY <1>1 DEF Pending
<1>4. /\ Cardinality(entry.peers) \in Nat /\ IsFiniteSet(entry.peers)
      /\ Cardinality(entry.peers) <= Opt.max_pending_peers_per_event
  <2>1. IsFiniteSet(entry.peers)
    BY <1>1, PeersAssumption, FS_Subset DEF Pending
  <2> QED BY <1>1, <2>1, FS_CardinalityType DEF Accounts, WaitBook
<1>5. \/ added = {}
      \/ /\ added = {p} /\ p \notin entry.peers
         /\ Cardinality(entry.peers) < Opt.max_pending_peers_per_event
  OBVIOUS
<1> HIDE DEF added, new
<1>6. \A x \in Events : n.pending[x] = IF x = e THEN new ELSE m.pending[x]
  BY <1>2 DEF Maps
<1>7. n.pending \in [Events -> Pending] /\ m.pending \in [Events -> Pending]
  BY <1>2, <1>3 DEF Maps
<1>8. WaitBook(m.pending, m.pendingCount)
  BY DEF Accounts
<1>9. CASE added = {}
  <2>1. n.pendingCount = m.pendingCount
    <3>1. PeerCount(m.pending, Events) \in Nat
      BY <1>7, WaitersCounted
    <3>2. Cardinality(added) = 0
      BY <1>9, FS_EmptySet
    <3> QED BY <1>2, <1>8, <3>1, <3>2 DEF WaitBook
  <2>2. \A x \in Events : n.pending[x].peers = m.pending[x].peers
    BY <1>3, <1>6, <1>9
  <2>3. Waiters(n.pending, Events) = Waiters(m.pending, Events)
    BY <2>2 DEF Waiters
  <2>4. WaitBook(n.pending, n.pendingCount)
    BY <1>3, <1>6, <1>8, <2>1, <2>2, <2>3 DEF WaitBook, PeerCount
  <2>5. Accounts(n)
    BY <1>2, <2>4 DEF Accounts
  <2> QED BY <2>5 DEF n
<1>10. CASE added # {}
  <2>1. /\ added = {p} /\ p \notin entry.peers
        /\ Cardinality(entry.peers) < Opt.max_pending_peers_per_event
    BY <1>5, <1>10
  <2>2. \A x \in Events : n.pending[x].peers =
            IF x = e THEN m.pending[e].peers \cup {p} ELSE m.pending[x].peers
    BY <1>3, <1>6, <2>1
  <2>3. PeerCount(n.pending, Events) = PeerCount(m.pending, Events) + 1
    <3> DEFINE before == m.pending
               after  == n.pending
    <3>1. p \notin before[e].peers
      BY <1>1, <2>1
    <3>2. before \in [Events -> Pending] /\ after \in [Events -> Pending]
      BY <1>7
    <3>3. \A x \in Events : after[x].peers =
              IF x = e THEN before[e].peers \cup {p} ELSE before[x].peers
      BY <2>2
    <3> HIDE DEF before, after
    <3>4. PeerCount(after, Events) = PeerCount(before, Events) + 1
      BY <3>1, <3>2, <3>3, WaiterAdded
    <3> QED BY <3>4 DEF before, after
  <2>4. Cardinality(added) = 1
    BY <2>1, FS_Singleton
  <2>5. n.pendingCount = PeerCount(n.pending, Events)
    BY <1>2, <1>8, <2>3, <2>4 DEF WaitBook
  <2>6. Cardinality(entry.peers \cup {p}) = Cardinality(entry.peers) + 1
    BY <1>4, <2>1, FS_AddElement
  <2>7. Cardinality(new.peers) <= Opt.max_pending_peers_per_event
    BY <1>1, <1>3, <1>4, <2>1, <2>6, Limits
  <2>8. WaitBook(n.pending, n.pendingCount)
    <3>1. new.expires # 0
      BY <1>3 DEF Pending
    <3>2. \A x \in Events : /\ Cardinality(n.pending[x].peers) <= Opt.max_pending_peers_per_event
                            /\ n.pending[x].expires = 0 => n.pending[x].peers = {}
      BY <1>6, <1>8, <2>7, <3>1 DEF WaitBook
    <3> QED BY <2>5, <3>2 DEF WaitBook
  <2>9. Accounts(n)
    BY <1>2, <2>8 DEF Accounts
  <2> QED BY <2>9 DEF n
<1> QED
  BY <1>9, <1>10

\* receive_frame, when it accepts: store, close, remember, forget the waiters.
LEMMA AcceptAccounts ==
    ASSUME NEW m, NEW t \in Nat, NEW e \in Events, Ready(m, t), Accounts(m), ValidEvent(e)
    PROVE  Accounts(AcceptFrame(m, e, t))
<1> DEFINE s == StoreEvent(m, e, t)
           c == CloseRoute(s, e)
           d == RememberDelivered(c, e, t)
           n == IF IsNewDelivery(c, e) THEN d ELSE c
<1>1. Ready(s, t) /\ Maps(s) /\ Good(s, t)
  BY StoreReady DEF Ready, Good, Core
<1>2. Accounts(s)
  BY StoreAccounts DEF Ready, Good, Core
<1> HIDE DEF s
<1>3. Accounts(c) /\ Maps(c) /\ Core(c, t) /\ \A x \in Events : ExpiriesOf(c, x) = ExpiriesOf(s, x)
  BY <1>1, <1>2, CloseAccounts, CloseGood
<1>4. Fresh(c, t)
  BY <1>1, <1>3 DEF Ready, Fresh
<1> HIDE DEF c
<1>5. Maps(d)
  BY <1>3, <1>4, DeliveredCore DEF Core
<1>6. IsNewDelivery(c, e) => Accounts(d)
  BY <1>3, DeliveredAccounts DEF IsNewDelivery
<1>7. Accounts(n) /\ Maps(n)
  BY <1>3, <1>5, <1>6
<1> HIDE DEF n
<1>8. Accounts(RemovePending(n, {e}))
  BY <1>7, RemovePendingAccounts
<1> QED
  BY <1>8 DEF AcceptFrame, n, d, c, s

-----------------------------------------------------------------------------
(* Every call keeps the books *)

AInv == IInv /\ Accounts(mesh)

\* An empty mesh has empty books.
LEMMA InitAccounts == Init => AInv
<1> SUFFICES ASSUME Init PROVE AInv
  OBVIOUS
<1>1. /\ mesh.cached = Absent /\ mesh.seen = Absent /\ mesh.delivered = Absent
      /\ mesh.cacheOrder = <<>> /\ mesh.seenOrder = <<>> /\ mesh.deliveredOrder = <<>>
      /\ mesh.cachedBytes = 0 /\ mesh.pendingCount = 0
      /\ mesh.routes = [e \in Events |-> NoRoute] /\ mesh.pending = [e \in Events |-> NoPending]
  BY DEF Init, EmptyMesh
<1>2. Live(Absent) = {}
  BY DEF Live, Absent
<1>3. \A max \in Nat : Line(<<>>, Absent, max)
  BY <1>2 DEF Line, IsInjective, ToSet
<1>4. CacheBook(mesh.cached, mesh.cacheOrder, mesh.cachedBytes)
  BY <1>1, <1>2, <1>3, Limits, BytesAdd DEF CacheBook
<1>5. Line(mesh.seenOrder, mesh.seen, Opt.max_seen_events) /\ Line(mesh.deliveredOrder, mesh.delivered, Opt.max_seen_events)
  BY <1>1, <1>3, Limits
<1>6. WaitBook(mesh.pending, mesh.pendingCount)
  <2>1. \A e \in Events : mesh.pending[e].peers = {}
    BY <1>1 DEF NoPending
  <2>2. Waiters(mesh.pending, Events) = {}
    BY <2>1 DEF Waiters
  <2>3. PeerCount(mesh.pending, Events) = 0
    BY <2>2, FS_EmptySet DEF PeerCount
  <2>4. \A e \in Events : Cardinality(mesh.pending[e].peers) <= Opt.max_pending_peers_per_event
    BY <2>1, Limits, FS_EmptySet
  <2> QED BY <1>1, <2>1, <2>3, <2>4 DEF WaitBook
<1>7. RouteBook(mesh.routes)
  <2>1. \A e \in Events : mesh.routes[e].alternates = {}
    BY <1>1 DEF NoRoute
  <2> QED BY <2>1, Limits, FS_EmptySet DEF RouteBook
<1> QED
  BY <1>4, <1>5, <1>6, <1>7, InitIInv DEF AInv, Accounts

\* Every call that prunes starts from pruned books.
LEMMA CurrentAccounts ==
    ASSUME AInv
    PROVE  Ready(Current, now) /\ Good(Current, now) /\ Maps(Current) /\ Accounts(Current) /\ now \in Nat
<1>1. Ready(Current, now)
  BY CurrentReady DEF AInv
<1>2. Accounts(Current)
  BY PruneAccounts DEF AInv, IInv, Good, Core, Current
<1> QED
  BY <1>1, <1>2 DEF Ready, Good, Core, AInv, IInv

\* The local calls keep the books.
LEMMA LocalCallAccounts ==
    ASSUME AInv, LocalCall
    PROVE  Accounts(mesh')
<1>1. Ready(Current, now) /\ Good(Current, now) /\ Maps(Current) /\ Accounts(Current) /\ now \in Nat
  BY CurrentAccounts
<1>0. now \in Nat /\ Good(mesh, now) /\ Maps(mesh) /\ Accounts(mesh)
  BY DEF AInv, IInv, Good, Core
<1>2. ASSUME NEW e \in Events, NEW peers \in PeerLists, Publish(e, peers) PROVE Accounts(mesh')
  <2> DEFINE s == StoreEvent(Current, e, now)
  <2>1. Ready(s, now) /\ Maps(s)
    BY <1>1, StoreReady DEF Ready, Good, Core
  <2>2. Accounts(s)
    BY <1>1, <1>2, StoreAccounts DEF Publish
  <2>3. \/ mesh' = s
        \/ mesh' = RememberInventory(s, e, now) /\ IsNewInventory(s, e, now)
    BY <1>2 DEF Publish, Return
  <2> HIDE DEF s
  <2>4. ASSUME IsNewInventory(s, e, now) PROVE Accounts(RememberInventory(s, e, now))
    <3>1. s.seen[e] = 0
      BY <2>1, <2>4 DEF Ready, Good, Core, Maps, Fresh, ExpiriesOf, IsNewInventory
    <3> QED BY <1>1, <2>1, <2>2, <3>1, RememberAccounts
  <2> QED BY <2>2, <2>3, <2>4
<1>3. ASSUME NEW e \in Events, SeedVerified(e) PROVE Accounts(mesh')
  BY <1>1, <1>3, StoreAccounts DEF SeedVerified, Return
<1>4. ASSUME NEW e \in Events, NEW p \in Peers, ReplayToPeer(e, p) PROVE Accounts(mesh')
  BY <1>1, <1>4, StoreAccounts DEF ReplayToPeer, Return
<1>5. ASSUME NEW p \in Peers, ReplayCachedToPeer(p) PROVE Accounts(mesh')
  BY <1>1, <1>5 DEF ReplayCachedToPeer, Reply, Return
<1>6. ASSUME Maintain PROVE Accounts(mesh')
  BY <1>1, <1>6 DEF Maintain, Reply, Return
<1>7. ASSUME NEW p \in Peers, RecordInvalidMessage(p) PROVE Accounts(mesh')
  BY <1>0, <1>7 DEF RecordInvalidMessage, Return
<1>8. ASSUME NEW p \in Peers, NEW e \in Events, DismissFrame(p, e) PROVE Accounts(mesh')
  <2>1. Accounts(CloseRoute(mesh, e)) /\ Maps(CloseRoute(mesh, e))
    BY <1>0, CloseAccounts
  <2>2. Accounts(RemovePending(CloseRoute(mesh, e), {e}))
    BY <2>1, RemovePendingAccounts
  <2> QED BY <1>8, <2>2 DEF DismissFrame, Return
<1>9. ASSUME NEW p \in Peers, NEW e \in Events, RecordTransportDisruption(p, e) PROVE Accounts(mesh')
  <2> DEFINE r == [mesh.routes[e] EXCEPT !.disrupted = @ \cup {p}]
  <2>1. r \in Route /\ r.alternates = mesh.routes[e].alternates
    BY <1>0 DEF Maps, Route
  <2>2. mesh' = [mesh EXCEPT !.routes[e] = r]
    BY <1>9 DEF RecordTransportDisruption, Return
  <2>3. Cardinality(r.alternates) + 1 <= MaxProviders
    BY <1>0, <2>1 DEF Accounts, RouteBook
  <2> HIDE DEF r
  <2> QED BY <1>0, <2>1, <2>2, <2>3, RouteAccounts
<1> QED
  BY <1>2, <1>3, <1>4, <1>5, <1>6, <1>7, <1>8, <1>9 DEF LocalCall

\* Received inventories keep the books.
LEMMA ReceiveInventoryAccounts ==
    ASSUME AInv, ReceiveInventory
    PROVE  Accounts(mesh')
<1>1. Ready(Current, now) /\ Good(Current, now) /\ Maps(Current) /\ Accounts(Current) /\ now \in Nat
  BY CurrentAccounts
<1>2. PICK p \in Peers, inv \in Announcements :
         \/ RefuseInventory(p, inv) \/ IgnoreInventory(p, inv) \/ AskFirstProvider(p, inv)
         \/ RefuseChangedInventory(p, inv) \/ AskAnotherProvider(p, inv)
         \/ TurnAwayProvider(p, inv)
  BY DEF ReceiveInventory
<1>3. CASE RefuseInventory(p, inv) \/ IgnoreInventory(p, inv) \/ RefuseChangedInventory(p, inv)
  BY <1>1, <1>3
     DEF RefuseInventory, IgnoreInventory, RefuseChangedInventory, Refuse, Reply, Return
<1>4. CASE AskFirstProvider(p, inv)
  <2>1. inv.event \in Events /\ IsNewInventory(Current, inv.event, now)
    BY <1>4, InputsAssumption DEF AskFirstProvider, FirstInventory, InvalidInventory
  <2>2. Accounts(OpenRoute(Current, p, inv, now))
    BY <1>1, <2>1, OpenRouteAccounts
  <2> QED BY <1>4, <2>2 DEF AskFirstProvider, Return
<1>5. CASE AskAnotherProvider(p, inv)
  <2>1. /\ inv.event \in Events /\ inv.event \in Routed(Current)
        /\ MayProvide(Current.routes[inv.event], p)
    BY <1>5 DEF AskAnotherProvider, RepeatedInventory, Routed
  <2>2. Accounts(RepeatRoute(Current, p, inv, now))
    BY <1>1, <2>1, RepeatRouteAccounts
  <2> QED BY <1>5, <2>2 DEF AskAnotherProvider, Return
<1>6. CASE TurnAwayProvider(p, inv)
  <2> DEFINE e == inv.event
             r == RaiseHop(Current.routes[e], inv.hop)
  <2>1. e \in Events
    BY <1>6 DEF TurnAwayProvider, RepeatedInventory, Routed
  <2>2. Current.routes[e] \in Route /\ inv.hop \in Nat
    BY <1>1, <2>1, InputsAssumption DEF Maps
  <2>3. r \in Route /\ r.alternates = Current.routes[e].alternates
    BY <2>2, RaiseHopRoute DEF RaiseHop, Route
  <2>4. mesh' = [Current EXCEPT !.routes[e] = r]
    BY <1>6 DEF TurnAwayProvider, Return
  <2>5. Cardinality(r.alternates) + 1 <= MaxProviders
    BY <1>1, <2>1, <2>3 DEF Accounts, RouteBook
  <2> HIDE DEF r, e
  <2> QED BY <1>1, <2>1, <2>3, <2>4, <2>5, RouteAccounts
<1> QED
  BY <1>2, <1>3, <1>4, <1>5, <1>6

\* Received wants and frames keep the books.
LEMMA ReceiveAccounts ==
    ASSUME AInv, ReceiveWant \/ ReceiveFrame
    PROVE  Accounts(mesh')
<1>1. Ready(Current, now) /\ Good(Current, now) /\ Maps(Current) /\ Accounts(Current) /\ now \in Nat
  BY CurrentAccounts
<1>2. ASSUME NEW p \in Peers, RefuseWant(p) PROVE Accounts(mesh')
  BY <1>1, <1>2 DEF RefuseWant, Refuse, Return
<1>3. ASSUME NEW p \in Peers, NEW e \in Events, ServeWant(p, e) \/ IgnoreWant(p, e) PROVE Accounts(mesh')
  BY <1>1, <1>3 DEF ServeWant, IgnoreWant, Reply, Return
<1>4. ASSUME NEW p \in Peers, NEW e \in Events, RetainWant(p, e) PROVE Accounts(mesh')
  <2>1. AlreadyForwarded(JoinPending(Current, p, e, now), e, now)
    BY <1>1, <1>4, WantAlreadyForwarded DEF RetainWant
  <2>2. Accounts(JoinPending(Current, p, e, now))
    BY <1>1, JoinPendingAccounts
  <2> QED BY <1>4, <2>1, <2>2 DEF RetainWant, Return
<1>5. ASSUME NEW p \in Peers, NEW id \in Events \cup {MalformedId},
             NEW body \in Events \cup {Forged}, RefuseFrame(p, id, body)
      PROVE  Accounts(mesh')
  BY <1>1, <1>5 DEF RefuseFrame, Refuse, Return
<1>6. ASSUME NEW p \in Peers, NEW e \in Events, AbsorbFrame(p, e) PROVE Accounts(mesh')
  BY <1>1, <1>6 DEF AbsorbFrame, Reply, Return
<1>7. ASSUME NEW p \in Peers, NEW e \in Events, NEW peers \in PeerLists,
             AcceptFrameFrom(p, e, peers)
      PROVE  Accounts(mesh')
  <2>1. ValidEvent(e) /\ mesh' = AcceptFrame(Current, e, now)
    BY <1>7 DEF AcceptFrameFrom, ValidFrame
  <2> QED BY <1>1, <2>1, AcceptAccounts
<1> QED
  BY <1>2, <1>3, <1>4, <1>5, <1>6, <1>7 DEF ReceiveWant, ReceiveFrame

\* Every step of the mesh keeps the books.
LEMMA NextAccounts == AInv /\ [Next]_vars => AInv'
<1> SUFFICES ASSUME AInv, [Next]_vars PROVE AInv'
  OBVIOUS
<1>1. IInv'
  BY NextIInv DEF AInv
<1>2. Accounts(mesh')
  <2>1. CASE Tick
    BY <2>1 DEF Tick, AInv
  <2>2. CASE UNCHANGED vars
    BY <2>2 DEF vars, AInv
  <2> QED BY <2>1, <2>2, LocalCallAccounts, ReceiveInventoryAccounts, ReceiveAccounts DEF Next
<1> QED
  BY <1>1, <1>2 DEF AInv

\* The books imply Accounted.
LEMMA AccountsAccounted ==
    ASSUME AInv
    PROVE  Accounted
<1>0. Maps(mesh)
  BY DEF AInv, IInv, Good, Core
<1>1. /\ CacheBook(mesh.cached, mesh.cacheOrder, mesh.cachedBytes)
      /\ Line(mesh.seenOrder, mesh.seen, Opt.max_seen_events)
      /\ Line(mesh.deliveredOrder, mesh.delivered, Opt.max_seen_events)
      /\ WaitBook(mesh.pending, mesh.pendingCount)
      /\ RouteBook(mesh.routes)
  BY DEF AInv, Accounts
<1>2. /\ Enumerates(mesh.cacheOrder, mesh.cached) /\ Enumerates(mesh.seenOrder, mesh.seen)
      /\ Enumerates(mesh.deliveredOrder, mesh.delivered)
  BY <1>1, LineEnumerates DEF CacheBook
<1>3. ASSUME NEW e \in Routed(mesh)
      PROVE  Cardinality(Providers(mesh.routes[e])) <= MaxProviders
  <2> DEFINE alternates == mesh.routes[e].alternates
             first      == mesh.routes[e].peer
  <2>1. e \in Events
    BY DEF Routed
  <2>2. IsFiniteSet(alternates)
    BY <1>0, <2>1, PeersAssumption, FS_Subset DEF Maps, Route
  <2>3. Cardinality(alternates) + 1 <= MaxProviders
    BY <1>1, <2>1 DEF RouteBook
  <2>4. Providers(mesh.routes[e]) = alternates \cup {first}
    BY DEF Providers
  <2> HIDE DEF alternates, first
  <2>5. Cardinality(alternates) \in Nat
    BY <2>2, FS_CardinalityType
  <2>6. Cardinality(alternates \cup {first}) =
            IF first \in alternates THEN Cardinality(alternates) ELSE Cardinality(alternates) + 1
    BY <2>2, FS_AddElement, Zenon
  <2>7. Cardinality(alternates \cup {first}) <= MaxProviders
    BY <2>3, <2>5, <2>6, Limits
  <2> QED BY <2>4, <2>7
<1> QED
  BY <1>1, <1>2, <1>3 DEF Accounted, CacheBook, Line, WaitBook

\* The books always balance: every eviction queue lists its map's keys once,
\* the running totals are the sums they stand for, and no limit of the options
\* is ever exceeded (store_event, remember_inventory, remember_delivered,
\* remove_pending_event, prune).
THEOREM BooksAlwaysBalance == Spec => []Accounted
<1>1. AInv => Accounted
  BY AccountsAccounted
<1> QED
  BY <1>1, InitAccounts, NextAccounts, PTL DEF Spec

-----------------------------------------------------------------------------
(* Delivery records *)

\* Everything queued after e is in S.
Later(order, e, S) ==
    \A i \in 1..Len(order) : \A j \in 1..Len(order) : i < j /\ order[i] = e => order[j] \in S

\* While a delivery is within its window and fewer than max_seen_events other
\* events were delivered since, its record is still there, and only those
\* events are queued behind it.
Held(rec, t) == rec.count # 0 /\ t < rec.until /\ Cardinality(rec.since) < Opt.max_seen_events

Recorded(delivered, order, rec, e, t) ==
    /\ rec.count <= 1
    /\ rec.count = 0 => rec.until = 0
    /\ Held(rec, t) => delivered[e] = rec.until /\ Later(order, e, rec.since)

ServedType == [until : Nat, count : 0..2, since : SUBSET Events]

Ledger(m, records, t) ==
    /\ records \in [Events -> ServedType]
    /\ \A e \in Events : Recorded(m.delivered, m.deliveredOrder, records[e], e, t)

\* Retaining entries of the queue keeps their order.
LEMMA LaterRetained ==
    ASSUME NEW order \in Seq(Events), NEW keep, NEW e, NEW S, Later(order, e, S)
    PROVE  Later(Only(order, keep), e, S)
<1> DEFINE kept == Only(order, keep)
<1>1. kept \in Seq(Events) /\ \E h : Places(h, kept, order, keep, Len(order))
  BY OnlyPlaces
<1>2. PICK h : Places(h, kept, order, keep, Len(order))
  BY <1>1
<1> HIDE DEF kept
<1>3. SUFFICES ASSUME NEW i \in 1..Len(kept), NEW j \in 1..Len(kept), i < j, kept[i] = e
               PROVE  kept[j] \in S
  BY DEF Later, kept
<1>4. /\ h[i] \in 1..Len(order) /\ h[j] \in 1..Len(order) /\ h[i] < h[j]
      /\ kept[i] = order[h[i]] /\ kept[j] = order[h[j]]
  BY <1>2, <1>3 DEF Places
<1> QED
  BY <1>3, <1>4 DEF Later

\* prune drops no record that is still within its window.
LEMMA LedgerPruned ==
    ASSUME NEW m, NEW records, NEW t \in Nat, Maps(m), Accounts(m), Ledger(m, records, t)
    PROVE  Ledger(Prune(m, t), records, t)
<1> SUFFICES ASSUME PruneDue(m, t) PROVE Ledger(Pruned(m, t), records, t)
  BY DEF Prune
<1> DEFINE p == Pruned(m, t)
<1>1. p.delivered = Retain(m.delivered, t) /\ p.deliveredOrder = Only(m.deliveredOrder, Live(p.delivered))
  BY DEF Pruned, Unexpired, RetainOrder
<1> HIDE DEF p
<1>2. ASSUME NEW e \in Events, Held(records[e], t)
      PROVE  p.delivered[e] = records[e].until /\ Later(p.deliveredOrder, e, records[e].since)
  <2>1. m.delivered[e] = records[e].until /\ Later(m.deliveredOrder, e, records[e].since)
    BY <1>2 DEF Ledger, Recorded
  <2>2. records[e].until > t
    BY <1>2 DEF Held, Ledger, ServedType
  <2>3. p.delivered[e] = records[e].until
    BY <1>1, <2>1, <2>2 DEF Retain, Maps
  <2>4. Later(p.deliveredOrder, e, records[e].since)
    BY <1>1, <2>1, LaterRetained DEF Accounts, Line
  <2> QED BY <2>3, <2>4
<1>3. Ledger(p, records, t)
  BY <1>2 DEF Ledger, Recorded
<1> QED
  BY <1>3 DEF p

\* An event whose delivery is still within its window and had room has a
\* record, so it is not delivered again.
LEMMA NotDeliveredAgain ==
    ASSUME NEW m, NEW records, NEW t \in Nat, NEW e \in Events, Ledger(m, records, t),
           m.delivered[e] = 0
    PROVE  ~(t < records[e].until /\ Cardinality(records[e].since) < Opt.max_seen_events)
<1>1. records[e] \in ServedType /\ Recorded(m.delivered, m.deliveredOrder, records[e], e, t)
  BY DEF Ledger
<1> QED
  BY <1>1 DEF Recorded, Held, ServedType

\* A record is evicted only after max_seen_events later deliveries: the oldest
\* entry goes when the queue is full, and everything behind it is later.
LEMMA HeldNotEvicted ==
    ASSUME NEW m, Accounts(m), NEW e \in Events, m.delivered[e] = 0,
           NEW i \in 1..Len(m.deliveredOrder), NEW S \in SUBSET Events,
           Later(m.deliveredOrder, m.deliveredOrder[i], S),
           Cardinality(S \cup {e}) < Opt.max_seen_events
    PROVE  i > EvictionCount(m.deliveredOrder, Live(m.delivered), Opt.max_seen_events)
<1> DEFINE order == m.deliveredOrder
           live  == Live(m.delivered)
           max   == Opt.max_seen_events
           k     == EvictionCount(order, live, max)
<1>1. Line(order, m.delivered, max) /\ max \in Nat /\ max > 0
  BY Limits DEF Accounts
<1>2. k \in 0..Len(order) /\ k <= 1 /\ (Len(order) < max => k = 0)
  BY <1>1, EvictionMakesRoom
<1>3. order \in Seq(Events) /\ IsInjective(order) /\ ToSet(order) = live /\ Len(order) <= max
  BY <1>1 DEF Line
<1>4. e \notin live
  BY DEF Live
<1> HIDE DEF max, k, live
<1>5. SUFFICES ASSUME ~(i > k) PROVE FALSE
  BY DEF max, k, live
<1>6. i = 1 /\ k = 1 /\ Len(order) = max
  BY <1>1, <1>2, <1>3, <1>5
<1> DEFINE rest == SubSeq(order, 2, Len(order))
<1>7. /\ rest \in Seq(Events) /\ IsInjective(rest) /\ Len(rest) = max - 1
      /\ \A j \in 1..(max - 1) : rest[j] = order[j + 1]
      /\ ToSet(rest) \subseteq live
  <2>1. 1 \in 0..Len(order)
    BY <1>1, <1>6
  <2>2. /\ SubSeq(order, 1 + 1, Len(order)) \in Seq(Events)
        /\ IsInjective(SubSeq(order, 1 + 1, Len(order)))
        /\ Len(SubSeq(order, 1 + 1, Len(order))) = Len(order) - 1
        /\ \A j \in 1..(Len(order) - 1) : SubSeq(order, 1 + 1, Len(order))[j] = order[j + 1]
        /\ ToSet(SubSeq(order, 1 + 1, Len(order))) = ToSet(order) \ ToSet(SubSeq(order, 1, 1))
    BY <1>3, <2>1, DistinctPrefix
  <2>3. 1 + 1 = 2
    OBVIOUS
  <2> QED BY <1>3, <1>6, <2>2, <2>3
<1> HIDE DEF rest
<1>8. ToSet(rest) \subseteq S
  <2> SUFFICES ASSUME NEW j \in 1..(max - 1) PROVE rest[j] \in S
    BY <1>7 DEF ToSet
  <2>1. j + 1 \in 1..Len(order) /\ i < j + 1
    BY <1>1, <1>6
  <2>2. order[j + 1] \in S
    BY <2>1 DEF Later
  <2> QED BY <1>7, <2>2
<1>9. IsFiniteSet(ToSet(rest)) /\ Cardinality(ToSet(rest)) = max - 1
  BY <1>7, DistinctCardinality
<1>10. Cardinality(ToSet(rest) \cup {e}) = max
  <2>1. e \notin ToSet(rest)
    BY <1>4, <1>7
  <2>2. Cardinality(ToSet(rest) \cup {e}) = Cardinality(ToSet(rest)) + 1
    BY <1>9, <2>1, FS_AddElement
  <2> QED BY <1>1, <1>9, <2>2
<1>11. IsFiniteSet(S \cup {e})
  BY EventsAssumption, FS_Subset
<1>12. ToSet(rest) \cup {e} \in SUBSET (S \cup {e})
  BY <1>8
<1>13. Cardinality(ToSet(rest) \cup {e}) <= Cardinality(S \cup {e}) /\ Cardinality(S \cup {e}) \in Nat
  BY <1>11, <1>12, FS_Subset, FS_CardinalityType
<1> QED
  BY <1>1, <1>10, <1>13 DEF max

\* What a delivery of e at time t leaves in the ledger.
Noted(records, after, e, t) ==
    /\ after \in [Events -> ServedType]
    /\ after[e].until = t + Opt.event_ttl_ms /\ after[e].count = 1
    /\ \A f \in Events \ {e} :
          /\ after[f].until = records[f].until /\ after[f].count = records[f].count
          /\ records[f].count # 0 => after[f].since = records[f].since \cup {e}

\* remember_delivered makes room at the old end of the queue only.
LEMMA LedgerDelivered ==
    ASSUME NEW m, NEW records, NEW after, NEW t \in Nat, NEW e \in Events, Maps(m), Accounts(m),
           Ledger(m, records, t), m.delivered[e] = 0, Noted(records, after, e, t)
    PROVE  Ledger(RememberDelivered(m, e, t), after, t)
<1> DEFINE order  == m.deliveredOrder
           k      == EvictionCount(order, Live(m.delivered), Opt.max_seen_events)
           gone   == Prefix(order, k)
           rest   == DropPrefix(order, k)
           expiry == t + Opt.event_ttl_ms
           n      == RememberDelivered(m, e, t)
<1>1. Line(order, m.delivered, Opt.max_seen_events) /\ Opt.max_seen_events \in Nat /\ Opt.max_seen_events > 0
  BY Limits DEF Accounts
<1>2. k \in 0..Len(order)
  BY <1>1, EvictionMakesRoom
<1>3. /\ n.delivered = [Without(m.delivered, gone) EXCEPT ![e] = expiry]
      /\ n.deliveredOrder = Append(rest, e)
  BY DEF Maps, RememberDelivered
<1>4. order \in Seq(Events) /\ IsInjective(order) /\ ToSet(order) = Live(m.delivered)
  BY <1>1 DEF Line
<1>5. /\ rest \in Seq(Events) /\ Len(rest) = Len(order) - k
      /\ \A i \in 1..(Len(order) - k) : rest[i] = order[i + k]
      /\ gone = {order[i] : i \in 1..k}
      /\ ToSet(rest) \subseteq Live(m.delivered)
  <2> HIDE DEF k
  <2>1. /\ SubSeq(order, k + 1, Len(order)) \in Seq(Events)
        /\ Len(SubSeq(order, k + 1, Len(order))) = Len(order) - k
        /\ \A i \in 1..(Len(order) - k) : SubSeq(order, k + 1, Len(order))[i] = order[i + k]
        /\ ToSet(SubSeq(order, k + 1, Len(order))) = ToSet(order) \ ToSet(SubSeq(order, 1, k))
        /\ ToSet(SubSeq(order, 1, k)) = {order[i] : i \in 1..k}
    BY <1>2, <1>4, DistinctPrefix
  <2> QED BY <1>4, <2>1 DEF Prefix, DropPrefix
<1>6. e \notin ToSet(rest)
  BY <1>5 DEF Live
<1> HIDE DEF k, gone, rest, n
<1>7. /\ Append(rest, e) \in Seq(Events) /\ Len(Append(rest, e)) = Len(rest) + 1
      /\ Append(rest, e)[Len(rest) + 1] = e
      /\ \A i \in 1..Len(rest) : Append(rest, e)[i] = rest[i]
  BY <1>5
<1>8. ASSUME NEW f \in Events, Held(after[f], t)
      PROVE  n.delivered[f] = after[f].until /\ Later(n.deliveredOrder, f, after[f].since)
  <2>1. CASE f = e
    <3>1. n.delivered[f] = after[f].until
      BY <1>3, <2>1 DEF Without, Noted, Maps
    <3>2. \A i \in 1..Len(rest) : rest[i] # e
      BY <1>5, <1>6 DEF ToSet
    <3>3. Later(Append(rest, e), e, after[f].since)
      BY <1>5, <1>7, <3>2 DEF Later
    <3> QED BY <1>3, <2>1, <3>1, <3>3
  <2>2. CASE f # e
    <3> DEFINE since == records[f].since
    <3>1. /\ records[f] \in ServedType /\ after[f].until = records[f].until
          /\ records[f].count # 0 /\ after[f].since = since \cup {e}
          /\ t < records[f].until /\ Cardinality(since \cup {e}) < Opt.max_seen_events
      <4>1. records[f] \in ServedType
        BY DEF Ledger
      <4>2. /\ after[f].until = records[f].until /\ after[f].count = records[f].count
            /\ records[f].count # 0 => after[f].since = since \cup {e}
        BY <2>2 DEF Noted
      <4>3. /\ after[f].count # 0 /\ t < after[f].until
            /\ Cardinality(after[f].since) < Opt.max_seen_events
        BY <1>8 DEF Held
      <4> QED BY <4>1, <4>2, <4>3
    <3>2. since \in SUBSET Events
      BY <3>1 DEF ServedType
    <3> HIDE DEF since
    <3>3. Cardinality(since) < Opt.max_seen_events
      <4>1. IsFiniteSet(since \cup {e}) /\ since \in SUBSET (since \cup {e})
        BY <3>2, EventsAssumption, FS_Subset
      <4>2. /\ Cardinality(since) <= Cardinality(since \cup {e})
            /\ Cardinality(since) \in Nat /\ Cardinality(since \cup {e}) \in Nat
        BY <4>1, FS_Subset, FS_CardinalityType
      <4> QED BY <1>1, <3>1, <4>2
    <3>4. Held(records[f], t)
      BY <3>1, <3>3 DEF Held, since
    <3>5. m.delivered[f] = records[f].until /\ Later(order, f, since)
      BY <3>4 DEF Ledger, Recorded, since
    <3>6. f \in ToSet(order)
      BY <1>4, <3>1, <3>5 DEF Live, ServedType
    <3>7. PICK i \in 1..Len(order) : order[i] = f
      BY <1>4, <3>6 DEF ToSet
    <3>8. i > k
      BY <3>1, <3>2, <3>5, <3>7, HeldNotEvicted DEF k
    <3>9. f \notin gone
      <4> SUFFICES ASSUME NEW j \in 1..k, order[j] = f PROVE FALSE
        BY <1>5
      <4>1. j \in 1..Len(order) /\ j # i
        BY <1>2, <3>8
      <4>2. order[j] = order[i]
        BY <3>7
      <4> QED BY <1>4, <4>1, <4>2 DEF IsInjective
    <3>10. n.delivered[f] = after[f].until
      BY <1>3, <2>2, <3>1, <3>5, <3>9 DEF Without, Maps
    <3>11. Later(Append(rest, e), f, since \cup {e})
      <4> SUFFICES ASSUME NEW a \in 1..Len(Append(rest, e)), NEW b \in 1..Len(Append(rest, e)),
                          a < b, Append(rest, e)[a] = f
                   PROVE  Append(rest, e)[b] \in since \cup {e}
        BY DEF Later
      <4>1. CASE b = Len(rest) + 1
        BY <1>7, <4>1
      <4>2. CASE b # Len(rest) + 1
        <5>1. Len(rest) \in Nat /\ Len(order) \in Nat /\ k \in Nat
          BY <1>2, <1>4, <1>5
        <5>2. a \in 1..Len(rest) /\ b \in 1..Len(rest)
          BY <1>7, <4>2, <5>1
        <5>3. /\ a + k \in 1..Len(order) /\ b + k \in 1..Len(order) /\ a + k < b + k
              /\ rest[a] = order[a + k] /\ rest[b] = order[b + k]
          BY <1>5, <5>1, <5>2
        <5>4. order[b + k] \in since
          BY <1>7, <3>5, <5>2, <5>3 DEF Later
        <5> QED BY <1>7, <5>2, <5>3, <5>4
      <4> QED BY <4>1, <4>2
    <3> QED BY <1>3, <3>1, <3>10, <3>11
  <2> QED BY <2>1, <2>2
<1>9. ASSUME NEW f \in Events
      PROVE  after[f].count <= 1 /\ (after[f].count = 0 => after[f].until = 0)
  <2>1. CASE f = e
    BY <2>1 DEF Noted
  <2>2. CASE f # e
    BY <2>2 DEF Noted, Ledger, Recorded
  <2> QED BY <2>1, <2>2
<1>10. Ledger(n, after, t)
  BY <1>8, <1>9 DEF Ledger, Recorded, Noted
<1> QED
  BY <1>10 DEF n

-----------------------------------------------------------------------------
(* Every call keeps the delivery records *)

\* n has the delivery records of m.
SameRecords(m, n) == n.delivered = m.delivered /\ n.deliveredOrder = m.deliveredOrder

\* Only prune and remember_delivered touch the delivery records.
LEMMA RecordsUntouched ==
    ASSUME NEW m, Maps(m), NEW t, NEW e \in Events, NEW S, NEW p
    PROVE  /\ SameRecords(m, StoreEvent(m, e, t))
           /\ SameRecords(m, RemovePending(m, S))
           /\ SameRecords(m, RememberInventory(m, e, t))
           /\ SameRecords(m, CloseRoute(m, e))
           /\ SameRecords(m, JoinPending(m, p, e, t))
           /\ \A r : SameRecords(m, [m EXCEPT !.routes[e] = r])
<1>1. SameRecords(m, StoreEvent(m, e, t))
  BY DEF Maps, SameRecords, StoreEvent
<1>2. ASSUME NEW T PROVE SameRecords(m, RemovePending(m, T))
  BY DEF Maps, SameRecords, RemovePending
<1>3. SameRecords(m, RememberInventory(m, e, t))
  <2> DEFINE k == IF m.seen[e] > 0 THEN 0
                  ELSE EvictionCount(m.seenOrder, Live(m.seen), Opt.max_seen_events)
             g == Prefix(m.seenOrder, k)
             q == RemovePending(m, g)
  <2>1. Maps(q) /\ SameRecords(m, q)
    BY <1>2, RemovePendingFields
  <2>2. RememberInventory(m, e, t) = [q EXCEPT
            !.seen = [Without(m.seen, g) EXCEPT ![e] = t + Opt.route_ttl_ms],
            !.seenOrder = IF m.seen[e] > 0 THEN m.seenOrder ELSE Append(DropPrefix(m.seenOrder, k), e),
            !.routes = [x \in Events |-> IF x \in g THEN NoRoute ELSE m.routes[x]],
            !.wantForwarded = Without(m.wantForwarded, g),
            !.nextPrune = TrackExpiry(m.nextPrune, t + Opt.route_ttl_ms)]
    BY DEF RememberInventory
  <2> HIDE DEF q, g, k
  <2> QED BY <2>1, <2>2 DEF Maps, SameRecords
<1>4. SameRecords(m, CloseRoute(m, e))
  BY DEF Maps, SameRecords, CloseRoute
<1>5. SameRecords(m, JoinPending(m, p, e, t))
  BY DEF Maps, SameRecords, JoinPending
<1>6. ASSUME NEW r PROVE SameRecords(m, [m EXCEPT !.routes[e] = r])
  BY DEF Maps, SameRecords
<1> QED
  BY <1>1, <1>2, <1>3, <1>4, <1>5, <1>6

\* Opening and extending a route do not touch the delivery records either.
LEMMA RouteRecords ==
    ASSUME NEW m, NEW t \in Nat, NEW p, NEW inv, inv.event \in Events, Maps(m),
           Maps(RememberInventory(m, inv.event, t))
    PROVE  /\ SameRecords(m, OpenRoute(m, p, inv, t))
           /\ SameRecords(m, RepeatRoute(m, p, inv, t))
<1>1. SameRecords(m, RepeatRoute(m, p, inv, t))
  BY DEF Maps, SameRecords, RepeatRoute
<1>2. SameRecords(m, RememberInventory(m, inv.event, t))
  BY RecordsUntouched
<1>3. SameRecords(RememberInventory(m, inv.event, t), OpenRoute(m, p, inv, t))
  <2> DEFINE s == RememberInventory(m, inv.event, t)
  <2>1. Maps(s)
    OBVIOUS
  <2>2. \E r, x : OpenRoute(m, p, inv, t) = [s EXCEPT !.routes[inv.event] = r, !.wantForwarded[inv.event] = x]
    BY DEF OpenRoute
  <2> HIDE DEF s
  <2>3. SameRecords(s, OpenRoute(m, p, inv, t))
    BY <2>1, <2>2 DEF Maps, SameRecords
  <2> QED BY <2>3 DEF s
<1> QED
  BY <1>1, <1>2, <1>3 DEF SameRecords

LInv == AInv /\ Ledger(mesh, served, now)

\* Nothing has been delivered yet.
LEMMA InitLedger == Init => LInv
<1> SUFFICES ASSUME Init PROVE LInv
  OBVIOUS
<1>1. AInv
  BY InitAccounts
<1>2. served \in [Events -> ServedType] /\ \A e \in Events : served[e].count = 0 /\ served[e].until = 0
  BY DEF Init, ServedType
<1> QED
  BY <1>1, <1>2 DEF LInv, Ledger, Recorded, Held

\* The ledger after a call that leaves the history and the records of the
\* pruned or unpruned mesh alone.
LEMMA LedgerUntouched ==
    ASSUME LInv, served' = served, now' = now,
           SameRecords(Current, mesh') \/ SameRecords(mesh, mesh')
    PROVE  Ledger(mesh', served', now')
<1>1. Ledger(Current, served, now) /\ Ledger(mesh, served, now)
  BY LedgerPruned DEF LInv, AInv, IInv, Good, Core, Current
<1>2. ASSUME NEW m, Ledger(m, served, now), SameRecords(m, mesh') PROVE Ledger(mesh', served, now)
  BY <1>2 DEF Ledger, SameRecords
<1>3. Ledger(mesh', served, now)
  BY <1>1, <1>2
<1> QED
  BY <1>3

\* receive_frame, when it accepts: a delivery is noted exactly when the event
\* has no record.
LEMMA AcceptLedger ==
    ASSUME LInv, NEW p \in Peers, NEW e \in Events, NEW peers \in PeerLists,
           AcceptFrameFrom(p, e, peers)
    PROVE  Ledger(mesh', served', now')
<1> DEFINE s == StoreEvent(Current, e, now)
           c == CloseRoute(s, e)
           d == RememberDelivered(c, e, now)
           n == IF IsNewDelivery(c, e) THEN d ELSE c
<1>1. /\ Ready(Current, now) /\ Good(Current, now) /\ Maps(Current) /\ Accounts(Current) /\ now \in Nat
      /\ Ledger(Current, served, now)
  BY CurrentAccounts, LedgerPruned DEF LInv, AInv, IInv, Good, Core, Current
<1>2. /\ ValidEvent(e) /\ mesh' = AcceptFrame(Current, e, now) /\ now' = now
      /\ served' = IF IsNewDelivery(Current, e) THEN Delivery(e) ELSE served
  BY DEF AcceptFrameFrom, ValidFrame
<1>3. Ready(s, now) /\ Maps(s) /\ Good(s, now) /\ Accounts(s) /\ SameRecords(Current, s)
  BY <1>1, <1>2, StoreReady, StoreAccounts, RecordsUntouched DEF Ready, Good, Core
<1> HIDE DEF s
<1>4. /\ Accounts(c) /\ Maps(c) /\ Core(c, now) /\ SameRecords(s, c)
      /\ \A x \in Events : ExpiriesOf(c, x) = ExpiriesOf(s, x)
  BY <1>1, <1>3, CloseAccounts, CloseGood, RecordsUntouched
<1>5. Fresh(c, now)
  BY <1>3, <1>4 DEF Ready, Fresh
<1> HIDE DEF c
<1>6. Ledger(c, served, now) /\ (IsNewDelivery(c, e) <=> IsNewDelivery(Current, e))
  BY <1>1, <1>3, <1>4 DEF Ledger, SameRecords, IsNewDelivery
<1>7. Maps(d)
  BY <1>1, <1>4, <1>5, DeliveredCore DEF Core
<1>8. Ledger(n, served', now)
  <2>1. CASE ~IsNewDelivery(c, e)
    BY <1>2, <1>6, <2>1
  <2>2. CASE IsNewDelivery(c, e)
    <3>1. c.delivered[e] = 0
      BY <2>2 DEF IsNewDelivery
    <3>2. ~Remembered(e)
      BY <1>1, <1>6, <3>1, NotDeliveredAgain DEF Remembered
    <3>3. served' = Delivery(e) /\ served \in [Events -> ServedType]
      BY <1>2, <1>6, <2>2 DEF Ledger
    <3>4. Noted(served, served', e, now)
      <4>1. served'[e] = [until |-> now + Opt.event_ttl_ms, count |-> 1, since |-> {}]
        BY <3>2, <3>3 DEF Delivery
      <4>2. served'[e] \in ServedType
        BY <1>1, <4>1, OptionsNormalised DEF ServedType
      <4>3. ASSUME NEW f \in Events, f # e
            PROVE  /\ served'[f] \in ServedType
                   /\ served'[f].until = served[f].until /\ served'[f].count = served[f].count
                   /\ served[f].count # 0 => served'[f].since = served[f].since \cup {e}
        <5>1. served[f] \in ServedType
          BY <3>3
        <5>2. served'[f] = [served[f] EXCEPT !.since = IF served[f].count = 0 THEN {}
                                                      ELSE served[f].since \cup {e}]
          BY <3>3, <4>3 DEF Delivery
        <5> QED BY <5>1, <5>2 DEF ServedType
      <4>4. DOMAIN served' = Events /\ served' = [f \in Events |-> served'[f]]
        BY <3>3 DEF Delivery
      <4>5. served' \in [Events -> ServedType]
        BY <4>2, <4>3, <4>4
      <4> QED BY <4>1, <4>3, <4>5 DEF Noted
    <3>5. Ledger(d, served', now)
      <4> DEFINE after == served'
      <4>1. Noted(served, after, e, now)
        BY <3>4
      <4> HIDE DEF after, d
      <4>2. Ledger(d, after, now)
        BY <1>1, <1>4, <1>6, <3>1, <4>1, LedgerDelivered DEF d
      <4> QED BY <4>2 DEF after
    <3> QED BY <2>2, <3>5
  <2> QED BY <2>1, <2>2
<1>9. Maps(n)
  BY <1>4, <1>7
<1> HIDE DEF n
<1>10. SameRecords(n, RemovePending(n, {e}))
  BY <1>9, RecordsUntouched
<1>11. mesh' = RemovePending(n, {e})
  BY <1>2 DEF AcceptFrame, n, d, c, s
<1> QED
  BY <1>2, <1>8, <1>10, <1>11 DEF Ledger, SameRecords

\* Every step of the mesh keeps the delivery records.
LEMMA NextLedger == LInv /\ [Next]_vars => LInv'
<1> SUFFICES ASSUME LInv, [Next]_vars PROVE LInv'
  OBVIOUS
<1>1. AInv'
  BY NextAccounts DEF LInv
<1>2. Ready(Current, now) /\ Good(Current, now) /\ Maps(Current) /\ now \in Nat /\ Maps(mesh)
  BY CurrentAccounts DEF LInv, AInv, IInv, Good, Core
<1>3. SameRecords(Current, Current) /\ SameRecords(mesh, mesh)
  BY DEF SameRecords
<1>4. ASSUME served' = served, now' = now,
             SameRecords(Current, mesh') \/ SameRecords(mesh, mesh')
      PROVE  Ledger(mesh', served', now')
  BY <1>4, LedgerUntouched
<1>5. CASE Tick
  <2>1. mesh' = mesh /\ served' = served /\ now' = now + 1
    BY <1>5 DEF Tick
  <2>2. \A e \in Events : Held(served[e], now + 1) => Held(served[e], now)
    BY <1>2 DEF Held, LInv, Ledger, ServedType
  <2>3. Ledger(mesh, served, now + 1)
    BY <2>2 DEF LInv, Ledger, Recorded
  <2> QED BY <1>1, <2>1, <2>3 DEF LInv
<1>6. CASE UNCHANGED vars
  BY <1>6 DEF vars, LInv, AInv, IInv
<1>7. CASE LocalCall
  <2>1. ASSUME NEW e \in Events, NEW peers \in PeerLists, Publish(e, peers) PROVE LInv'
    <3> DEFINE s == StoreEvent(Current, e, now)
    <3>1. served' = served /\ now' = now /\ (mesh' = s \/ mesh' = RememberInventory(s, e, now))
      BY <2>1 DEF Publish, Return
    <3>2. Maps(s) /\ SameRecords(Current, s)
      BY <1>2, StoreReady, RecordsUntouched DEF Ready, Good, Core
    <3> HIDE DEF s
    <3>3. SameRecords(s, RememberInventory(s, e, now))
      BY <3>2, RecordsUntouched
    <3>4. SameRecords(Current, mesh')
      BY <3>1, <3>2, <3>3 DEF SameRecords
    <3> QED BY <1>1, <1>4, <3>1, <3>4 DEF LInv
  <2>2. ASSUME NEW e \in Events, SeedVerified(e) PROVE LInv'
    <3>1. served' = served /\ now' = now /\ SameRecords(Current, mesh')
      BY <1>2, <2>2, RecordsUntouched DEF SeedVerified, Return
    <3> QED BY <1>1, <1>4, <3>1 DEF LInv
  <2>3. ASSUME NEW e \in Events, NEW p \in Peers, ReplayToPeer(e, p) PROVE LInv'
    <3>1. served' = served /\ now' = now /\ SameRecords(Current, mesh')
      BY <1>2, <2>3, RecordsUntouched DEF ReplayToPeer, Return
    <3> QED BY <1>1, <1>4, <3>1 DEF LInv
  <2>4. ASSUME NEW p \in Peers, ReplayCachedToPeer(p) \/ RecordInvalidMessage(p) PROVE LInv'
    <3>1. served' = served /\ now' = now /\ (SameRecords(Current, mesh') \/ SameRecords(mesh, mesh'))
      BY <1>3, <2>4 DEF ReplayCachedToPeer, RecordInvalidMessage, Reply, Return
    <3> QED BY <1>1, <1>4, <3>1 DEF LInv
  <2>5. ASSUME Maintain PROVE LInv'
    <3>1. served' = served /\ now' = now /\ SameRecords(Current, mesh')
      BY <1>3, <2>5 DEF Maintain, Reply, Return
    <3> QED BY <1>1, <1>4, <3>1 DEF LInv
  <2>6. ASSUME NEW p \in Peers, NEW e \in Events, DismissFrame(p, e) PROVE LInv'
    <3> DEFINE c == CloseRoute(mesh, e)
    <3>1. served' = served /\ now' = now /\ mesh' = RemovePending(c, {e})
      BY <2>6 DEF DismissFrame, Return
    <3>2. SameRecords(mesh, c) /\ Maps(c)
      BY <1>2, RecordsUntouched, CloseAccounts DEF LInv, AInv
    <3> HIDE DEF c
    <3>3. SameRecords(c, RemovePending(c, {e}))
      BY <3>2, RecordsUntouched
    <3>4. SameRecords(mesh, mesh')
      BY <3>1, <3>2, <3>3 DEF SameRecords
    <3> QED BY <1>1, <1>4, <3>1, <3>4 DEF LInv
  <2>7. ASSUME NEW p \in Peers, NEW e \in Events, RecordTransportDisruption(p, e) PROVE LInv'
    <3>1. served' = served /\ now' = now /\ SameRecords(mesh, mesh')
      BY <1>2, <2>7 DEF RecordTransportDisruption, Return, SameRecords, Maps
    <3> QED BY <1>1, <1>4, <3>1 DEF LInv
  <2> QED BY <1>7, <2>1, <2>2, <2>3, <2>4, <2>5, <2>6, <2>7 DEF LocalCall
<1>8. CASE ReceiveInventory
  <2>1. PICK p \in Peers, inv \in Announcements :
           \/ RefuseInventory(p, inv) \/ IgnoreInventory(p, inv) \/ AskFirstProvider(p, inv)
           \/ RefuseChangedInventory(p, inv) \/ AskAnotherProvider(p, inv)
           \/ TurnAwayProvider(p, inv)
    BY <1>8 DEF ReceiveInventory
  <2>2. CASE RefuseInventory(p, inv) \/ IgnoreInventory(p, inv) \/ RefuseChangedInventory(p, inv)
    <3>1. served' = served /\ now' = now /\ SameRecords(Current, mesh')
      BY <1>3, <2>2
         DEF RefuseInventory, IgnoreInventory, RefuseChangedInventory, Refuse, Reply, Return
    <3> QED BY <1>1, <1>4, <3>1 DEF LInv
  <2>3. CASE AskFirstProvider(p, inv)
    <3>1. inv.event \in Events /\ IsNewInventory(Current, inv.event, now)
      BY <2>3, InputsAssumption DEF AskFirstProvider, FirstInventory, InvalidInventory
    <3>2. Maps(RememberInventory(Current, inv.event, now))
      BY <1>2, <3>1, RememberReady DEF Ready, Good, Core
    <3>3. served' = served /\ now' = now /\ mesh' = OpenRoute(Current, p, inv, now)
      BY <2>3 DEF AskFirstProvider, Return
    <3>4. SameRecords(Current, mesh')
      BY <1>2, <3>1, <3>2, <3>3, RouteRecords
    <3> QED BY <1>1, <1>4, <3>3, <3>4 DEF LInv
  <2>4. CASE AskAnotherProvider(p, inv)
    <3>1. served' = served /\ now' = now /\ mesh' = RepeatRoute(Current, p, inv, now)
      BY <2>4 DEF AskAnotherProvider, Return
    <3>2. SameRecords(Current, mesh')
      BY <1>2, <3>1 DEF Maps, SameRecords, RepeatRoute
    <3> QED BY <1>1, <1>4, <3>1, <3>2 DEF LInv
  <2>5. CASE TurnAwayProvider(p, inv)
    <3>1. served' = served /\ now' = now /\ SameRecords(Current, mesh')
      BY <1>2, <2>5 DEF TurnAwayProvider, Return, SameRecords, Maps
    <3> QED BY <1>1, <1>4, <3>1 DEF LInv
  <2> QED BY <2>1, <2>2, <2>3, <2>4, <2>5
<1>9. CASE ReceiveWant
  <2>1. ASSUME NEW p \in Peers, RefuseWant(p) PROVE LInv'
    <3>1. served' = served /\ now' = now /\ SameRecords(Current, mesh')
      BY <1>3, <2>1 DEF RefuseWant, Refuse, Return
    <3> QED BY <1>1, <1>4, <3>1 DEF LInv
  <2>2. ASSUME NEW p \in Peers, NEW e \in Events, ServeWant(p, e) \/ IgnoreWant(p, e) PROVE LInv'
    <3>1. served' = served /\ now' = now /\ SameRecords(Current, mesh')
      BY <1>3, <2>2 DEF ServeWant, IgnoreWant, Reply, Return
    <3> QED BY <1>1, <1>4, <3>1 DEF LInv
  <2>3. ASSUME NEW p \in Peers, NEW e \in Events, RetainWant(p, e) PROVE LInv'
    <3>1. AlreadyForwarded(JoinPending(Current, p, e, now), e, now)
      BY <1>2, <2>3, WantAlreadyForwarded DEF RetainWant
    <3>2. served' = served /\ now' = now /\ mesh' = JoinPending(Current, p, e, now)
      BY <2>3, <3>1 DEF RetainWant, Return
    <3>3. SameRecords(Current, mesh')
      BY <1>2, <3>2, RecordsUntouched
    <3> QED BY <1>1, <1>4, <3>2, <3>3 DEF LInv
  <2> QED BY <1>9, <2>1, <2>2, <2>3 DEF ReceiveWant
<1>10. CASE ReceiveFrame
  <2>1. ASSUME NEW p \in Peers, NEW id \in Events \cup {MalformedId},
               NEW body \in Events \cup {Forged}, RefuseFrame(p, id, body)
        PROVE  LInv'
    <3>1. served' = served /\ now' = now /\ SameRecords(Current, mesh')
      BY <1>3, <2>1 DEF RefuseFrame, Refuse, Return
    <3> QED BY <1>1, <1>4, <3>1 DEF LInv
  <2>2. ASSUME NEW p \in Peers, NEW e \in Events, AbsorbFrame(p, e) PROVE LInv'
    <3>1. served' = served /\ now' = now /\ SameRecords(Current, mesh')
      BY <1>3, <2>2 DEF AbsorbFrame, Reply, Return
    <3> QED BY <1>1, <1>4, <3>1 DEF LInv
  <2>3. ASSUME NEW p \in Peers, NEW e \in Events, NEW peers \in PeerLists,
               AcceptFrameFrom(p, e, peers)
        PROVE  LInv'
    BY <1>1, <2>3, AcceptLedger DEF LInv
  <2> QED BY <1>10, <2>1, <2>2, <2>3 DEF ReceiveFrame
<1> QED
  BY <1>5, <1>6, <1>7, <1>8, <1>9, <1>10 DEF Next

\* No event reaches the application twice within event_ttl_ms unless
\* max_seen_events others were delivered in between (remember_delivered, prune).
THEOREM NoRepeatedDelivery == Spec => []DeliveredOnce
<1>1. LInv => DeliveredOnce
  BY DEF LInv, Ledger, Recorded, DeliveredOnce
<1> QED
  BY <1>1, InitLedger, NextLedger, PTL DEF Spec

-----------------------------------------------------------------------------
(* Behaviour scores *)

Counter  == 0..CounterMax
Evidence == [score : -ScoreCap..ScoreCap, samples : Counter, valid : Counter,
             invalid : Counter, unserved : Counter]

\* Until the sample counter saturates, every sample is one piece of evidence.
Consistent(b) == b.samples < CounterMax => b.samples = b.valid + b.invalid + b.unserved

\* The table tracks each of at most MaxTracked peers once, and has evidence of
\* no other.
Scored(b) ==
    /\ b \in [table : [Peers -> Evidence], order : Seq(Peers)]
    /\ IsInjective(b.order) /\ Len(b.order) <= MaxTracked
    /\ \A p \in Peers : /\ p \notin Tracked(b) => b.table[p] = NoEvidence
                        /\ Consistent(b.table[p])

\* The default counters.
LEMMA NoEvidenceSound == NoEvidence \in Evidence /\ Consistent(NoEvidence)
<1>1. /\ 0 \in -ScoreCap..ScoreCap /\ 0 \in Counter
  BY BehaviorAssumption DEF Counter
<1> QED
  BY <1>1 DEF NoEvidence, Evidence, Consistent

\* record_peer_behavior's eviction loop makes room for one more peer and
\* forgets the evicted ones.
LEMMA MakeRoomScored ==
    ASSUME NEW b, NEW p \in Peers, Scored(b)
    PROVE  Scored(MakeRoom(b, p)) /\ p \in Tracked(MakeRoom(b, p))
<1>1. CASE p \in Tracked(b)
  BY <1>1 DEF MakeRoom
<1>2. CASE p \notin Tracked(b)
  <2> DEFINE order  == b.order
             excess == Len(order) - MaxTracked + 1
             k      == IF excess > 0 THEN excess ELSE 0
             gone   == ToSet(SubSeq(order, 1, k))
             rest   == SubSeq(order, k + 1, Len(order))
             table  == [q \in Peers |-> IF q \in gone THEN NoEvidence ELSE b.table[q]]
             n      == [table |-> table, order |-> Append(rest, p)]
  <2>1. MakeRoom(b, p) = n
    BY <1>2 DEF MakeRoom
  <2>2. /\ order \in Seq(Peers) /\ IsInjective(order) /\ Len(order) <= MaxTracked /\ Len(order) \in Nat
        /\ b.table \in [Peers -> Evidence]
        /\ MaxTracked \in Nat /\ MaxTracked > 0
    BY BehaviorAssumption DEF Scored
  <2>3. k \in 0..Len(order) /\ Len(order) - k < MaxTracked
    <3> DEFINE len == Len(order)
    <3>1. len \in Nat /\ MaxTracked \in Nat /\ MaxTracked > 0 /\ len <= MaxTracked
      BY <2>2
    <3>2. k = IF len - MaxTracked + 1 > 0 THEN len - MaxTracked + 1 ELSE 0
      OBVIOUS
    <3> HIDE DEF len, k
    <3>3. k \in 0..len /\ len - k < MaxTracked
      BY <3>1, <3>2
    <3> QED BY <3>3 DEF len
  <2> HIDE DEF k
  <2>4. /\ rest \in Seq(Peers) /\ IsInjective(rest) /\ Len(rest) = Len(order) - k
        /\ ToSet(rest) = ToSet(order) \ gone
    BY <2>2, <2>3, DistinctPrefix
  <2> HIDE DEF rest, gone
  <2>5. /\ Append(rest, p) \in Seq(Peers) /\ IsInjective(Append(rest, p))
        /\ ToSet(Append(rest, p)) = ToSet(rest) \cup {p}
        /\ Len(Append(rest, p)) = Len(rest) + 1
    BY <1>2, <2>4, DistinctEnds DEF Tracked
  <2>6. Len(Append(rest, p)) <= MaxTracked
    BY <2>2, <2>3, <2>4, <2>5
  <2>7. table \in [Peers -> Evidence]
    BY <2>2, NoEvidenceSound
  <2>8. \A q \in Peers : q \notin ToSet(Append(rest, p)) => table[q] = NoEvidence
    BY <2>4, <2>5 DEF Scored, Tracked
  <2>9. \A q \in Peers : Consistent(table[q])
    BY NoEvidenceSound DEF Scored
  <2>10. Scored(n)
    <3> HIDE DEF table
    <3> QED BY <2>5, <2>6, <2>7, <2>8, <2>9 DEF Scored, Tracked
  <2>11. p \in Tracked(n)
    BY <2>5 DEF Tracked
  <2> QED BY <2>1, <2>10, <2>11
<1> QED
  BY <1>1, <1>2

\* A sample is one piece of evidence, and the score stays within its bounds.
LEMMA SampleConsistent ==
    ASSUME NEW old \in Evidence, Consistent(old), NEW delta \in Int,
           NEW evidence \in {"valid", "invalid", "unserved"}
    PROVE  /\ Sampled(old, delta, evidence) \in Evidence
           /\ Consistent(Sampled(old, delta, evidence))
<1> DEFINE new == Sampled(old, delta, evidence)
<1>1. ASSUME NEW c \in Counter PROVE Bump(c) \in Counter /\ (c < CounterMax => Bump(c) = c + 1) /\ (c = CounterMax => Bump(c) = c)
  BY BehaviorAssumption DEF Counter, Bump
<1>2. Clamp(old.score + delta) \in -ScoreCap..ScoreCap
  <2>1. old.score \in Int /\ ScoreCap \in Nat
    BY BehaviorAssumption DEF Evidence
  <2> QED BY <2>1 DEF Clamp
<1>3. /\ old.samples \in Counter /\ old.valid \in Counter /\ old.invalid \in Counter
      /\ old.unserved \in Counter /\ CounterMax \in Nat
  BY BehaviorAssumption DEF Evidence
<1>4. CASE evidence = "valid"
  <2>1. new = [old EXCEPT !.samples = Bump(old.samples), !.score = Clamp(old.score + delta), !.valid = Bump(old.valid)]
    BY <1>4 DEF Sampled, Evidence
  <2>2. /\ new \in Evidence /\ new.samples = Bump(old.samples) /\ new.valid = Bump(old.valid)
        /\ new.invalid = old.invalid /\ new.unserved = old.unserved
    BY <1>1, <1>2, <1>3, <2>1 DEF Evidence
  <2> QED BY <1>1, <1>3, <2>2 DEF Consistent, Counter
<1>5. CASE evidence = "invalid"
  <2>1. new = [old EXCEPT !.samples = Bump(old.samples), !.score = Clamp(old.score + delta), !.invalid = Bump(old.invalid)]
    BY <1>5 DEF Sampled, Evidence
  <2>2. /\ new \in Evidence /\ new.samples = Bump(old.samples) /\ new.invalid = Bump(old.invalid)
        /\ new.valid = old.valid /\ new.unserved = old.unserved
    BY <1>1, <1>2, <1>3, <2>1 DEF Evidence
  <2> QED BY <1>1, <1>3, <2>2 DEF Consistent, Counter
<1>6. CASE evidence = "unserved"
  <2>1. new = [old EXCEPT !.samples = Bump(old.samples), !.score = Clamp(old.score + delta), !.unserved = Bump(old.unserved)]
    BY <1>6 DEF Sampled, Evidence
  <2>2. /\ new \in Evidence /\ new.samples = Bump(old.samples) /\ new.unserved = Bump(old.unserved)
        /\ new.valid = old.valid /\ new.invalid = old.invalid
    BY <1>1, <1>2, <1>3, <2>1 DEF Evidence
  <2> QED BY <1>1, <1>3, <2>2 DEF Consistent, Counter
<1> QED
  BY <1>4, <1>5, <1>6

\* record_peer_behavior keeps the table sound.
LEMMA RecordScored ==
    ASSUME NEW b, NEW p \in Peers, Scored(b), NEW delta \in Int,
           NEW evidence \in {"valid", "invalid", "unserved"}
    PROVE  Scored(RecordPeerBehavior(b, p, delta, evidence))
<1> DEFINE room == MakeRoom(b, p)
           old  == room.table[p]
           new  == Sampled(old, delta, evidence)
           n    == [room EXCEPT !.table[p] = new]
<1>1. Scored(room) /\ p \in Tracked(room)
  BY MakeRoomScored
<1>2. RecordPeerBehavior(b, p, delta, evidence) = n
  BY DEF RecordPeerBehavior
<1> HIDE DEF room
<1>4. old \in Evidence /\ Consistent(old)
  BY <1>1 DEF Scored
<1> HIDE DEF old
<1>5. new \in Evidence /\ Consistent(new)
  BY <1>4, SampleConsistent
<1> HIDE DEF new
<1>6. /\ n.order = room.order /\ n.table = [room.table EXCEPT ![p] = new]
      /\ n \in [table : [Peers -> Evidence], order : Seq(Peers)]
  BY <1>1, <1>5 DEF Scored
<1> HIDE DEF n
<1>7. Scored(n)
  BY <1>1, <1>5, <1>6 DEF Scored, Tracked
<1> QED
  BY <1>2, <1>7

\* The tables record_peer_behavior may reach.
Tables == {b \in [table : [Peers -> Evidence], order : Seq(Peers)] : Scored(b)}

\* f holds the table after each of the providers in `blamed`.
Blames(f, b, blamed) ==
    f = [i \in 0..Len(blamed) |->
            IF i = 0 THEN b
            ELSE RecordPeerBehavior(f[i - 1], blamed[i], -UnservedPenalty, "unserved")]

\* Blaming providers one by one keeps the table sound (prune).
LEMMA UnservedScored ==
    ASSUME NEW b, Scored(b), NEW blamed \in Seq(Peers)
    PROVE  Scored(RecordUnserved(b, blamed))
<1> DEFINE n == Len(blamed)
           Step(x, i) == RecordPeerBehavior(x, blamed[i], -UnservedPenalty, "unserved")
           F == [pair \in (1..n) \X Tables |-> Step(pair[2], pair[1])]
<1>0. n \in Nat
  OBVIOUS
<1>1. \A i \in 1..n : blamed[i] \in Peers
  OBVIOUS
<1>2. b \in Tables
  BY DEF Tables, Scored
<1>3. -UnservedPenalty \in Int
  BY BehaviorAssumption
<1>4. ASSUME NEW x \in Tables, NEW i \in 1..n PROVE Step(x, i) \in Tables
  <2>1. Scored(Step(x, i))
    BY <1>1, <1>3, RecordScored DEF Tables
  <2> HIDE DEF Step
  <2> QED BY <2>1 DEF Tables, Scored
<1> HIDE DEF Step
<1>5. F \in [(1..n) \X Tables -> Tables]
  BY <1>4
<1>6. ASSUME NEW x \in Tables, NEW i \in 1..n PROVE F[<<i, x>>] = Step(x, i)
  OBVIOUS
<1> HIDE DEF F, n
<1>7. PICK f : Unfolds(f, n, Tables, b, F)
  BY <1>0, <1>2, <1>5, RecursionExists
<1>19. f \in [0..n -> Tables] /\ f[0] = b /\ \A i \in 1..n : f[i] = F[<<i, f[i - 1]>>]
  BY <1>7 DEF Unfolds
<1>8. \A i \in 0..n : f[i] = IF i = 0 THEN b ELSE Step(f[i - 1], i)
  <2> SUFFICES ASSUME NEW i \in 0..n PROVE f[i] = IF i = 0 THEN b ELSE Step(f[i - 1], i)
    OBVIOUS
  <2>1. CASE i = 0
    BY <1>19, <2>1
  <2>2. CASE i # 0
    <3>1. i \in 1..n /\ i - 1 \in 0..n
      BY <1>0, <2>2
    <3>2. f[i - 1] \in Tables
      BY <1>19, <3>1
    <3>3. f[i] = F[<<i, f[i - 1]>>]
      BY <1>19, <3>1
    <3> QED BY <1>6, <2>2, <3>1, <3>2, <3>3
  <2> QED BY <2>1, <2>2
<1>9. f = [i \in 0..n |-> IF i = 0 THEN b ELSE Step(f[i - 1], i)]
  BY <1>19, <1>8
<1>10. Blames(f, b, blamed)
  BY <1>9 DEF Blames, Step, n
<1> DEFINE g == CHOOSE g : Blames(g, b, blamed)
<1>11. Blames(g, b, blamed)
  BY <1>10
<1>12. RecordUnserved(b, blamed) = g[Len(blamed)]
  BY Zenon DEF RecordUnserved, Blames
<1> HIDE DEF g
<1> DEFINE T == {i \in 0..n : g[i] \in Tables}
<1>13. g = [i \in 0..n |-> IF i = 0 THEN b ELSE Step(g[i - 1], i)]
  BY <1>11 DEF Blames, Step, n
<1>14. 0 \in T
  BY <1>0, <1>2, <1>13
<1>15. ASSUME NEW i \in 0..n, i \in T, i < n PROVE i + 1 \in T
  <2>1. i + 1 \in 1..n /\ i + 1 \in 0..n /\ i + 1 # 0 /\ (i + 1) - 1 = i
    BY <1>0, <1>15
  <2>2. g[i + 1] = Step(g[(i + 1) - 1], i + 1)
    BY <1>13, <2>1
  <2>3. g[i + 1] \in Tables
    BY <1>4, <1>15, <2>1, <2>2
  <2> QED BY <2>1, <2>3
<1> HIDE DEF T
<1>16. \A i \in 0..n : i \in T /\ i < n => i + 1 \in T
  BY <1>15
<1>17. \A i \in 0..n : i \in T
  BY <1>0, <1>14, <1>16, UpTo
<1>18. n \in T
  BY <1>0, <1>17
<1> QED
  BY <1>12, <1>18 DEF T, Tables, n

\* s lists S in ascending order.
Ascends(s, S) == s \in SetToSeqs(S) /\ \A i, j \in DOMAIN s : i < j => s[i] < s[j]

\* Every set of peers has an ascending listing.
LEMMA AscendingExists ==
    \A S \in SUBSET Peers : \E s : Ascends(s, S)
<1> DEFINE G == {S \in SUBSET Peers : \E s : Ascends(s, S)}
<1>1. IsFiniteSet(Peers) /\ Peers \in SUBSET Nat
  BY PeersAssumption
<1>2. ASSUME NEW S \in SUBSET Peers, \A U \in SUBSET S : U # S => U \in G PROVE S \in G
  <2>0. IsFiniteSet(S) /\ S \in SUBSET Nat
    BY <1>1, FS_Subset
  <2>1. CASE S = {}
    <3>1. Cardinality(S) = 0
      BY <2>1, FS_EmptySet
    <3> DEFINE s == [i \in 1..0 |-> 0]
    <3>2. s \in [1..Cardinality(S) -> S] /\ 1..Cardinality(S) = {}
      BY <2>1, <3>1
    <3>3. Ascends(s, S)
      BY <3>2 DEF Ascends, SetToSeqs
    <3> QED BY <3>3
  <2>2. CASE S # {}
    <3>1. PICK x \in S : \A y \in S : x <= y
      BY <2>0, <2>2, LeastOf
    <3> DEFINE U == S \ {x}
    <3>2. PICK s : Ascends(s, U)
      BY <1>2, <3>1
    <3>3. IsFiniteSet(U) /\ Cardinality(S) = Cardinality(U) + 1 /\ Cardinality(U) \in Nat
      BY <2>0, <3>1, FS_RemoveElement, FS_CardinalityType, FS_Subset
    <3> DEFINE c == Cardinality(U)
               t == [i \in 1..(c + 1) |-> IF i = 1 THEN x ELSE s[i - 1]]
    <3>4. s \in [1..c -> U] /\ \A i, j \in 1..c : i # j => s[i] # s[j]
      BY <3>2 DEF Ascends, SetToSeqs
    <3>5. \A i, j \in 1..c : i < j => s[i] < s[j]
      BY <3>2, <3>4 DEF Ascends
    <3>11. c \in Nat
      BY <3>3
    <3> HIDE DEF c
    <3>6. ASSUME NEW i \in 1..(c + 1) PROVE t[i] \in S /\ (i # 1 => i - 1 \in 1..c /\ t[i] = s[i - 1] /\ s[i - 1] \in U)
      <4>1. CASE i = 1
        BY <3>1, <4>1
      <4>2. CASE i # 1
        <5>1. i - 1 \in 1..c
          BY <3>11, <4>2
        <5> QED BY <3>4, <4>2, <5>1
      <4> QED BY <4>1, <4>2
    <3>12. t \in [1..(c + 1) -> S]
      BY <3>6
    <3>7. ASSUME NEW i \in 1..(c + 1), NEW j \in 1..(c + 1), i < j PROVE t[i] < t[j]
      <4>1. j # 1 /\ j - 1 \in 1..c /\ t[j] = s[j - 1] /\ s[j - 1] \in U
        BY <3>11, <3>6, <3>7
      <4>2. CASE i = 1
        <5>1. t[i] = x /\ x <= s[j - 1] /\ s[j - 1] # x /\ x \in Nat /\ s[j - 1] \in Nat
          BY <2>0, <3>1, <4>1, <4>2
        <5> QED BY <4>1, <5>1
      <4>3. CASE i # 1
        <5>1. i - 1 \in 1..c /\ t[i] = s[i - 1] /\ i - 1 < j - 1
          BY <3>11, <3>6, <3>7, <4>3
        <5> QED BY <3>5, <4>1, <5>1
      <4> QED BY <4>2, <4>3
    <3> HIDE DEF t
    <3>8. ASSUME NEW i \in 1..(c + 1), NEW j \in 1..(c + 1), i # j PROVE t[i] # t[j]
      <4>1. t[i] \in Nat /\ t[j] \in Nat
        BY <2>0, <3>12
      <4>2. i < j \/ j < i
        BY <3>11, <3>8
      <4> QED BY <3>7, <4>1, <4>2
    <3>9. Cardinality(S) = c + 1
      BY <3>3 DEF c
    <3>10. Ascends(t, S)
      BY <3>12, <3>7, <3>8, <3>9 DEF Ascends, SetToSeqs
    <3> QED BY <3>10
  <2> QED BY <2>1, <2>2
<1> HIDE DEF G
<1>3. \A S \in SUBSET Peers : S \in G
  BY <1>1, <1>2, SubsetInduction
<1> QED
  BY <1>3 DEF G

\* The alternates are listed, each once.
LEMMA AscendingPeers ==
    ASSUME NEW S \in SUBSET Peers
    PROVE  Ascending(S) \in Seq(Peers)
<1>1. \E s : Ascends(s, S)
  BY AscendingExists
<1>2. Ascending(S) \in SetToSeqs(S)
  BY <1>1 DEF Ascends, Ascending
<1>3. Ascending(S) \in [1..Cardinality(S) -> S]
  BY <1>2 DEF SetToSeqs
<1>4. IsFiniteSet(S)
  BY PeersAssumption, FS_Subset
<1>5. Cardinality(S) \in Nat
  BY <1>4, FS_CardinalityType
<1> QED
  BY <1>3, <1>5

-----------------------------------------------------------------------------
(* Debts *)

\* A route asks a peer, and the providers not disrupted are those in debt.
Owes(r, debts, e) ==
    r.expires > 0 =>
        /\ r.peer \in Peers
        /\ ~r.fulfilled => \A p \in Peers : p \in Providers(r) \ r.disrupted <=> <<p, e>> \in debts

Debts(routes, debts) ==
    /\ debts \in SUBSET (Peers \X Events)
    /\ \A e \in Events : Owes(routes[e], debts, e)

\* The routes of n are those of m, but some may be gone.
FewerRoutes(m, n) == \A x \in Events : n.routes[x] = m.routes[x] \/ n.routes[x] = NoRoute

\* A list of blamed providers holds peers only.
LEMMA BlamedProvidersPeers ==
    ASSUME NEW r \in Route, r.peer \in Peers
    PROVE  BlamedProviders(r) \in Seq(Peers)
<1>1. r.alternates \in SUBSET Peers
  BY DEF Route
<1>2. Ascending(r.alternates) \in Seq(Peers)
  BY <1>1, AscendingPeers
<1>3. <<r.peer>> \o Ascending(r.alternates) \in Seq(Peers)
  BY <1>2
<1> QED
  BY <1>3, OnlyRetains DEF BlamedProviders

\* Whatever order prune visits the expired routes in, it blames peers.
LEMMA BlameOrdersPeers ==
    ASSUME Maps(mesh), Debts(mesh.routes, owed), NEW blamed \in BlameOrders
    PROVE  blamed \in Seq(Peers)
<1> DEFINE U == UnservedRoutes(mesh, now)
<1>1. PICK routes \in SetToSeqs(U) :
         blamed = FlattenSeq([i \in DOMAIN routes |-> BlamedProviders(mesh.routes[routes[i]])])
  BY DEF BlameOrders
<1>2. U \in SUBSET Events /\ \A e \in U : mesh.routes[e].expires > 0
  BY DEF UnservedRoutes, Routed
<1> HIDE DEF U
<1>3. Cardinality(U) \in Nat
  BY <1>2, EventsAssumption, FS_Subset, FS_CardinalityType
<1>4. routes \in [1..Cardinality(U) -> U]
  BY DEF SetToSeqs
<1> DEFINE lists == [i \in DOMAIN routes |-> BlamedProviders(mesh.routes[routes[i]])]
<1>5. ASSUME NEW i \in 1..Cardinality(U) PROVE BlamedProviders(mesh.routes[routes[i]]) \in Seq(Peers)
  <2>1. routes[i] \in Events /\ mesh.routes[routes[i]].expires > 0
    BY <1>2, <1>4
  <2>2. mesh.routes[routes[i]] \in Route /\ mesh.routes[routes[i]].peer \in Peers
    BY <2>1 DEF Debts, Owes, Maps
  <2> QED BY <2>2, BlamedProvidersPeers
<1>6. lists \in [1..Cardinality(U) -> Seq(Peers)]
  BY <1>4, <1>5
<1>7. lists \in Seq(Seq(Peers))
  BY <1>3, <1>6
<1> HIDE DEF lists
<1> QED
  BY <1>1, <1>7, FlattenType DEF lists

\* Only the debts of a changed route have to be looked at.
LEMMA DebtsChanged ==
    ASSUME NEW m, NEW debts, Debts(m.routes, debts), NEW n, NEW after \in SUBSET (Peers \X Events),
           \A x \in Events :
              \/ /\ n.routes[x] = m.routes[x] \/ n.routes[x] = NoRoute
                 /\ \A p \in Peers : <<p, x>> \in after <=> <<p, x>> \in debts
              \/ Owes(n.routes[x], after, x)
    PROVE  Debts(n.routes, after)
<1> SUFFICES ASSUME NEW x \in Events PROVE Owes(n.routes[x], after, x)
  BY DEF Debts
<1>1. CASE n.routes[x] = NoRoute
  BY <1>1 DEF Owes, NoRoute
<1>2. CASE n.routes[x] = m.routes[x] /\ \A p \in Peers : <<p, x>> \in after <=> <<p, x>> \in debts
  BY <1>2 DEF Owes, Debts
<1> QED
  BY <1>1, <1>2

\* The debts of the routes that are left.
LEMMA DebtsFewer ==
    ASSUME NEW m, NEW debts, Debts(m.routes, debts), NEW n, FewerRoutes(m, n)
    PROVE  Debts(n.routes, debts)
<1>1. ASSUME NEW x \in Events PROVE Owes(n.routes[x], debts, x)
  <2>1. CASE n.routes[x] = NoRoute
    BY <2>1 DEF Owes, NoRoute
  <2>2. CASE n.routes[x] = m.routes[x]
    BY <2>2 DEF Debts
  <2> QED BY <2>1, <2>2 DEF FewerRoutes
<1> QED
  BY <1>1 DEF Debts

\* prune, store_event and remember_inventory open no route.
LEMMA RoutesFewer ==
    ASSUME NEW m, Maps(m), NEW t \in Nat, NEW e \in Events, NEW S
    PROVE  /\ FewerRoutes(m, Prune(m, t)) /\ FewerRoutes(m, StoreEvent(m, e, t))
           /\ FewerRoutes(m, RemovePending(m, S))
           /\ FewerRoutes(m, RememberInventory(m, e, t))
<1>1. FewerRoutes(m, Prune(m, t))
  BY DEF FewerRoutes, Prune, Pruned, Unexpired
<1>2. FewerRoutes(m, StoreEvent(m, e, t))
  BY DEF FewerRoutes, StoreEvent, Maps
<1>3. FewerRoutes(m, RemovePending(m, S))
  BY DEF FewerRoutes, RemovePending, Maps
<1>4. FewerRoutes(m, RememberInventory(m, e, t))
  BY RemovePendingFields DEF FewerRoutes, RememberInventory, Maps
<1> QED
  BY <1>1, <1>2, <1>3, <1>4

-----------------------------------------------------------------------------
(* Every call earns the scores it gives *)

\* The scores, the debts, and the types the other invariants leave out.
Scores == /\ now <= MaxTime /\ out.from \in Peers \cup {Nobody}
          /\ Scored(behavior) /\ Debts(mesh.routes, owed)

SInv == LInv /\ Scores

\* Nobody owes anything and nobody is scored.
LEMMA InitScores == Init => SInv
<1> SUFFICES ASSUME Init PROVE SInv
  OBVIOUS
<1>1. LInv
  BY InitLedger
<1>2. now <= MaxTime /\ out.from \in Peers \cup {Nobody}
  BY InputsAssumption DEF Init, Nothing
<1>3. Scored(behavior)
  <2>1. behavior = EmptyBehavior
    BY DEF Init
  <2>2. EmptyBehavior \in [table : [Peers -> Evidence], order : Seq(Peers)]
    BY NoEvidenceSound DEF EmptyBehavior
  <2>3. EmptyBehavior.order = <<>> /\ \A p \in Peers : EmptyBehavior.table[p] = NoEvidence
    BY DEF EmptyBehavior
  <2>4. IsInjective(<<>>) /\ Len(<<>>) = 0 /\ 0 <= MaxTracked
    BY BehaviorAssumption DEF IsInjective
  <2> QED BY <2>1, <2>2, <2>3, <2>4, NoEvidenceSound DEF Scored
<1>4. Debts(mesh.routes, owed)
  <2>1. owed = {} /\ \A e \in Events : mesh.routes[e] = NoRoute
    BY DEF Init, EmptyMesh
  <2>2. \A e \in Events : Owes(mesh.routes[e], owed, e)
    BY <2>1 DEF Owes, NoRoute
  <2> QED BY <2>1, <2>2 DEF Debts
<1> QED
  BY <1>1, <1>2, <1>3, <1>4 DEF SInv, Scores

\* What every call starts from.
LEMMA CurrentDebts ==
    ASSUME SInv
    PROVE  /\ Ready(Current, now) /\ Good(Current, now) /\ Maps(Current)
           /\ Debts(Current.routes, owed)
           /\ now \in Nat /\ Maps(mesh) /\ Good(mesh, now)
           /\ \A blamed \in BlameOrders : Scored(Blamed(blamed))
<1>1. Ready(Current, now) /\ Good(Current, now) /\ Maps(Current) /\ now \in Nat
  BY CurrentAccounts DEF SInv, Scores, LInv
<1>2. Maps(mesh) /\ Good(mesh, now)
  BY DEF SInv, Scores, LInv, AInv, IInv, Good, Core
<1>3. FewerRoutes(mesh, Current)
  BY DEF FewerRoutes, Current, Prune, Pruned, Unexpired
<1>4. Debts(Current.routes, owed)
  BY <1>3, DebtsFewer DEF SInv, Scores
<1>5. ASSUME NEW blamed \in BlameOrders PROVE Scored(Blamed(blamed))
  <2>1. blamed \in Seq(Peers)
    BY <1>2, BlameOrdersPeers DEF SInv, Scores
  <2> QED BY <2>1, UnservedScored DEF SInv, Scores, Blamed
<1> QED
  BY <1>1, <1>2, <1>4, <1>5

\* Rewards and penalties keep the table sound.
LEMMA RewardsScored ==
    ASSUME NEW b, Scored(b), NEW p \in Peers
    PROVE  Scored(RecordInvalid(b, p)) /\ Scored(RecordValid(b, p))
<1>1. -InvalidMessagePenalty \in Int /\ ValidFrameReward \in Int
  BY BehaviorAssumption
<1> QED
  BY <1>1, RecordScored DEF RecordInvalid, RecordValid

\* A call that returns through Return with a sound table.
LEMMA ReturnScores ==
    ASSUME SInv, NEW m, NEW b, NEW sends, Return(m, b, sends), Scored(b), Debts(m.routes, owed')
    PROVE  Scores'
<1>1. now' = now /\ mesh' = m /\ behavior' = b /\ out' = [Nothing EXCEPT !.sends = sends]
  BY DEF Return
<1>2. now' <= MaxTime
  BY <1>1 DEF SInv, Scores
<1>3. out'.from = Nobody
  BY <1>1 DEF Nothing
<1>4. Scored(behavior')
  BY <1>1
<1>5. Debts(mesh'.routes, owed')
  BY <1>1
<1> QED
  BY <1>2, <1>3, <1>4, <1>5 DEF Scores

\* A call that changes nothing but what prune does.
LEMMA ReplyScores ==
    ASSUME SInv, NEW p \in Peers, NEW sends, NEW blamed \in BlameOrders,
           Reply(sends, blamed) \/ Refuse(p, blamed)
    PROVE  Scores'
<1>1. Debts(Current.routes, owed) /\ Scored(Blamed(blamed))
  BY CurrentDebts
<1>2. Scored(RecordInvalid(Blamed(blamed), p))
  BY <1>1, RewardsScored
<1>3. owed' = owed
  BY DEF Reply, Refuse
<1>4. Debts(Current.routes, owed')
  BY <1>1, <1>3
<1>5. CASE Reply(sends, blamed)
  <2>1. Return(Current, Blamed(blamed), sends)
    BY <1>5 DEF Reply
  <2> QED BY <1>1, <1>4, <2>1, ReturnScores
<1>6. CASE Refuse(p, blamed)
  <2>1. Return(Current, RecordInvalid(Blamed(blamed), p), {})
    BY <1>6 DEF Refuse
  <2> QED BY <1>2, <1>4, <2>1, ReturnScores
<1> QED
  BY <1>5, <1>6

\* A closed route keeps its first provider; the other routes are as before.
Closes(m, n, e) ==
    /\ \A x \in Events : x # e => n.routes[x] = m.routes[x]
    /\ n.routes[e].fulfilled /\ n.routes[e].peer = m.routes[e].peer

\* dismiss_frame and receive_frame close the route they answer.
LEMMA RouteCloses ==
    ASSUME NEW m, NEW e \in Events, NEW t \in Nat, Ready(m, t) \/ Maps(m)
    PROVE  /\ Maps(m) => Closes(m, RemovePending(CloseRoute(m, e), {e}), e)
           /\ Ready(m, t) => Closes(m, AcceptFrame(m, e, t), e)
<1>1. ASSUME NEW k, Maps(k)
      PROVE  /\ Maps(CloseRoute(k, e)) /\ Closes(k, CloseRoute(k, e), e)
             /\ CloseRoute(k, e).delivered = k.delivered
             /\ \A S : RemovePending(k, S).routes = k.routes
             /\ RememberDelivered(k, e, t).routes = k.routes
             /\ StoreEvent(k, e, t).routes = k.routes
  <2>1. Maps(CloseRoute(k, e)) /\ Closes(k, CloseRoute(k, e), e) /\ CloseRoute(k, e).delivered = k.delivered
    <3> DEFINE r == [k.routes[e] EXCEPT !.fulfilled = TRUE, !.disrupted = {}]
    <3>1. k.routes[e] \in Route
      BY <1>1 DEF Maps
    <3>2. r \in Route /\ r.fulfilled /\ r.peer = k.routes[e].peer
      BY <3>1 DEF Route
    <3>3. CloseRoute(k, e) = [k EXCEPT !.routes = [k.routes EXCEPT ![e] = r]]
      BY <1>1, <3>1 DEF CloseRoute, Maps, Route
    <3> HIDE DEF r
    <3> QED BY <1>1, <3>2, <3>3 DEF Maps, Closes
  <2>2. \A S : RemovePending(k, S).routes = k.routes
    BY <1>1 DEF Maps, RemovePending
  <2>3. RememberDelivered(k, e, t).routes = k.routes
    BY <1>1 DEF Maps, RememberDelivered
  <2>4. StoreEvent(k, e, t).routes = k.routes
    BY <1>1 DEF Maps, StoreEvent
  <2> QED BY <2>1, <2>2, <2>3, <2>4
<1>2. ASSUME Maps(m) PROVE Closes(m, RemovePending(CloseRoute(m, e), {e}), e)
  <2> DEFINE c == CloseRoute(m, e)
  <2>1. Maps(c) /\ Closes(m, c, e)
    BY <1>1, <1>2
  <2> HIDE DEF c
  <2>2. RemovePending(c, {e}).routes = c.routes
    BY <1>1, <2>1
  <2>3. Closes(m, RemovePending(c, {e}), e)
    BY <2>1, <2>2 DEF Closes
  <2> QED BY <2>3 DEF c
<1>3. ASSUME Ready(m, t) PROVE Closes(m, AcceptFrame(m, e, t), e)
  <2> DEFINE s == StoreEvent(m, e, t)
             c == CloseRoute(s, e)
             d == RememberDelivered(c, e, t)
             n == IF IsNewDelivery(c, e) THEN d ELSE c
  <2>1. Maps(m) /\ Maps(s) /\ Ready(s, t)
    BY <1>3, StoreReady DEF Ready, Good, Core
  <2>2. s.routes = m.routes
    BY <1>1, <2>1
  <2> HIDE DEF s
  <2>3. /\ Maps(c) /\ Closes(s, c, e) /\ Core(c, t)
        /\ \A x \in Events : ExpiriesOf(c, x) = ExpiriesOf(s, x)
    BY <1>1, <2>1, CloseGood DEF Ready
  <2>4. Fresh(c, t)
    BY <2>1, <2>3 DEF Ready, Fresh
  <2> HIDE DEF c
  <2>5. d.routes = c.routes /\ Maps(d)
    BY <1>1, <2>3, <2>4, DeliveredCore DEF Core
  <2> HIDE DEF d
  <2>6. n.routes = c.routes /\ Maps(n)
    BY <2>3, <2>5
  <2> HIDE DEF n
  <2>7. RemovePending(n, {e}).routes = c.routes
    BY <1>1, <2>6
  <2>8. Closes(m, RemovePending(n, {e}), e)
    BY <2>2, <2>3, <2>7 DEF Closes
  <2> QED BY <2>8 DEF AcceptFrame, n, d, c, s
<1> QED
  BY <1>2, <1>3

\* Whoever closes a route settles its debts.
LEMMA DebtsSettled ==
    ASSUME NEW m, NEW debts, Debts(m.routes, debts), NEW e \in Events, m.routes[e].expires > 0,
           NEW n, Closes(m, n, e)
    PROVE  Debts(n.routes, {pair \in debts : pair[2] # e})
<1> DEFINE after == {pair \in debts : pair[2] # e}
<1>1. after \in SUBSET (Peers \X Events)
  BY DEF Debts
<1>2. ASSUME NEW x \in Events, x # e
      PROVE  n.routes[x] = m.routes[x] /\ \A p \in Peers : <<p, x>> \in after <=> <<p, x>> \in debts
  BY <1>2 DEF Closes
<1>3. Owes(n.routes[e], after, e)
  BY DEF Owes, Debts, Closes
<1> HIDE DEF after
<1>4. \A x \in Events :
        \/ /\ n.routes[x] = m.routes[x] \/ n.routes[x] = NoRoute
           /\ \A p \in Peers : <<p, x>> \in after <=> <<p, x>> \in debts
        \/ Owes(n.routes[x], after, x)
  BY <1>2, <1>3
<1>5. Debts(n.routes, after)
  BY <1>1, <1>4, DebtsChanged
<1> QED
  BY <1>5 DEF after

\* The local calls earn their scores.
LEMMA LocalCallScores ==
    ASSUME SInv, LocalCall
    PROVE  Scores'
<1>1. /\ Ready(Current, now) /\ Good(Current, now) /\ Maps(Current)
      /\ Debts(Current.routes, owed)
      /\ now \in Nat /\ Maps(mesh) /\ Good(mesh, now)
  BY CurrentDebts
<1>2. ASSUME NEW blamed \in BlameOrders PROVE Scored(Blamed(blamed))
  BY CurrentDebts
<1>0. Scored(behavior) /\ Debts(mesh.routes, owed)
  BY DEF SInv, Scores
<1>3. ASSUME NEW e \in Events
      PROVE  /\ Debts(StoreEvent(Current, e, now).routes, owed)
             /\ Debts(RememberInventory(StoreEvent(Current, e, now), e, now).routes, owed)
  <2> DEFINE s == StoreEvent(Current, e, now)
  <2>1. Maps(s)
    BY <1>1, StoreReady DEF Ready, Good, Core
  <2>2. FewerRoutes(Current, s)
    BY <1>1, RoutesFewer
  <2> HIDE DEF s
  <2>3. FewerRoutes(s, RememberInventory(s, e, now))
    BY <1>1, <2>1, RoutesFewer
  <2>4. Debts(s.routes, owed)
    BY <1>1, <2>2, DebtsFewer
  <2>5. Debts(RememberInventory(s, e, now).routes, owed)
    BY <2>3, <2>4, DebtsFewer
  <2> QED BY <2>4, <2>5 DEF s
<1>4. ASSUME NEW e \in Events, NEW peers \in PeerLists, Publish(e, peers) PROVE Scores'
  <2>1. PICK blamed \in BlameOrders : \E sends :
           \/ Return(RememberInventory(StoreEvent(Current, e, now), e, now), Blamed(blamed), sends)
           \/ Return(StoreEvent(Current, e, now), Blamed(blamed), sends)
    BY <1>4 DEF Publish
  <2>2. owed' = owed
    BY <1>4 DEF Publish
  <2> QED BY <1>2, <1>3, <2>1, <2>2, ReturnScores
<1>5. ASSUME NEW e \in Events, NEW p \in Peers, ReplayToPeer(e, p) PROVE Scores'
  <2>1. PICK blamed \in BlameOrders : \E sends :
           Return(StoreEvent(Current, e, now), Blamed(blamed), sends)
    BY <1>5 DEF ReplayToPeer
  <2>2. owed' = owed
    BY <1>5 DEF ReplayToPeer
  <2> QED BY <1>2, <1>3, <2>1, <2>2, ReturnScores
<1>6. ASSUME NEW p \in Peers, ReplayCachedToPeer(p) PROVE Scores'
  BY <1>6, ReplyScores DEF ReplayCachedToPeer
<1>7. ASSUME Maintain PROVE Scores'
  <2>1. PICK blamed \in BlameOrders : Reply({}, blamed)
    BY <1>7 DEF Maintain
  <2>2. Return(Current, Blamed(blamed), {}) /\ owed' = owed
    BY <2>1 DEF Reply
  <2> QED BY <1>1, <1>2, <2>2, ReturnScores
<1>8. ASSUME NEW p \in Peers, RecordInvalidMessage(p) PROVE Scores'
  <2>1. Return(mesh, RecordInvalid(behavior, p), {}) /\ owed' = owed
    BY <1>8 DEF RecordInvalidMessage
  <2>2. Scored(RecordInvalid(behavior, p)) /\ Debts(mesh.routes, owed')
    BY <1>0, <2>1, RewardsScored
  <2> QED BY <2>1, <2>2, ReturnScores
<1>9. ASSUME NEW p \in Peers, NEW e \in Events, DismissFrame(p, e) PROVE Scores'
  <2> DEFINE n == RemovePending(CloseRoute(mesh, e), {e})
  <2>1. Return(n, behavior, {}) /\ mesh.routes[e].expires > 0 /\ owed' = {pair \in owed : pair[2] # e}
    BY <1>9 DEF DismissFrame, Settle, Routed
  <2>2. Closes(mesh, n, e)
    BY <1>1, RouteCloses
  <2> HIDE DEF n
  <2>3. Debts(n.routes, owed')
    BY <1>0, <2>1, <2>2, DebtsSettled
  <2> QED BY <1>0, <2>1, <2>3, ReturnScores
<1>10. ASSUME NEW p \in Peers, NEW e \in Events, RecordTransportDisruption(p, e) PROVE Scores'
  <2> DEFINE n == [mesh EXCEPT !.routes[e].disrupted = @ \cup {p}]
             r == mesh.routes[e]
  <2>1. Return(n, behavior, {}) /\ owed' = owed \ {<<p, e>>}
    BY <1>10 DEF RecordTransportDisruption
  <2>2. /\ r \in Route /\ n.routes[e] = [r EXCEPT !.disrupted = @ \cup {p}]
        /\ \A x \in Events : x # e => n.routes[x] = mesh.routes[x]
    BY <1>1 DEF Maps, Route
  <2>3. Owes(n.routes[e], owed', e)
    <3> DEFINE q == n.routes[e]
    <3>1. /\ q.expires = r.expires /\ q.peer = r.peer /\ q.fulfilled = r.fulfilled
          /\ Providers(q) = Providers(r) /\ q.disrupted = r.disrupted \cup {p}
      BY <2>2 DEF Route, Providers
    <3>2. Owes(r, owed, e)
      BY <1>0 DEF Debts
    <3> HIDE DEF q, n, r
    <3>3. Owes(q, owed', e)
      BY <2>1, <3>1, <3>2 DEF Owes
    <3> QED BY <3>3 DEF q
  <2>4. owed' \in SUBSET (Peers \X Events)
    BY <1>0, <2>1 DEF Debts
  <2> HIDE DEF n
  <2>5. ASSUME NEW x \in Events PROVE Owes(n.routes[x], owed', x)
    <3>1. CASE x = e
      BY <2>3, <3>1
    <3>2. CASE x # e
      <4>1. n.routes[x] = mesh.routes[x] /\ Owes(mesh.routes[x], owed, x)
        BY <1>0, <2>2, <3>2 DEF Debts
      <4>2. \A q \in Peers : <<q, x>> \in owed' <=> <<q, x>> \in owed
        BY <2>1, <3>2
      <4> QED BY <4>1, <4>2 DEF Owes
    <3> QED BY <3>1, <3>2
  <2>6. Debts(n.routes, owed')
    BY <2>4, <2>5 DEF Debts
  <2> QED BY <1>0, <2>1, <2>6, ReturnScores
<1>11. ASSUME NEW e \in Events, SeedVerified(e) PROVE Scores'
  <2>1. PICK blamed \in BlameOrders : \E sends :
           Return(StoreEvent(Current, e, now), Blamed(blamed), sends)
    BY <1>11 DEF SeedVerified
  <2>2. owed' = owed
    BY <1>11 DEF SeedVerified
  <2> QED BY <1>2, <1>3, <2>1, <2>2, ReturnScores
<1> QED
  BY <1>4, <1>5, <1>6, <1>7, <1>8, <1>9, <1>10, <1>11 DEF LocalCall

\* The provider of a new route is the only one in debt for it (receive_inventory).
LEMMA OpenedDebts ==
    ASSUME SInv, NEW p \in Peers, NEW inv \in Announcements, AskFirstProvider(p, inv)
    PROVE  Debts(OpenRoute(Current, p, inv, now).routes, owed')
<1> DEFINE e == inv.event
           s == RememberInventory(Current, e, now)
           n == OpenRoute(Current, p, inv, now)
           t == now + Opt.route_ttl_ms
           r == [peer |-> p, alternates |-> {}, disrupted |-> {}, kind |-> inv.kind,
                 bytes |-> inv.bytes, hop |-> inv.hop, expires |-> t, fulfilled |-> FALSE]
<1>1. Ready(Current, now) /\ Maps(Current) /\ Debts(Current.routes, owed) /\ now \in Nat
  BY CurrentDebts
<1>2. e \in Events /\ IsNewInventory(Current, e, now)
  BY InputsAssumption DEF AskFirstProvider, FirstInventory, InvalidInventory
<1>3. Maps(s) /\ s.routes[e].expires = 0
  BY <1>1, <1>2, RememberReady DEF Ready, Good, Core
<1>4. FewerRoutes(Current, s)
  BY <1>1, <1>2, RoutesFewer
<1>5. owed' = {pair \in owed : pair[2] # e} \cup {<<p, e>>}
  BY DEF AskFirstProvider
<1>6. n = [s EXCEPT !.routes[e] = IF @.expires > 0 THEN @ ELSE r, !.wantForwarded[e] = t]
  BY DEF OpenRoute
<1> HIDE DEF s, n, r, t
<1>7. n.routes = [s.routes EXCEPT ![e] = r]
  BY <1>2, <1>3, <1>6 DEF Maps
<1>8. n.routes[e] = r /\ \A x \in Events : x # e => n.routes[x] = s.routes[x]
  BY <1>2, <1>3, <1>7 DEF Maps
<1>9. Owes(r, owed', e)
  <2>1. r.peer = p /\ Providers(r) \ r.disrupted = {p}
    BY DEF r, Providers
  <2>2. \A q \in Peers : <<q, e>> \in owed' <=> q = p
    BY <1>5
  <2> QED BY <2>1, <2>2 DEF Owes
<1>10. owed' \in SUBSET (Peers \X Events)
  BY <1>1, <1>2, <1>5 DEF Debts
<1>11. ASSUME NEW x \in Events PROVE Owes(n.routes[x], owed', x)
  <2>1. CASE x = e
    BY <1>8, <1>9, <2>1
  <2>2. CASE x # e
    <3>1. n.routes[x] = Current.routes[x] \/ n.routes[x] = NoRoute
      BY <1>4, <1>8, <2>2 DEF FewerRoutes
    <3>2. \A q \in Peers : <<q, x>> \in owed' <=> <<q, x>> \in owed
      BY <1>5, <2>2
    <3>3. CASE n.routes[x] = NoRoute
      BY <3>3 DEF Owes, NoRoute
    <3>4. CASE n.routes[x] = Current.routes[x]
      BY <1>1, <3>2, <3>4 DEF Owes, Debts
    <3> QED BY <3>1, <3>3, <3>4
  <2> QED BY <2>1, <2>2
<1> QED
  BY <1>10, <1>11 DEF Debts, n

\* Asking one more provider, or one again, puts it in debt.
LEMMA RepeatedDebts ==
    ASSUME SInv, NEW p \in Peers, NEW inv \in Announcements, AskAnotherProvider(p, inv)
    PROVE  Debts(RepeatRoute(Current, p, inv, now).routes, owed')
<1> DEFINE e == inv.event
           n == RepeatRoute(Current, p, inv, now)
           r == Current.routes[e]
           h == RaiseHop(r, inv.hop)
           t == now + Opt.route_ttl_ms
<1>1. Ready(Current, now) /\ Maps(Current) /\ Debts(Current.routes, owed) /\ now \in Nat
  BY CurrentDebts
<1>2. e \in Events /\ r.expires > 0 /\ r \in Route /\ inv.hop \in Nat
  BY <1>1, InputsAssumption DEF AskAnotherProvider, RepeatedInventory, Routed, Maps
<1>3. owed' = owed \cup {<<p, e>>}
  BY DEF AskAnotherProvider, Ask
<1>4. /\ h \in Route /\ h.peer = r.peer /\ h.alternates = r.alternates /\ h.disrupted = r.disrupted
      /\ h.expires = r.expires /\ h.fulfilled = r.fulfilled /\ Providers(h) = Providers(r)
  BY <1>2, RaiseHopRoute DEF RaiseHop, Route, Providers
<1>5. n = IF p \in Providers(h)
          THEN [Current EXCEPT !.routes[e] = [h EXCEPT !.disrupted = @ \ {p}]]
          ELSE [Current EXCEPT !.routes[e] = [h EXCEPT !.alternates = @ \cup {p}, !.expires = t,
                                                       !.disrupted = @ \ {p}],
                               !.seen[e] = t, !.wantForwarded[e] = t]
  BY DEF RepeatRoute
<1>6. Owes(r, owed, e)
  BY <1>1, <1>2 DEF Debts
<1> HIDE DEF n, h
<1>7. \A x \in Events : x # e => n.routes[x] = Current.routes[x]
  BY <1>1, <1>2, <1>5 DEF Maps
<1>8. /\ n.routes[e].peer = r.peer /\ n.routes[e].fulfilled = r.fulfilled
      /\ Providers(n.routes[e]) = Providers(r) \cup {p}
      /\ n.routes[e].disrupted = r.disrupted \ {p}
  <2>1. CASE p \in Providers(h)
    <3>1. n.routes[e] = [h EXCEPT !.disrupted = h.disrupted \ {p}]
      BY <1>1, <1>2, <1>5, <2>1 DEF Maps
    <3> QED BY <1>4, <2>1, <3>1 DEF Route, Providers
  <2>2. CASE p \notin Providers(h)
    <3>1. n.routes[e] = [h EXCEPT !.alternates = h.alternates \cup {p}, !.expires = t,
                                  !.disrupted = h.disrupted \ {p}]
      BY <1>1, <1>2, <1>5, <2>2 DEF Maps
    <3> QED BY <1>4, <3>1 DEF Route, Providers
  <2> QED BY <2>1, <2>2
<1>9. owed' \in SUBSET (Peers \X Events)
  BY <1>1, <1>2, <1>3 DEF Debts
<1>10. ASSUME NEW x \in Events PROVE Owes(n.routes[x], owed', x)
  <2>1. CASE x = e
    <3>1. \A q \in Peers : <<q, e>> \in owed' <=> q = p \/ <<q, e>> \in owed
      BY <1>3
    <3>2. r.peer \in Peers
      BY <1>2, <1>6 DEF Owes
    <3>3. ASSUME ~r.fulfilled, NEW q \in Peers
          PROVE  q \in Providers(n.routes[e]) \ n.routes[e].disrupted <=> <<q, e>> \in owed'
      <4>1. q \in Providers(r) \ r.disrupted <=> <<q, e>> \in owed
        BY <1>2, <1>6, <3>3 DEF Owes
      <4> QED BY <1>8, <3>1, <4>1
    <3> QED BY <1>8, <2>1, <3>2, <3>3 DEF Owes
  <2>2. CASE x # e
    <3>1. \A q \in Peers : <<q, x>> \in owed' <=> <<q, x>> \in owed
      BY <1>3, <2>2
    <3> QED BY <1>1, <1>7, <2>2, <3>1 DEF Owes, Debts
  <2> QED BY <2>1, <2>2
<1> QED
  BY <1>9, <1>10 DEF Debts, n

\* Received inventories earn their scores.
LEMMA ReceiveInventoryScores ==
    ASSUME SInv, ReceiveInventory
    PROVE  Scores'
<1>1. /\ Ready(Current, now) /\ Maps(Current) /\ Debts(Current.routes, owed)
  BY CurrentDebts
<1>2. ASSUME NEW blamed \in BlameOrders PROVE Scored(Blamed(blamed))
  BY CurrentDebts
<1>3. PICK p \in Peers, inv \in Announcements :
         \/ RefuseInventory(p, inv) \/ IgnoreInventory(p, inv) \/ AskFirstProvider(p, inv)
         \/ RefuseChangedInventory(p, inv) \/ AskAnotherProvider(p, inv)
         \/ TurnAwayProvider(p, inv)
  BY DEF ReceiveInventory
<1>4. CASE RefuseInventory(p, inv) \/ IgnoreInventory(p, inv) \/ RefuseChangedInventory(p, inv)
  <2>1. PICK blamed \in BlameOrders : Reply({}, blamed) \/ Refuse(p, blamed)
    BY <1>4 DEF RefuseInventory, IgnoreInventory, RefuseChangedInventory
  <2> QED BY <2>1, ReplyScores
<1>5. CASE AskFirstProvider(p, inv)
  <2> DEFINE n == OpenRoute(Current, p, inv, now)
             sends == {WantTo(p, inv.event)}
  <2>1. PICK blamed \in BlameOrders : Return(n, Blamed(blamed), sends)
    BY <1>5 DEF AskFirstProvider
  <2>2. Debts(n.routes, owed')
    BY <1>5, OpenedDebts
  <2> HIDE DEF n, sends
  <2> QED BY <1>2, <2>1, <2>2, ReturnScores
<1>6. CASE AskAnotherProvider(p, inv)
  <2> DEFINE n == RepeatRoute(Current, p, inv, now)
             sends == {WantTo(p, inv.event)}
  <2>1. PICK blamed \in BlameOrders : Return(n, Blamed(blamed), sends)
    BY <1>6 DEF AskAnotherProvider
  <2>2. Debts(n.routes, owed')
    BY <1>6, RepeatedDebts
  <2> HIDE DEF n, sends
  <2> QED BY <1>2, <2>1, <2>2, ReturnScores
<1>7. CASE TurnAwayProvider(p, inv)
  <2> DEFINE e == inv.event
             r == Current.routes[e]
             h == RaiseHop(r, inv.hop)
             n == [Current EXCEPT !.routes[e] = h]
  <2>1. e \in Events /\ r \in Route /\ inv.hop \in Nat
    BY <1>1, <1>7, InputsAssumption DEF TurnAwayProvider, RepeatedInventory, Routed, Maps
  <2>2. /\ h.peer = r.peer /\ h.disrupted = r.disrupted /\ h.expires = r.expires
        /\ h.fulfilled = r.fulfilled /\ Providers(h) = Providers(r)
    BY <2>1 DEF RaiseHop, Route, Providers
  <2>3. PICK blamed \in BlameOrders : Return(n, Blamed(blamed), {})
    BY <1>7 DEF TurnAwayProvider
  <2>4. owed' = owed
    BY <1>7 DEF TurnAwayProvider
  <2> HIDE DEF h
  <2>5. n.routes[e] = h /\ \A x \in Events : x # e => n.routes[x] = Current.routes[x]
    BY <1>1, <2>1 DEF Maps
  <2> HIDE DEF n
  <2>6. ASSUME NEW x \in Events PROVE Owes(n.routes[x], owed, x)
    <3>1. Owes(Current.routes[x], owed, x)
      BY <1>1 DEF Debts
    <3>2. CASE x = e
      BY <2>2, <2>5, <3>1, <3>2 DEF Owes
    <3>3. CASE x # e
      BY <2>5, <3>1, <3>3
    <3> QED BY <3>2, <3>3
  <2>7. Debts(n.routes, owed')
    BY <1>1, <2>4, <2>6 DEF Debts
  <2> QED BY <1>2, <2>3, <2>7, ReturnScores
<1> QED
  BY <1>3, <1>4, <1>5, <1>6, <1>7

\* Received wants and frames earn their scores.
LEMMA ReceiveScores ==
    ASSUME SInv, ReceiveWant \/ ReceiveFrame
    PROVE  Scores'
<1>1. /\ Ready(Current, now) /\ Maps(Current) /\ Debts(Current.routes, owed) /\ now \in Nat
  BY CurrentDebts
<1>2. ASSUME NEW blamed \in BlameOrders PROVE Scored(Blamed(blamed))
  BY CurrentDebts
<1>3. ASSUME NEW p \in Peers, RefuseWant(p) PROVE Scores'
  <2>1. PICK blamed \in BlameOrders : Refuse(p, blamed)
    BY <1>3 DEF RefuseWant
  <2> QED BY <2>1, ReplyScores
<1>4. ASSUME NEW p \in Peers, NEW e \in Events, ServeWant(p, e) \/ IgnoreWant(p, e) PROVE Scores'
  <2>1. PICK blamed \in BlameOrders : \E sends : Reply(sends, blamed)
    BY <1>4 DEF ServeWant, IgnoreWant
  <2> QED BY <2>1, ReplyScores
<1>5. ASSUME NEW p \in Peers, NEW e \in Events, RetainWant(p, e) PROVE Scores'
  <2> DEFINE n == JoinPending(Current, p, e, now)
  <2>1. AlreadyForwarded(n, e, now)
    BY <1>1, <1>5, WantAlreadyForwarded DEF RetainWant
  <2>2. PICK blamed \in BlameOrders : Return(n, Blamed(blamed), {}) /\ owed' = owed
    BY <1>5, <2>1 DEF RetainWant
  <2>3. n.routes = Current.routes
    BY <1>1 DEF JoinPending, Maps
  <2> HIDE DEF n
  <2>4. Debts(n.routes, owed')
    BY <1>1, <2>2, <2>3
  <2> QED BY <1>2, <2>2, <2>4, ReturnScores
<1>6. ASSUME NEW p \in Peers, NEW id \in Events \cup {MalformedId},
             NEW body \in Events \cup {Forged}, RefuseFrame(p, id, body)
      PROVE  Scores'
  <2>1. PICK blamed \in BlameOrders : Refuse(p, blamed)
    BY <1>6 DEF RefuseFrame
  <2> QED BY <2>1, ReplyScores
<1>7. ASSUME NEW p \in Peers, NEW e \in Events, AbsorbFrame(p, e) PROVE Scores'
  <2>1. PICK blamed \in BlameOrders : Reply({}, blamed)
    BY <1>7 DEF AbsorbFrame
  <2> QED BY <2>1, ReplyScores
<1>8. ASSUME NEW p \in Peers, NEW e \in Events, NEW peers \in PeerLists,
             AcceptFrameFrom(p, e, peers)
      PROVE  Scores'
  <2> DEFINE n == AcceptFrame(Current, e, now)
  <2>1. PICK blamed \in BlameOrders :
           /\ mesh' = n /\ behavior' = RecordValid(Blamed(blamed), p)
           /\ out'.from = IF IsNewDelivery(Current, e) THEN p ELSE Nobody
    BY <1>8 DEF AcceptFrameFrom
  <2>2. now' = now /\ owed' = {pair \in owed : pair[2] # e} /\ Current.routes[e].expires > 0
    BY <1>8 DEF AcceptFrameFrom, Settle, ValidFrame, FrameRequested, Routed
  <2>3. Closes(Current, n, e)
    BY <1>1, RouteCloses
  <2> HIDE DEF n
  <2>4. Debts(n.routes, owed')
    BY <1>1, <2>2, <2>3, DebtsSettled
  <2>5. Scored(behavior')
    BY <1>2, <2>1, RewardsScored
  <2>6. now' <= MaxTime /\ out'.from \in Peers \cup {Nobody}
    BY <2>1, <2>2 DEF SInv, Scores
  <2>7. Debts(mesh'.routes, owed')
    BY <2>1, <2>4
  <2> QED BY <2>5, <2>6, <2>7 DEF Scores
<1> QED
  BY <1>3, <1>4, <1>5, <1>6, <1>7, <1>8 DEF ReceiveWant, ReceiveFrame

\* Every step of the mesh earns the scores it gives.
LEMMA NextScores == SInv /\ [Next]_vars => SInv'
<1> SUFFICES ASSUME SInv, [Next]_vars PROVE SInv'
  OBVIOUS
<1>1. LInv'
  BY NextLedger DEF SInv
<1>2. Scores'
  <2>1. CASE Tick
    <3>1. /\ behavior' = behavior /\ mesh' = mesh /\ owed' = owed
          /\ now' = now + 1 /\ now < MaxTime /\ out' = Nothing
      BY <2>1 DEF Tick
    <3>2. now' <= MaxTime
      BY <3>1, InputsAssumption DEF SInv, LInv, AInv, IInv
    <3>3. out'.from \in Peers \cup {Nobody}
      BY <3>1 DEF Nothing
    <3> QED BY <3>1, <3>2, <3>3 DEF SInv, Scores
  <2>2. CASE UNCHANGED vars
    BY <2>2 DEF vars, SInv, Scores
  <2> QED BY <2>1, <2>2, LocalCallScores, ReceiveInventoryScores, ReceiveScores DEF Next
<1> QED
  BY <1>1, <1>2 DEF SInv

\* What the books and the ledger say of the types.
LEMMA MeshTyped ==
    ASSUME NEW m, Maps(m), Accounts(m)
    PROVE  m \in MeshType
<1>1. m.cacheOrder \in Seq(Events) /\ m.seenOrder \in Seq(Events) /\ m.deliveredOrder \in Seq(Events)
  BY DEF Accounts, CacheBook, Line
<1>2. m.cachedBytes \in Nat
  <2>1. Live(m.cached) \in SUBSET Events
    BY DEF Live
  <2> QED BY <2>1, BytesAdd DEF Accounts, CacheBook
<1>3. m.pendingCount \in Nat
  BY WaitersCounted DEF Accounts, WaitBook
<1> QED
  BY <1>1, <1>2, <1>3 DEF Maps, MeshType

\* Scores are earned: prune blames exactly the peers that owe an answer, and
\* behind the scores of record_peer_behavior stands the evidence, of at most
\* MaxTracked peers; every field has its type.
THEOREM ScoresAreEarned == Spec => []ScoresEarned
<1>1. SInv => ScoresEarned
  <2> SUFFICES ASSUME SInv PROVE ScoresEarned
    OBVIOUS
  <2>1. TypeOK
    <3>1. mesh \in MeshType
      BY MeshTyped DEF SInv, LInv, AInv, IInv, Good, Core
    <3>2. behavior \in BehaviorType
      BY DEF SInv, Scores, Scored, BehaviorType, Evidence, Counter
    <3>3. now \in 0..MaxTime
      BY InputsAssumption DEF SInv, Scores, LInv, AInv, IInv
    <3>4. served \in [Events -> [until : Nat, count : 0..2, since : SUBSET Events]]
      BY DEF SInv, LInv, Ledger, ServedType
    <3> QED BY <3>1, <3>2, <3>3, <3>4 DEF TypeOK, SInv, Scores, Debts
  <2>2. BlameMatchesDebt
    <3> SUFFICES ASSUME NEW e \in Events, mesh.routes[e].expires > 0, ~mesh.routes[e].fulfilled
                 PROVE  Providers(mesh.routes[e]) \ mesh.routes[e].disrupted
                          = {p \in Peers : <<p, e>> \in owed}
      BY DEF BlameMatchesDebt, Routed
    <3> DEFINE r == mesh.routes[e]
    <3>1. r \in Route /\ Owes(r, owed, e)
      BY DEF SInv, Scores, Debts, LInv, AInv, IInv, Good, Core, Maps
    <3>2. r.peer \in Peers /\ \A p \in Peers : p \in Providers(r) \ r.disrupted <=> <<p, e>> \in owed
      BY <3>1 DEF Owes
    <3>3. Providers(r) \subseteq Peers
      BY <3>1, <3>2 DEF Providers, Route
    <3> QED BY <3>2, <3>3
  <2>3. EvidenceAccounted
    <3>1. Scored(behavior)
      BY DEF SInv, Scores
    <3>2. Len(behavior.order) = Cardinality(Tracked(behavior))
      BY <3>1, DistinctCardinality DEF Scored, Tracked
    <3> QED BY <3>1, <3>2 DEF EvidenceAccounted, Scored, Consistent
  <2> QED BY <2>1, <2>2, <2>3 DEF ScoresEarned
<1> QED
  BY <1>1, InitScores, NextScores, PTL DEF Spec
=============================================================================
