---------------------------- MODULE InvWantMesh ----------------------------
(***************************************************************************)
(* One InvWantMesh (crates/nostr-pubsub/src/mesh.rs): the synchronous      *)
(* state machine that announces, requests, serves and delivers signed      *)
(* events.  Each public method is one action; where a method has several   *)
(* outcomes, each outcome is an action of its own, guarded by the          *)
(* conditions of the code's early returns.                                 *)
(*                                                                         *)
(* `now` is the now_ms the caller passes.  The callers read a monotonic    *)
(* clock, so it never goes back.                                           *)
(***************************************************************************)
EXTENDS MeshState

CONSTANTS
    Announcements,  \* the inventories peers may send: [event, kind, bytes, hop]
    PeerLists,      \* the `peers` arguments: sequences of MeshPeer records
    MaxTime         \* bound on the clock

ASSUME InputsAssumption ==
    /\ Announcements \subseteq [event : Events \cup {MalformedId}, kind : Nat, bytes : Nat, hop : Nat]
    /\ \A peers \in PeerLists : \A i \in DOMAIN peers : peers[i].id \in Peers
    /\ MaxTime \in Nat

VARIABLES
    mesh,      \* the maps of struct InvWantMesh
    behavior,  \* its peer_behaviors and peer_behavior_order
    now,       \* the clock the caller passes
    out,       \* what the last call returned: messages sent, event delivered
    owed,      \* history: <<peer, event>> asked with a WANT, neither answered nor disrupted
    served     \* history: per event, the end of its last delivery window, the number
               \* of deliveries within it and the other events delivered since

vars == <<mesh, behavior, now, out, owed, served>>

Nobody == 0
Nothing == [sends |-> {}, from |-> Nobody]

Init ==
    /\ mesh = EmptyMesh
    /\ behavior = EmptyBehavior
    /\ now = 0
    /\ out = Nothing
    /\ owed = {}
    /\ served = [e \in Events |-> [until |-> 0, count |-> 0, since |-> {}]]

\* Time passes between calls.
Tick ==
    /\ now < MaxTime
    /\ now' = now + 1
    /\ out' = Nothing
    /\ UNCHANGED <<mesh, behavior, owed, served>>

-----------------------------------------------------------------------------
(* Every timed call starts with prune(now_ms) *)

\* The alternates in the order of their BTreeSet.
Ascending(alternates) ==
    CHOOSE s \in SetToSeqs(alternates) : \A i, j \in DOMAIN s : i < j => s[i] < s[j]

\* The providers blamed for a route, in the order prune lists them.
BlamedProviders(r) ==
    Only(<<r.peer>> \o Ascending(r.alternates), Peers \ r.disrupted)

\* HashMap iteration visits the expired routes in any order.
BlameOrders ==
    {FlattenSeq([i \in DOMAIN routes |-> BlamedProviders(mesh.routes[routes[i]])]) :
        routes \in SetToSeqs(UnservedRoutes(mesh, now))}

\* The behaviour table after prune has blamed the unserved routes.
Blamed(blamed) == RecordUnserved(behavior, blamed)

Current == Prune(mesh, now)

\* What a call leaves behind: the maps, the scores, its messages, the clock and
\* the histories (a delivery overrides the histories, see AcceptFrameFrom).
Return(m, b, sends) ==
    /\ mesh' = m
    /\ behavior' = b
    /\ out' = [Nothing EXCEPT !.sends = sends]
    /\ UNCHANGED <<now, served>>

\* History: p now owes an answer for e; nobody owes one any more.
Ask(p, e) == owed' = owed \cup {<<p, e>>}
Settle(e) == owed' = {pair \in owed : pair[2] # e}

\* receive answers Err: the source is scored.
Refuse(p, blamed) ==
    Return(Current, RecordInvalid(Blamed(blamed), p), {}) /\ UNCHANGED owed

\* Only prune changed the state.
Reply(sends, blamed) ==
    Return(Current, Blamed(blamed), sends) /\ UNCHANGED owed

\* send_to_selected_peers, with the scores of behaviour table b.
SelectedPeers(b, peers, excluded) ==
    {p.id : p \in ToSet(SelectMeshPeers(PeersWithBehavior(b, peers), excluded,
                                        Opt.fanout, Opt.unknown_peer_reserve))}
-----------------------------------------------------------------------------
(* Local calls *)

\* publish, publish_verified: a remembered inventory is not announced again.
Publish(e, peers) ==
    \E blamed \in BlameOrders :
        LET stored  == StoreEvent(Current, e, now)
            targets == SelectedPeers(Blamed(blamed), peers, NoPeer)
        IN  /\ ValidEvent(e)
            /\ IF IsNewInventory(stored, e, now)
               THEN Return(RememberInventory(stored, e, now), Blamed(blamed),
                           {AnnouncementTo(p, e, Opt.max_hops) : p \in targets})
               ELSE Return(stored, Blamed(blamed), {})
            /\ UNCHANGED owed

\* seed_verified: cached without any traffic.
SeedVerified(e) ==
    \E blamed \in BlameOrders :
        /\ ValidEvent(e)
        /\ Return(StoreEvent(Current, e, now), Blamed(blamed), {})
        /\ UNCHANGED owed

\* replay_to_peer, replay_verified_to_peer.
ReplayToPeer(e, p) ==
    \E blamed \in BlameOrders :
        /\ ValidEvent(e)
        /\ Return(StoreEvent(Current, e, now), Blamed(blamed),
                  {AnnouncementTo(p, e, Opt.max_hops)})
        /\ UNCHANGED owed

\* replay_cached_to_peer: the whole cache, inventories only.
ReplayCachedToPeer(p) ==
    \E blamed \in BlameOrders :
        Reply({AnnouncementTo(p, e, Opt.max_hops) : e \in Live(Current.cached)}, blamed)

\* maintain, and the calls above when they refuse the event after their prune.
Maintain ==
    \E blamed \in BlameOrders : Reply({}, blamed)

\* record_invalid_message: the transport refused a message; no prune.
RecordInvalidMessage(p) ==
    Return(mesh, RecordInvalid(behavior, p), {}) /\ UNCHANGED owed

\* dismiss_frame: the application refused a served frame; no prune.
DismissFrame(p, e) ==
    /\ e \in Routed(mesh) /\ p \in Providers(mesh.routes[e])
    /\ Return(RemovePending(CloseRoute(mesh, e), {e}), behavior, {})
    /\ Settle(e)

\* record_transport_disruption of an outstanding request; no prune.
RecordTransportDisruption(p, e) ==
    /\ e \in Routed(mesh) /\ ~mesh.routes[e].fulfilled
    /\ p \in Providers(mesh.routes[e]) \ mesh.routes[e].disrupted
    /\ Return([mesh EXCEPT !.routes[e].disrupted = @ \cup {p}], behavior, {})
    /\ owed' = owed \ {<<p, e>>}

-----------------------------------------------------------------------------
(* receive: inventories *)

\* Malformed id, unsupported kind, oversized payload or too many hops.
RefuseInventory(p, inv) ==
    /\ InvalidInventory(inv)
    /\ \E blamed \in BlameOrders : Refuse(p, blamed)

\* Exhausted, cached, answered, or remembered without a route.
IgnoreInventory(p, inv) ==
    /\ ~InvalidInventory(inv)
    /\ ~RepeatedInventory(Current, inv, now)
    /\ ~FirstInventory(Current, inv, now)
    /\ \E blamed \in BlameOrders : Reply({}, blamed)

AskFirstProvider(p, inv) ==
    /\ FirstInventory(Current, inv, now)
    /\ \E blamed \in BlameOrders :
          Return(OpenRoute(Current, p, inv, now), Blamed(blamed), {WantTo(p, inv.event)})
    /\ owed' = {pair \in owed : pair[2] # inv.event} \cup {<<p, inv.event>>}

RefuseChangedInventory(p, inv) ==
    /\ RepeatedInventory(Current, inv, now)
    /\ ~SameAnnouncement(Current.routes[inv.event], inv)
    /\ \E blamed \in BlameOrders : Refuse(p, blamed)

AskAnotherProvider(p, inv) ==
    /\ RepeatedInventory(Current, inv, now)
    /\ SameAnnouncement(Current.routes[inv.event], inv)
    /\ MayProvide(Current.routes[inv.event], p)
    /\ \E blamed \in BlameOrders :
          Return(RepeatRoute(Current, p, inv, now), Blamed(blamed), {WantTo(p, inv.event)})
    /\ Ask(p, inv.event)

\* A source beyond the provider limit still raises the route's hop budget.
TurnAwayProvider(p, inv) ==
    /\ RepeatedInventory(Current, inv, now)
    /\ SameAnnouncement(Current.routes[inv.event], inv)
    /\ ~MayProvide(Current.routes[inv.event], p)
    /\ \E blamed \in BlameOrders :
          Return([Current EXCEPT !.routes[inv.event] = RaiseHop(@, inv.hop)], Blamed(blamed), {})
    /\ UNCHANGED owed

-----------------------------------------------------------------------------
(* receive: wants *)

RefuseWant(p) ==
    \E blamed \in BlameOrders : Refuse(p, blamed)

ServeWant(p, e) ==
    /\ Current.cached[e] > 0
    /\ \E blamed \in BlameOrders : Reply({FrameTo(p, e)}, blamed)

\* Neither cached nor asked for: the want is forgotten.
IgnoreWant(p, e) ==
    /\ Current.cached[e] = 0
    /\ e \notin Routed(Current) \/ Current.routes[e].fulfilled
    /\ \E blamed \in BlameOrders : Reply({}, blamed)

\* The peer waits for the answer this mesh has asked for.
RetainWant(p, e) ==
    /\ Current.cached[e] = 0
    /\ e \in Routed(Current) /\ ~Current.routes[e].fulfilled
    /\ LET joined == JoinPending(Current, p, e, now) IN
       \E blamed \in BlameOrders :
          IF AlreadyForwarded(joined, e, now)
          THEN Return(joined, Blamed(blamed), {}) /\ UNCHANGED owed
          ELSE /\ Return(ForwardWant(joined, e), Blamed(blamed), {WantTo(joined.routes[e].peer, e)})
               /\ Ask(joined.routes[e].peer, e)

-----------------------------------------------------------------------------
(* receive, receive_verified_frame: frames *)

RefuseFrame(p, id, body) ==
    /\ ~ValidFrame(Current, p, id, body)
    /\ \E blamed \in BlameOrders : Refuse(p, blamed)

\* A requested answer that another provider beat: verified, not scored.
AbsorbFrame(p, e) ==
    /\ ValidFrame(Current, p, e, e)
    /\ Current.routes[e].fulfilled
    /\ \E blamed \in BlameOrders : Reply({}, blamed)

\* History: e was delivered within event_ttl_ms, and its record had room.
Remembered(e) ==
    now < served[e].until /\ Cardinality(served[e].since) < Opt.max_seen_events

\* History: 2 stands for "more than once".
Delivery(e) ==
    [f \in Events |->
        IF f = e
        THEN [until |-> now + Opt.event_ttl_ms, count |-> IF Remembered(e) THEN 2 ELSE 1, since |-> {}]
        ELSE [served[f] EXCEPT !.since = IF served[f].count = 0 THEN {} ELSE @ \cup {e}]]

AcceptFrameFrom(p, e, peers) ==
    /\ ValidFrame(Current, p, e, e)
    /\ ~Current.routes[e].fulfilled
    /\ \E blamed \in BlameOrders :
          LET rewarded == RecordValid(Blamed(blamed), p)
              hop      == Current.routes[e].hop
              targets  == IF hop > 1 THEN SelectedPeers(rewarded, peers, p) ELSE {}
              fresh    == IsNewDelivery(Current, e)
          IN  /\ mesh' = AcceptFrame(Current, e, now)
              /\ behavior' = rewarded
              /\ out' = [sends |-> {FrameTo(q, e) : q \in Current.pending[e].peers}
                                      \cup {AnnouncementTo(q, e, hop - 1) : q \in targets},
                         from  |-> IF fresh THEN p ELSE Nobody]
              /\ served' = IF fresh THEN Delivery(e) ELSE served
    /\ Settle(e)
    /\ UNCHANGED now

-----------------------------------------------------------------------------
LocalCall ==
    \/ \E e \in Events, peers \in PeerLists : Publish(e, peers)
    \/ \E e \in Events : SeedVerified(e)
    \/ \E e \in Events, p \in Peers : ReplayToPeer(e, p)
    \/ \E p \in Peers : ReplayCachedToPeer(p)
    \/ Maintain
    \/ \E p \in Peers : RecordInvalidMessage(p)
    \/ \E p \in Peers, e \in Events : DismissFrame(p, e)
    \/ \E p \in Peers, e \in Events : RecordTransportDisruption(p, e)

ReceiveInventory ==
    \E p \in Peers, inv \in Announcements :
        \/ RefuseInventory(p, inv)
        \/ IgnoreInventory(p, inv)
        \/ AskFirstProvider(p, inv)
        \/ RefuseChangedInventory(p, inv)
        \/ AskAnotherProvider(p, inv)
        \/ TurnAwayProvider(p, inv)

ReceiveWant ==
    \E p \in Peers :
        \/ RefuseWant(p)
        \/ \E e \in Events : ServeWant(p, e) \/ IgnoreWant(p, e) \/ RetainWant(p, e)

ReceiveFrame ==
    \E p \in Peers :
        \/ \E id \in Events \cup {MalformedId}, body \in Events \cup {Forged} :
              RefuseFrame(p, id, body)
        \/ \E e \in Events : AbsorbFrame(p, e)
        \/ \E e \in Events, peers \in PeerLists : AcceptFrameFrom(p, e, peers)

Next == Tick \/ LocalCall \/ ReceiveInventory \/ ReceiveWant \/ ReceiveFrame

Spec == Init /\ [][Next]_vars

-----------------------------------------------------------------------------
(* Properties *)

\* Every map, order, counter and score has its type.
TypeOK ==
    /\ mesh \in MeshType
    /\ behavior \in BehaviorType
    /\ now \in 0..MaxTime
    /\ out.from \in Peers \cup {Nobody}
    /\ owed \subseteq Peers \X Events
    /\ served \in [Events -> [until : Nat, count : 0..2, since : SUBSET Events]]

\* A live route, its seen inventory and its forwarded-want marker expire at the
\* same instant, whatever sequence of inventories, evictions and prunes touched
\* them (receive_inventory, remember_inventory, prune): a route can neither
\* outlive the inventory that would refresh it nor lose the marker that
\* receive_frame requires.
RoutesCoherent == CoherentRoutes(mesh)

\* A peer only ever waits for an event that an open route is still asking for
\* (receive_want, dismiss_frame, receive_frame, prune, remember_inventory).
WaitersHaveRoute == OpenWaits(mesh)

\* No call ever works on an expired cache entry, inventory, delivery record or
\* route: after the prune it starts with, all that is left is unexpired.
NothingStale == Fresh(Current, now)

\* order enumerates the live keys of f, each once.
Enumerates(order, f) ==
    ToSet(order) = Live(f) /\ Len(order) = Cardinality(Live(f))

\* The queues behind FIFO eviction agree with their maps, the running totals
\* (cached_event_bytes, pending_peer_count) with the sums they stand for, and
\* every bound of the options holds in every state.
Accounted ==
    /\ Enumerates(mesh.cacheOrder, mesh.cached)
    /\ Enumerates(mesh.seenOrder, mesh.seen)
    /\ Enumerates(mesh.deliveredOrder, mesh.delivered)
    /\ mesh.cachedBytes = Bytes(Live(mesh.cached))
    /\ mesh.pendingCount = PeerCount(mesh.pending, Events)
    /\ Len(mesh.cacheOrder) <= Opt.max_cached_events
    /\ mesh.cachedBytes <= Opt.max_cached_event_bytes
    /\ Len(mesh.seenOrder) <= Opt.max_seen_events
    /\ Len(mesh.deliveredOrder) <= Opt.max_seen_events
    /\ \A e \in Events : Cardinality(mesh.pending[e].peers) <= Opt.max_pending_peers_per_event
    /\ \A e \in Routed(mesh) : Cardinality(Providers(mesh.routes[e])) <= MaxProviders

\* The peers prune would blame for an open route are exactly those that were
\* sent a WANT for this route and whose request neither the transport lost nor
\* anybody answered.
BlameMatchesDebt ==
    \A e \in Routed(mesh) :
        LET r == mesh.routes[e] IN
        ~r.fulfilled => Providers(r) \ r.disrupted = {p \in Peers : <<p, e>> \in owed}

\* Every sample of a tracked peer is one piece of evidence, the table tracks
\* each peer once and never more than MaxTracked of them, and forgetting a peer
\* forgets all of its evidence (record_peer_behavior).
EvidenceAccounted ==
    /\ Len(behavior.order) = Cardinality(Tracked(behavior))
    /\ Len(behavior.order) <= MaxTracked
    /\ \A p \in Peers :
          LET b == behavior.table[p] IN
          /\ p \notin Tracked(behavior) => b = NoEvidence
          /\ b.samples < CounterMax => b.samples = b.valid + b.invalid + b.unserved

\* Scores are earned: whoever would be blamed owes an answer, and the counters
\* behind a score are the evidence, of a tracked peer only (prune,
\* transport_disrupted, record_peer_behavior).
ScoresEarned == TypeOK /\ BlameMatchesDebt /\ EvidenceAccounted

\* No event is delivered to the application twice within event_ttl_ms unless
\* max_seen_events other events were delivered in between, though its route and
\* its cache entry may be gone and it may be fetched again (remember_delivered).
DeliveredOnce == \A e \in Events : served[e].count <= 1

\* "seen-inventory, reverse-route, pending-peer, and forwarded-want state
\* expires or is evicted together" (README.md): a waiting peer is not forgotten
\* while the route it waits on stays open.
WaitersKeptWithRoute ==
    [][\A e \in Waiting(mesh) :
          (e \in Routed(mesh') /\ ~mesh'.routes[e].fulfilled
              /\ mesh'.routes[e].peer = mesh.routes[e].peer
              /\ mesh.routes[e].expires > now)
          => e \in Waiting(mesh')]_vars
=============================================================================
