----------------------------- MODULE FipsServing -----------------------------
(***************************************************************************)
(* The serving side of a FIPS pubsub client (crates/nostr-pubsub-fips:     *)
(* client_inner.rs, client_publication.rs, replay_source.rs,               *)
(* anonymous_publication.rs, privacy_roles.rs): peers subscribe and want   *)
(* events; the application publishes, and may attach a store from which    *)
(* replay workers serve what has left the live window.                     *)
(*                                                                         *)
(* The transport task handles one frame at a time; the workers and the     *)
(* application's publications run beside it and await the store and the    *)
(* policy, so what they looked at may have changed when they go on.  What  *)
(* a frame may carry depends on the client's privacy role.                 *)
(***************************************************************************)
EXTENDS RecentEvents, FiniteSets

CONSTANTS
    Events, Peers,
    SubIds,      \* subscription ids that peers choose
    Matches,     \* Matches[s]: the events its filters accept
    Public,      \* events of authors a receive-only client may export
    Refused,     \* the events the policy drops
    Roles,       \* the roles to start with: full, receiver, publisher, discovery
    Stores,      \* the stores the application attaches; any holds every event
    Workers,     \* replay workers
    MaxSubsPerPeer, Fanout, MaxReplay, MaxHops,
    ReplayCap, OutboxCap,   \* places in the replay and the transport queue
    MaxInputs    \* bound on the frames handled and calls made

ASSUME ServingAssumption ==
    /\ IsFiniteSet(Peers) /\ Matches \in [SubIds -> SUBSET Events] /\ "any" \notin SubIds
    /\ OutboxCap \in Nat /\ MaxReplay \in Nat /\ MaxHops \in Nat
    /\ MaxPayloads \in Nat /\ MaxSeenIds \in Nat

NoStore == "none"
Idle == [at |-> "idle"]

VARIABLES
    role,
    open,        \* admission
    peerSubs,    \* peer_subscriptions: <<peer, subscription>>
    recent,      \* recent_events
    outbox,      \* frames queued for the transport
    source,      \* replay_source: the attached store
    requests,    \* the queue of replay requests
    worker,      \* [Workers -> what each is at]
    publishing,  \* the publication under way
    pending,     \* the providers an anonymous publication still waits for
    outcome,     \* what that publication returned
    answers,     \* history: the providers asked, and <<provider, accepted>> receipts
    inputs

vars == <<role, open, peerSubs, recent, outbox, source, requests, worker, publishing,
          pending, outcome, answers, inputs>>

-----------------------------------------------------------------------------
(* ClientRole *)

\* can_export
CanExport(e) == role = "full" \/ (role = "receiver" /\ e \in Public)

\* Mutant: only inventories are checked on their way out.
AllowsBodies(r, frame) ==
    role = "full" \/ frame.kind # "INV" \/ (CanExport(frame.event) /\ Cached(r, frame.event))

\* validate_outbound, r being the events cached by then.
Allows(r, frame) ==
    \/ role = "full"
    \/ role = "receiver" /\ frame.kind = "EVENT" /\ CanExport(frame.event)
    \/ role = "receiver" /\ frame.kind = "INV" /\ CanExport(frame.event) /\ Cached(r, frame.event)
    \/ role = "publisher" /\ frame.kind = "PUBLISH"

\* send_frame, in order: a frame that may not go or finds no place is dropped.
\* `store` names the store a replayed frame is from.
Frame(p, kind, subs, e, store) ==
    [to |-> p, kind |-> kind, subs |-> subs, event |-> e, store |-> store]
Queued(r, frames) ==
    FoldLeft(LAMBDA q, f : IF Allows(r, f) /\ Len(q) < OutboxCap THEN Append(q, f) ELSE q,
             outbox, frames)

\* inventory_frame: a receive-only client keeps the body for the WANT.
Exportable(events) == Only(events, {e \in ToSet(events) : CanExport(e)})
KeptForWant(r, events, hops) ==
    IF role # "receiver" THEN r
    ELSE FoldLeft(LAMBDA q, e : RememberPublished(q, e, hops), r, Exportable(events))

-----------------------------------------------------------------------------
SubsFor(p, e) == {s \in SubIds : <<p, s>> \in peerSubs /\ e \in Matches[s]}

\* peer_delivery_targets: the subscribed peers, fanout of them.
Targets(e, excluded, chosen) ==
    LET subscribed == {p \in Peers \ excluded : SubsFor(p, e) # {}} IN
    /\ chosen \subseteq subscribed
    /\ Cardinality(chosen) = Min({Fanout, Cardinality(subscribed)})

\* send_inventories to targets that were picked with these subscriptions.
Inventories(subs, e) ==
    LET frames == {Frame(p, "INV", subs[p], e, NoStore) : p \in DOMAIN subs} IN
    IF CanExport(e) THEN SetToSeq(frames) ELSE <<>>

\* remember_event, and its inventories to the others if it is new; then `reply`.
Spread(e, hops, excluded, reply) ==
    LET isNew == ~Seen(recent, e) /\ hops > 0
        r == Remember(recent, e, hops)
    IN  \E chosen \in SUBSET Peers :
            /\ Targets(e, excluded, chosen)
            /\ recent' = IF isNew /\ chosen # {} THEN KeptForWant(r, <<e>>, hops) ELSE r
            /\ outbox' = Queued(recent', (IF isNew THEN Inventories([p \in chosen |-> SubsFor(p, e)], e)
                                          ELSE <<>>) \o reply)

\* queue_replay: for a peer with a subscription, while a store is attached.
QueueReplay(request) ==
    requests' = IF /\ source # NoStore /\ Len(requests) < ReplayCap
                   /\ \E s \in SubIds : <<request.peer, s>> \in peerSubs'
                THEN Append(requests, request) ELSE requests

Input == inputs < MaxInputs /\ inputs' = inputs + 1

Init ==
    /\ role \in Roles
    /\ open = TRUE
    /\ peerSubs = {}
    /\ recent = NoRecent
    /\ outbox = <<>>
    /\ source \in Stores \cup {NoStore}
    /\ requests = <<>>
    /\ worker = [w \in Workers |-> Idle]
    /\ publishing = Idle
    /\ pending = {} /\ outcome = "none" /\ answers = [asked |-> {}, got |-> {}]
    /\ inputs = 0

-----------------------------------------------------------------------------
(* The transport task *)

\* handle_req: what is cached first, the rest of the limit from the store.
Req(p, s) ==
    /\ Input
    /\ LET full == Cardinality({t \in SubIds : <<p, t>> \in peerSubs}) >= MaxSubsPerPeer
           live == Only(recent.entries,
                        {r \in ToSet(recent.entries) : r.event \in Matches[s] /\ r.hops > 0})
           told == Exportable([i \in 1..Min({Len(live), MaxReplay}) |-> live[i].event])
       IN  IF full /\ <<p, s>> \notin peerSubs
           THEN UNCHANGED <<peerSubs, recent, outbox, requests>>
           ELSE /\ peerSubs' = peerSubs \cup {<<p, s>>}
                /\ recent' = KeptForWant(recent, told, MaxHops)
                /\ outbox' = Queued(recent', [i \in DOMAIN told |->
                                                Frame(p, "INV", {s}, told[i], NoStore)])
                /\ IF Len(told) < MaxReplay
                   THEN QueueReplay([peer |-> p, store |-> source, sub |-> s,
                                     events |-> Matches[s] \ ToSet(told),
                                     limit |-> MaxReplay - Len(told)])
                   ELSE UNCHANGED requests
    /\ UNCHANGED <<role, open, source, worker, publishing, pending, outcome, answers>>

\* handle_close
CloseReq(p, s) ==
    /\ Input /\ <<p, s>> \in peerSubs
    /\ peerSubs' = peerSubs \ {<<p, s>>}
    /\ UNCHANGED <<role, open, recent, outbox, source, requests, worker, publishing,
                   pending, outcome, answers>>

\* forget_peer_state
PeerDown(p) ==
    /\ Input /\ \E s \in SubIds : <<p, s>> \in peerSubs
    /\ peerSubs' = {ps \in peerSubs : ps[1] # p}
    /\ UNCHANGED <<role, open, recent, outbox, source, requests, worker, publishing,
                   pending, outcome, answers>>

\* handle_want: the cached body, or else the store's.
Want(p, e) ==
    /\ Input
    /\ UNCHANGED <<peerSubs, recent>>
    /\ IF Cached(recent, e) /\ SubsFor(p, e) # {}
       THEN /\ outbox' = Queued(recent, <<Frame(p, "EVENT", {CHOOSE s \in SubsFor(p, e) : TRUE}, e,
                                                 NoStore)>>)
            /\ UNCHANGED requests
       ELSE /\ QueueReplay([peer |-> p, store |-> source, sub |-> "any", events |-> {e},
                            limit |-> 1])
            /\ UNCHANGED outbox
    /\ UNCHANGED <<role, open, source, worker, publishing, pending, outcome, answers>>

\* handle_event, once a local subscription has taken the body: it is spread
\* with one hop less than its inventory had.
Received(p, e, hops) ==
    /\ Input /\ e \notin Refused
    /\ Spread(e, hops, {p}, <<>>)
    /\ UNCHANGED <<role, open, peerSubs, source, requests, worker, publishing, pending,
                   outcome, answers>>

\* accept_publication: an anonymous client's event, and the receipt it is owed.
AcceptPublication(p, e) ==
    /\ Input
    /\ LET receipt == <<Frame(p, "OK", {}, e, NoStore)>> IN
       IF e \in Refused THEN outbox' = Queued(recent, receipt) /\ UNCHANGED recent
       ELSE Spread(e, MaxHops, {p}, receipt)
    /\ UNCHANGED <<role, open, peerSubs, source, requests, worker, publishing, pending,
                   outcome, answers>>

\* The transport takes a frame from the queue.
Transmit ==
    /\ outbox # <<>>
    /\ outbox' = Tail(outbox)
    /\ UNCHANGED <<role, open, peerSubs, recent, source, requests, worker, publishing,
                   pending, outcome, answers, inputs>>

-----------------------------------------------------------------------------
(* publish: admitted before and after the policy's await, and again to send *)

PublishBegin(e) ==
    /\ Input /\ open /\ CanExport(e) /\ publishing = Idle
    /\ publishing' = [at |-> "deciding", event |-> e]
    /\ UNCHANGED <<role, open, peerSubs, recent, outbox, source, requests, worker, pending,
                   outcome, answers>>

PublishDecided ==
    /\ publishing.at = "deciding"
    /\ \E chosen \in SUBSET Peers :
        /\ Targets(publishing.event, {}, chosen)
        /\ publishing' =
                IF ~open \/ publishing.event \in Refused THEN Idle
                ELSE [at |-> "sending", event |-> publishing.event,
                      subs |-> [p \in chosen |-> SubsFor(p, publishing.event)]]
    /\ UNCHANGED <<role, open, peerSubs, recent, outbox, source, requests, worker, pending,
                   outcome, answers, inputs>>

PublishSend ==
    /\ publishing.at = "sending"
    /\ LET e == publishing.event IN
       IF ~open THEN UNCHANGED <<recent, outbox>>
       ELSE /\ recent' = RememberPublished(recent, e, MaxHops)
            /\ outbox' = Queued(recent', IF recent' = recent THEN <<>>
                                         ELSE Inventories(publishing.subs, e))
    /\ publishing' = Idle
    /\ UNCHANGED <<role, open, peerSubs, source, requests, worker, pending, outcome, answers,
                   inputs>>

\* set_replay_source: attaching needs an open client, detaching does not.
SetReplaySource(store) ==
    /\ Input /\ store # source /\ (store # NoStore => open)
    /\ source' = store
    /\ UNCHANGED <<role, open, peerSubs, recent, outbox, requests, worker, publishing, pending,
                   outcome, answers>>

\* close_all
CloseAll ==
    /\ open /\ open' = FALSE
    /\ source' = NoStore
    /\ pending' = {}
    /\ outcome' = IF pending # {} THEN "closed" ELSE outcome
    /\ UNCHANGED <<role, peerSubs, recent, outbox, requests, worker, publishing, answers, inputs>>

-----------------------------------------------------------------------------
(* replay_source: workers take a request, await the store, and then serve    *)
(* its answer event by event, each after the policy's await.                 *)

Take(w) ==
    /\ worker[w] = Idle /\ requests # <<>>
    /\ worker' = [worker EXCEPT ![w] = [at |-> "querying", request |-> Head(requests)]]
    /\ requests' = Tail(requests)
    /\ UNCHANGED <<role, open, peerSubs, recent, outbox, source, publishing, pending, outcome,
                   answers, inputs>>

\* bounded_events: some of the store's events, at most the limit.
Answer(w) ==
    /\ worker[w].at = "querying"
    /\ \E found \in SUBSET worker[w].request.events :
        /\ Cardinality(found) <= worker[w].request.limit
        /\ worker' = [worker EXCEPT ![w] = [at |-> "serving", request |-> worker[w].request,
                                            left |-> found]]
    /\ UNCHANGED <<role, open, peerSubs, recent, outbox, source, requests, publishing, pending,
                   outcome, answers, inputs>>

\* Mutant: the store is not looked at again after the awaits.
StoreWasAttached(request) == open

\* The client is open and the request's store still attached.
StillAttached(request) == open /\ source = request.store

\* The subscriptions a reply can be under, now.
Standing(request, e) ==
    IF request.sub = "any" THEN SubsFor(request.peer, e)
    ELSE SubsFor(request.peer, e) \cap {request.sub}

Serve(w) ==
    /\ worker[w].at = "serving"
    /\ LET request == worker[w].request IN
       \/ /\ worker[w].left = {}
          /\ worker' = [worker EXCEPT ![w] = Idle] /\ UNCHANGED <<recent, outbox>>
       \/ \E e \in worker[w].left :
            LET subs == Standing(request, e)
                refused == e \in Refused
                stopped == ~refused /\ ~StillAttached(request)
                asInv == request.sub # "any"
                sent == ~refused /\ ~stopped /\ subs # {} /\ (asInv => CanExport(e))
            IN  /\ worker' = [worker EXCEPT
                                ![w] = IF stopped THEN Idle ELSE [worker[w] EXCEPT !.left = @ \ {e}]]
                /\ recent' = IF sent /\ asInv THEN KeptForWant(recent, <<e>>, MaxHops) ELSE recent
                /\ outbox' = Queued(recent', IF ~sent THEN <<>>
                                ELSE <<Frame(request.peer, IF asInv THEN "INV" ELSE "EVENT",
                                             {CHOOSE s \in subs : TRUE}, e, request.store)>>)
    /\ UNCHANGED <<role, open, peerSubs, source, requests, publishing, pending, outcome,
                   answers, inputs>>

\* query_timeout cuts the request short, wherever it is.
Timeout(w) ==
    /\ worker[w] # Idle
    /\ worker' = [worker EXCEPT ![w] = Idle]
    /\ UNCHANGED <<role, open, peerSubs, recent, outbox, source, requests, publishing, pending,
                   outcome, answers, inputs>>

-----------------------------------------------------------------------------
(* FipsAnonymousPublisher::publish_once *)

\* publish_inner: a send that fails ends it, with the rest unsent.
PublishOnce(e, providers) ==
    /\ Input /\ role = "publisher" /\ open /\ outcome = "none" /\ pending = {} /\ providers # {}
    /\ pending' = providers
    /\ answers' = [answers EXCEPT !.asked = providers]
    /\ LET frames == SetToSeq({Frame(p, "PUBLISH", {}, e, NoStore) : p \in providers}) IN
        /\ outbox' = Queued(recent, frames)
        /\ outcome' = IF Len(outbox) + Len(frames) <= OutboxCap THEN "none" ELSE "unsent"
    /\ UNCHANGED <<role, open, peerSubs, recent, source, requests, worker, publishing>>

\* Mutant: the first receipt settles the publication.
SettlesFirst(p, accepted) == TRUE

\* The publication is over: it was accepted, or nobody is left to accept it.
Settles(p, accepted) == accepted \/ pending = {p}

\* handle_publication_receipt, from a provider that has not answered yet.
Receipt(p, accepted) ==
    /\ Input /\ p \in pending
    /\ pending' = IF Settles(p, accepted) THEN {} ELSE pending \ {p}
    /\ outcome' = IF outcome = "none" /\ Settles(p, accepted)
                  THEN (IF accepted THEN "accepted" ELSE "rejected") ELSE outcome
    /\ answers' = [answers EXCEPT !.got = @ \cup {<<p, accepted>>}]
    /\ UNCHANGED <<role, open, peerSubs, recent, outbox, source, requests, worker, publishing>>

PublishTimeout ==
    /\ outcome = "none" /\ pending # {}
    /\ outcome' = "timeout"
    /\ UNCHANGED <<role, open, peerSubs, recent, outbox, source, requests, worker, publishing,
                   pending, answers, inputs>>

Next ==
    \/ \E p \in Peers, s \in SubIds : Req(p, s) \/ CloseReq(p, s)
    \/ \E p \in Peers : PeerDown(p)
    \/ \E p \in Peers, e \in Events :
            Want(p, e) \/ AcceptPublication(p, e) \/ \E hops \in 0..MaxHops : Received(p, e, hops)
    \/ Transmit \/ PublishDecided \/ PublishSend \/ CloseAll \/ PublishTimeout
    \/ \E e \in Events : PublishBegin(e) \/ \E providers \in SUBSET Peers : PublishOnce(e, providers)
    \/ \E store \in Stores \cup {NoStore} : SetReplaySource(store)
    \/ \E w \in Workers : Take(w) \/ Answer(w) \/ Serve(w) \/ Timeout(w)
    \/ \E p \in Peers, accepted \in BOOLEAN : Receipt(p, accepted)

Spec == Init /\ [][Next]_vars

-----------------------------------------------------------------------------
\* "Cached private envelopes are never exported to requesters, including
\* exact-ID and retained replay queries" (start_receive_only): no frame queued
\* by a client that may not export an event names or carries it.
NothingPrivate ==
    \A i \in DOMAIN outbox : outbox[i].kind \in {"INV", "EVENT"} => CanExport(outbox[i].event)

\* What a step adds to the transport queue.
Added == {outbox'[i] : i \in {j \in DOMAIN outbox' : j > Len(outbox)}}

\* A detached store is silent: although its answer may arrive much later, no
\* frame of it is queued once it was replaced or the client was shut down, or
\* for a subscription that the peer has closed meanwhile (serve).
ReplayStands ==
    [][\A f \in Added : f.store # NoStore =>
            open /\ f.store = source /\ \A s \in f.subs : <<f.to, s>> \in peerSubs]_vars

\* publish_once reports acceptance only on a provider's word, and rejection only
\* when every provider it asked has rejected it (handle_publication_receipt).
ReceiptHonest ==
    /\ outcome = "accepted" => \E p \in answers.asked : <<p, TRUE>> \in answers.got
    /\ outcome = "rejected" => \A p \in answers.asked : <<p, FALSE>> \in answers.got

\* The client exports nothing private and reports no receipt it did not get.
ServesHonestly == NothingPrivate /\ ReceiptHonest
=============================================================================
