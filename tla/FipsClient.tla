----------------------------- MODULE FipsClient -----------------------------
(***************************************************************************)
(* The receiving side of a FIPS pubsub client (crates/nostr-pubsub-fips:   *)
(* client_inner.rs, recent_events.rs, client_received_event.rs,            *)
(* client_lifecycle.rs, client_transport.rs).                              *)
(*                                                                         *)
(* Application threads subscribe, receive, close and shut down; one        *)
(* transport task handles the peers' INV and EVENT frames, one at a time.  *)
(* They share ClientInner, whose parts have a lock each, so a call or a    *)
(* handler is as many actions as the other side can see of it: subscribe   *)
(* is four, a frame is a Begin and a Finish around the policy's await or   *)
(* the gap between two locks.  The transport queue is shared too; a frame  *)
(* that finds it full is not sent.  What is sent to the peers and the      *)
(* clock are left out: a frame may come at any time and a request may be   *)
(* due at any time.  Forwarding and serving are FipsServing's.             *)
(***************************************************************************)
EXTENDS WantTable, RecentEvents

(***************************************************************************)
(* LocalDelivery (crates/nostr-pubsub-fips/src/local_delivery.rs): the     *)
(* bodies one subscription has admitted for its application.  A bounded    *)
(* channel is followed by a bounded pending queue; when both are full the  *)
(* subscription lags.  The methods are operators on the state record.      *)
(***************************************************************************)
CONSTANTS
    MaxReplay,     \* max_replay_events: places in the channel and in the queue
    MaxDelivered   \* FIPS_NOSTR_PUBSUB_MAX_SEEN_EVENT_IDS

\* channel, pending: bodies oldest first; delivered: ids handed to the channel,
\* the newest MaxDelivered; sender, receiver: the two ends of the channel exist.
NewDelivery == [sender |-> TRUE, receiver |-> TRUE, channel |-> <<>>, pending |-> <<>>,
                delivered |-> <<>>, status |-> "active"]

\* Mutant: a body already handed to the channel is not known.
KnowsPending(d, e) == Contains(d.pending, e)

\* contains
Knows(d, e) == Contains(d.delivered, e) \/ Contains(d.pending, e)

MarkDelivered(ids, e) ==
    IF Len(ids) = MaxDelivered THEN Append(Tail(ids), e) ELSE Append(ids, e)

ReleaseSender(d) == IF d.pending = <<>> THEN [d EXCEPT !.sender = FALSE] ELSE d

\* Mutant: a closing subscription drops what it had admitted.
CloseDeliveryDropping(d) ==
    [d EXCEPT !.status = IF @ = "active" THEN "closed" ELSE @, !.pending = <<>>, !.sender = FALSE]

\* close
CloseDelivery(d) == ReleaseSender([d EXCEPT !.status = IF @ = "active" THEN "closed" ELSE @])

\* refill: the oldest pending bodies move to the free places of the channel;
\* without a receiver there is nobody left to admit them to.
Moved(d) == Min({Len(d.pending), MaxReplay - Len(d.channel)})

Refill(d) ==
    LET moved == SubSeq(d.pending, 1, Moved(d))
        full == [d EXCEPT !.channel = @ \o moved,
                          !.pending = SubSeq(@, Moved(d) + 1, Len(@)),
                          !.delivered = FoldLeft(MarkDelivered, @, moved)]
        left == IF d.pending = <<>> \/ d.receiver THEN full
                ELSE CloseDelivery([d EXCEPT !.pending = <<>>])
    IN  IF left.status # "active" THEN ReleaseSender(left) ELSE left

\* enqueue
Enqueue(d, e) ==
    LET r == Refill(d) IN
    IF d.status # "active" \/ Knows(d, e) THEN d
    ELSE IF ~r.sender THEN r
    ELSE IF ~r.receiver THEN CloseDelivery(r)
    ELSE IF Len(r.channel) < MaxReplay
    THEN [r EXCEPT !.channel = Append(@, e), !.delivered = MarkDelivered(@, e)]
    ELSE IF Len(r.pending) < MaxReplay THEN [r EXCEPT !.pending = Append(@, e)]
    ELSE [r EXCEPT !.status = "lagged"]

\* Did enqueue admit the body?
Admits(d, e) == Knows(Enqueue(d, e), e) /\ ~Knows(d, e)

\* recv, once a body is there: the application takes the oldest one.
Receive(d) == Refill([Refill(d) EXCEPT !.channel = Tail(@)])

\* The application drops its receiver: what is in the channel goes with it.
DropReceiver(d) == [d EXCEPT !.receiver = FALSE, !.channel = <<>>]

-----------------------------------------------------------------------------
CONSTANTS
    Peers, Subs,
    Fresh,       \* the subscriptions of fresh_subscriber: no local replay
    Matches,     \* Matches[s]: the events that s's filters accept
    Refused,     \* the events the application's policy drops
    MaxActive,   \* max_active_subscriptions
    OutboxCap,   \* places in the transport queue
    Claims,      \* what an INV says of its event: "true" is kind and size as they are
    MaxInputs    \* bound on the frames, connections and disconnections

ASSUME ClientAssumption ==
    /\ IsFiniteSet(Peers) /\ IsFiniteSet(Subs)
    /\ MaxReplay \in Nat \ {0} /\ MaxDelivered \in Nat \ {0}
    /\ MaxPayloads \in Nat /\ MaxSeenIds \in Nat /\ OutboxCap \in Nat

NoSub == "none"        \* an EVENT without a subscription
Closed == {"closed"}   \* in place of the peers of a subscription not active
Idle == [kind |-> "idle"]

VARIABLES
    c,         \* the shared ClientInner
    open,      \* admission
    call,      \* [Subs -> how far the subscribe call of a subscription is]
    task,      \* the frame the transport task is at
    links,     \* the peers with a stream
    inbound,   \* those of them that dialled and are not selected
    cooled,    \* the peers in cooldown
    got,       \* [Subs -> the bodies the application has received]
    announced, \* history: <<peer, event>> announced since the peer's reset
    inputs     \* frames, connections and disconnections so far

vars == <<c, open, call, task, links, inbound, cooled, got, announced, inputs>>

\* subs: the active subscriptions and the peers each counts on; inventories
\* and fulls: observed <<peer, subscription, event>>, the second with whether
\* they matched; outbox: the commands queued for the transport.
NewClient ==
    [subs |-> [s \in Subs |-> Closed], delivery |-> [s \in Subs |-> NewDelivery],
     recent |-> NoRecent, wants |-> EmptyTable, inventories |-> {}, fulls |-> {},
     outbox |-> <<>>]

Active(x) == {s \in Subs : x.subs[s] # Closed}
Counts(x, s, p) == s \in Active(x) /\ p \in x.subs[s]
Interested(x, s, p, e) == Counts(x, s, p) /\ e \in Matches[s]

\* Whether a command still finds a place in the transport queue, and queueing
\* n of them: the ones beyond its end are lost.
Room(x) == OutboxCap - Len(x.outbox)
Queue(x, command, n) ==
    [x EXCEPT !.outbox = @ \o [i \in 1..Min({n, Room(x)}) |-> command]]

-----------------------------------------------------------------------------
(* close_subscription, reset_peer_epoch, forget_peer_state *)

CloseSub(x, s) ==
    IF s \notin Active(x) THEN x
    ELSE Queue([x EXCEPT !.subs[s] = Closed,
                         !.delivery[s] = CloseDelivery(@),
                         !.wants = WithoutSubscription(@, s),
                         !.inventories = {o \in @ : o[2] # s}],
               "send", Cardinality(x.subs[s]))

ResetPeerEpoch(x, p) ==
    [x EXCEPT !.inventories = {o \in @ : o[1] # p},
              !.fulls = {o \in @ : o[1] # p},
              !.wants = WithoutPeer(@, p)]

ForgetPeerState(x, p) ==
    [ResetPeerEpoch(x, p) EXCEPT
        !.subs = [s \in Subs |-> IF s \in Active(x) THEN @[s] \ {p} ELSE Closed]]

\* One subscription after the other.
CloseSubs(x, closing) == FoldSet(LAMBDA s, y : CloseSub(y, s), x, closing)

\* deliver_local for each subscription of `targets`; those that lag are closed.
DeliverTo(x, targets, e) ==
    LET told == [x EXCEPT !.delivery =
                    [s \in Subs |-> IF s \in targets THEN Enqueue(@[s], e) ELSE @[s]]]
    IN  CloseSubs(told, {s \in targets : told.delivery[s].status = "lagged"})

-----------------------------------------------------------------------------
Init ==
    /\ c = NewClient
    /\ open = TRUE
    /\ call = [s \in Subs |-> [at |-> "unused", peers |-> {}]]
    /\ task = Idle
    /\ links \in SUBSET Peers
    /\ inbound = {}
    /\ cooled = {}
    /\ got = [s \in Subs |-> <<>>]
    /\ announced = {}
    /\ inputs = 0

(* subscribe: it is admitted, awaits the peers' snapshot, and from its       *)
(* registration to its return holds the admission lock.                      *)

Holding == {s \in Subs : call[s].at \in {"registered", "replayed"}}

SubscribeBegin(s) ==
    /\ open /\ call[s].at = "unused" /\ Holding = {}
    /\ call' = [call EXCEPT ![s] = [at |-> "begun", peers |-> links \ inbound]]
    /\ UNCHANGED <<c, open, task, links, inbound, cooled, got, announced, inputs>>

\* Mutant: a call that was admitted before its await is not admitted again.
AdmittedOnce == TRUE

\* The second admit.
Readmitted == open

SubscribeRegister(s) ==
    /\ call[s].at = "begun" /\ Holding = {}
    /\ IF Readmitted /\ Cardinality(Active(c)) < MaxActive + 1
       THEN /\ c' = [c EXCEPT !.subs[s] = call[s].peers]
            /\ call' = [call EXCEPT ![s].at = "registered"]
       ELSE call' = [call EXCEPT ![s].at = "over"] /\ UNCHANGED c
    /\ UNCHANGED <<open, task, links, inbound, cooled, got, announced, inputs>>

\* replay_local_events; a fresh subscription has none.
SubscribeReplay(s) ==
    /\ call[s].at = "registered"
    /\ c' = IF s \in Fresh \/ s \notin Active(c) THEN c
            ELSE LET cached == Only(c.recent.entries,
                                      {r \in ToSet(c.recent.entries) : r.event \in Matches[s]})
                     told == FoldLeft(LAMBDA d, r : Enqueue(d, r.event), c.delivery[s], cached)
                     y == [c EXCEPT !.delivery[s] = told]
                 IN  IF told.status = "lagged" THEN CloseSub(y, s) ELSE y
    /\ call' = [call EXCEPT ![s].at = "replayed"]
    /\ UNCHANGED <<open, task, links, inbound, cooled, got, announced, inputs>>

\* A REQ for each peer of the snapshot, in any order; the subscription does not
\* count on a peer whose REQ was refused, and fails if every one was.
SubscribeSend(s) ==
    /\ call[s].at = "replayed"
    /\ \E told \in SUBSET call[s].peers :
        /\ Cardinality(told) = Min({Room(c), Cardinality(call[s].peers)})
        /\ LET y == Queue(c, "send", Cardinality(told))
               z == IF s \in Active(y)
                    THEN [y EXCEPT !.subs[s] = @ \ (call[s].peers \ told)] ELSE y
               failed == call[s].peers # {} /\ told = {}
           IN  /\ c' = IF failed
                       THEN [CloseSub(z, s) EXCEPT !.delivery[s] = DropReceiver(@)]
                       ELSE z
               /\ call' = [call EXCEPT ![s].at = IF failed THEN "over" ELSE "open"]
    /\ UNCHANGED <<open, task, links, inbound, cooled, got, announced, inputs>>

\* recv, try_recv
Recv(s) ==
    /\ call[s].at = "open"
    /\ LET d == Refill(c.delivery[s]) IN
        /\ d.channel # <<>>
        /\ got' = [got EXCEPT ![s] = Append(@, Head(d.channel))]
    /\ c' = [c EXCEPT !.delivery[s] = Receive(@)]
    /\ UNCHANGED <<open, call, task, links, inbound, cooled, announced, inputs>>

\* FipsPubsubSubscription::close, drop
Close(s) ==
    /\ call[s].at = "open"
    /\ c' = [CloseSub(c, s) EXCEPT !.delivery[s] = DropReceiver(@)]
    /\ call' = [call EXCEPT ![s].at = "over"]
    /\ UNCHANGED <<open, task, links, inbound, cooled, got, announced, inputs>>

\* close_all: the application shuts down and keeps its subscriptions' receivers.
Shutdown ==
    /\ open /\ Holding = {}
    /\ open' = FALSE
    /\ c' = [CloseSubs(c, Active(c)) EXCEPT
                !.wants = EmptyTable, !.inventories = c.inventories]
    /\ UNCHANGED <<call, task, links, inbound, cooled, got, announced, inputs>>

-----------------------------------------------------------------------------
(* The transport task *)

Handled == inputs < MaxInputs /\ task = Idle /\ inputs' = inputs + 1
Speaks(p) == p \in links \ cooled

\* record_provider_violation: the score may cross its limit (ProviderBehavior);
\* then the peer cools down, and a command to forget it is queued.
Violation(x, p, crossed) ==
    /\ crossed => p \notin cooled
    /\ cooled' = IF crossed THEN cooled \cup {p} ELSE cooled
    /\ c' = IF crossed THEN Queue(x, p, 1) ELSE x

Malformed(p) ==
    /\ Handled /\ Speaks(p)
    /\ \E crossed \in BOOLEAN : Violation(c, p, crossed)
    /\ UNCHANGED <<open, call, task, links, inbound, got, announced>>

\* handle_inv, to the policy's await for a cached body, else to the candidates
\* read under the subscriptions' lock.
InvBegin(p, ids, e, claim) ==
    /\ Handled /\ Speaks(p)
    /\ Cardinality(ids) <= MaxActive + 1
    /\ task' = IF Cached(c.recent, e)
               THEN [kind |-> "cached", peer |-> p, ids |-> ids, event |-> e, claim |-> claim]
               ELSE [kind |-> "inv", peer |-> p, event |-> e, claim |-> claim,
                     ids |-> {s \in ids : /\ Counts(c, s, p)
                                          /\ ~Seen(c.recent, e) \/ s \in Fresh
                                          /\ ~Knows(c.delivery[s], e)}]
    /\ announced' = announced \cup {<<p, e>>}
    /\ UNCHANGED <<c, open, call, links, inbound, cooled, got>>

\* The body is at hand: it counts as the peer's for its fresh subscriptions.
InvFinishCached ==
    /\ task.kind = "cached"
    /\ c' = IF task.claim # "true" \/ task.event \in Refused THEN c
            ELSE DeliverTo(c, {s \in task.ids \cap Fresh :
                                 /\ Interested(c, s, task.peer, task.event)
                                 /\ ~Knows(c.delivery[s], task.event)}, task.event)
    /\ task' = Idle
    /\ UNCHANGED <<open, call, links, inbound, cooled, got, announced, inputs>>

\* accept_inventory: observe it for each candidate, and ask the first provider.
InvFinish ==
    /\ task.kind = "inv"
    /\ LET p == task.peer
           e == task.event
           valid == {s \in task.ids : <<p, s, e>> \notin c.inventories}
           y == [c EXCEPT !.inventories = @ \cup {<<p, s, e>> : s \in valid},
                          !.wants = Insert(@, e, p, valid, task.claim)]
       IN  c' = IF valid = {} THEN c
                ELSE IF e \in Held(c.wants) THEN y ELSE Queue(y, "send", 1)
    /\ task' = Idle
    /\ UNCHANGED <<open, call, links, inbound, cooled, got, announced, inputs>>

\* event_matches_subscription; an EVENT without a subscription is for any.
MatchesWire(p, wire, e) ==
    \E s \in Subs : (wire = NoSub \/ s = wire) /\ Interested(c, s, p, e)

\* fresh_response_subscription: fresh subscriptions a pending request is for.
FreshResponses(p, e) ==
    IF e \notin Held(c.wants) \/ c.wants.entries[e].claim # "true" THEN {}
    ELSE {s \in Fresh : /\ Answers(c.wants, e, p, s, "true")
                        /\ Interested(c, s, p, e) /\ ~Knows(c.delivery[s], e)}

Observed(p, s, e) == \E matched \in BOOLEAN : <<p, s, e, matched>> \in c.fulls

\* observe_response: the wire's subscription, and the response's.
Observing(p, ids, e, matched) ==
    c.fulls \cup {<<p, s, e, matched>> : s \in {i \in ids : ~Observed(p, i, e)}}

\* handle_received_event, to the policy's await.
EventBegin(p, wire, e) ==
    /\ Handled /\ Speaks(p)
    /\ LET matched == MatchesWire(p, wire, e)
           fresh == IF matched /\ wire # NoSub THEN FreshResponses(p, e) ELSE {}
       IN  \E response \in IF fresh = {} THEN {wire} ELSE fresh :
            LET y == [c EXCEPT !.fulls = Observing(p, {wire, response}, e, matched)] IN
            IF matched
            THEN /\ c' = y
                 /\ task' = IF Observed(p, response, e) THEN Idle
                            ELSE [kind |-> "event", peer |-> p, event |-> e, ids |-> {response}]
                 /\ UNCHANGED cooled
            ELSE /\ \E crossed \in BOOLEAN :
                        /\ crossed => <<p, wire, e, TRUE>> \notin c.fulls
                        /\ Violation(y, p, crossed)
                 /\ UNCHANGED task
    /\ UNCHANGED <<open, call, links, inbound, got, announced>>

\* handle_event: the request is answered, the body delivered and remembered.
EventFinish ==
    /\ task.kind = "event"
    /\ LET p == task.peer
           e == task.event
           answered == \E s \in task.ids \ {NoSub} :
                            Interested(c, s, p, e) /\ Answers(c.wants, e, p, s, "true")
           y == IF answered THEN [c EXCEPT !.wants = Taken(@, e)] ELSE c
           targets == {s \in Subs : Interested(c, s, p, e) /\ ~Knows(c.delivery[s], e)}
           z == DeliverTo(y, targets, e)
           delivered == \E s \in targets : Admits(c.delivery[s], e)
       IN  c' = IF e \in Refused THEN c
                ELSE IF delivered THEN [z EXCEPT !.recent = Remember(@, e, 0)] ELSE z
    /\ task' = Idle
    /\ UNCHANGED <<open, call, links, inbound, cooled, got, announced, inputs>>

\* replay_frames_for_peer: the peer is sent every subscription.
Offered(x, p) ==
    [x EXCEPT !.subs = [s \in Subs |-> IF s \in Active(x) THEN @[s] \cup {p} ELSE Closed]]

\* process_wire_report, newly_connected: the peer starts over, and is offered
\* the subscriptions if it is a selected one; one still cooling down is forgotten.
PeerUp(p, dialled) ==
    /\ Handled /\ p \notin links
    /\ IF p \in cooled
       THEN c' = ForgetPeerState(c, p) /\ UNCHANGED <<links, inbound>>
       ELSE /\ c' = IF dialled THEN ResetPeerEpoch(c, p) ELSE Offered(ResetPeerEpoch(c, p), p)
            /\ links' = links \cup {p}
            /\ inbound' = IF dialled THEN inbound \cup {p} ELSE inbound
    /\ announced' = {a \in announced : a[1] # p}
    /\ UNCHANGED <<open, call, task, cooled, got>>

\* sync_transport_peers: an inbound peer is now a selected one; its stream stays.
Promoted(p) ==
    /\ Handled /\ p \in inbound
    /\ c' = Offered(c, p)
    /\ inbound' = inbound \ {p}
    /\ UNCHANGED <<open, call, task, links, cooled, got, announced>>

Unlinked(p) ==
    /\ links' = links \ {p}
    /\ inbound' = inbound \ {p}
    /\ announced' = {a \in announced : a[1] # p}

\* sync_transport_peers, process_wire_report: the peer's link or service is gone.
PeerDown(p) ==
    /\ Handled /\ p \in links
    /\ c' = ForgetPeerState(c, p)
    /\ Unlinked(p)
    /\ UNCHANGED <<open, call, task, cooled, got>>

\* finish_ready_turn: the next queued command.
TakeCommand ==
    /\ task = Idle /\ c.outbox # <<>>
    /\ LET y == [c EXCEPT !.outbox = Tail(@)]
           p == Head(c.outbox)
       IN  IF p \in Peers
           THEN c' = ForgetPeerState(y, p) /\ Unlinked(p)
           ELSE c' = y /\ UNCHANGED <<links, inbound, announced>>
    /\ UNCHANGED <<open, call, task, cooled, got, inputs>>

\* retry_pending_frames: the WANTs go to the transport itself; the providers of
\* an event given up are blamed, which one of them may not survive.
RetryPending(due) ==
    /\ task = Idle /\ due # {} /\ due \subseteq Held(c.wants)
    /\ \E p \in Peers, crossed \in BOOLEAN :
        /\ crossed => \E e \in Events : <<e, p>> \in Blamed(c.wants, due)
        /\ Violation([c EXCEPT !.wants = Retried(@, due)], p, crossed)
    /\ UNCHANGED <<open, call, task, links, inbound, got, announced, inputs>>

\* The cooldown of a peer ends.
CooldownOver(p) ==
    /\ p \in cooled /\ cooled' = cooled \ {p}
    /\ UNCHANGED <<c, open, call, task, links, inbound, got, announced, inputs>>

Application == \E s \in Subs :
    SubscribeBegin(s) \/ SubscribeRegister(s) \/ SubscribeReplay(s) \/ SubscribeSend(s)
        \/ Recv(s) \/ Close(s)

Transport ==
    \/ \E p \in Peers : Malformed(p) \/ Promoted(p) \/ PeerDown(p) \/ CooldownOver(p)
    \/ \E p \in Peers, dialled \in BOOLEAN : PeerUp(p, dialled)
    \/ \E p \in Peers, ids \in SUBSET Subs, e \in Events, claim \in Claims :
            InvBegin(p, ids, e, claim)
    \/ \E p \in Peers, wire \in Subs \cup {NoSub}, e \in Events : EventBegin(p, wire, e)
    \/ InvFinishCached \/ InvFinish \/ EventFinish \/ TakeCommand
    \/ \E due \in SUBSET Events : RetryPending(due)

Next == Application \/ Shutdown \/ Transport

Spec == Init /\ [][Next]_vars

-----------------------------------------------------------------------------
\* What a subscription's application has received and, while it has the receiver,
\* will still receive.
Stream(x, g, s) ==
    IF x.delivery[s].receiver THEN g[s] \o x.delivery[s].channel \o x.delivery[s].pending ELSE g[s]

\* No event reaches an application again through one subscription before as many
\* others as the subscription remembers, however the local replay, a fresh
\* advertisement and a peer's body race for it (LocalDelivery::enqueue,
\* deliver_local_event, handle_inv).
OnceEach ==
    \A s \in Subs : \A i, j \in DOMAIN Stream(c, got, s) :
        i < j /\ Stream(c, got, s)[i] = Stream(c, got, s)[j] => j - i > MaxDelivered

\* Admitted bodies still drain, in the order of their admission, whatever the
\* subscription meets (close_subscription, lag, shutdown): only the
\* application's own drop of the receiver loses them.
AdmittedKept ==
    [][\A s \in Subs : c'.delivery[s].receiver => IsPrefix(Stream(c, got, s), Stream(c, got, s)')]_vars

\* Once close_all has run no subscription is given another body or is opened,
\* although calls admitted before it are still under way (admit, close_all).
ShutIsFinal ==
    [][~open => Active(c') = {} /\ \A s \in Subs : Len(Stream(c', got', s)) <= Len(Stream(c, got, s))]_vars

\* Only a provider that announced the event on its present connection can be
\* blamed for not answering (reset_peer_epoch, forget_peer_state, retry_due).
BlamedAnnounced ==
    \A e \in Held(c.wants) : \A p \in Requested(c.wants.entries[e]) : <<p, e>> \in announced

\* Whatever the awaits let in between: a subscriber gets an event once, and a
\* provider answers only for what it announced (deliver_local_event,
\* accept_inventory, reset_peer_epoch).
OnceAndFairly == OnceEach /\ BlamedAnnounced

\* What the crate's README says of a received event: "That verified event is
\* then delivered once to every matching local subscription."  (Those that
\* have replayed the cache and never lagged.)
DeliveredToEvery ==
    \A s \in Active(c) \ Fresh : \A e \in Matches[s] :
        call[s].at = "open" /\ Cached(c.recent, e) => Knows(c.delivery[s], e)
=============================================================================
