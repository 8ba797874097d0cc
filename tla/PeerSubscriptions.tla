------------------------- MODULE PeerSubscriptions -------------------------
(***************************************************************************)
(* PubsubPeerSubscriptionStore (crates/nostr-pubsub/src/subscriptions.rs): *)
(* the Nostr subscriptions of the connected peers, bounded per peer and in *)
(* peers, with running totals of what they retain.                         *)
(*                                                                         *)
(* Maps and the queues that order them are kept apart, as in the code.  A  *)
(* list of filters is a member of Requests, of which the store sees only   *)
(* the number of filters and the encoded sizes.                            *)
(***************************************************************************)
EXTENDS Filters, Integers, FiniteSets, FiniteSetsExt

CONSTANTS
    Peers, SubscriptionIds, Requests,
    FilterCount,       \* filters in a request
    EncodedBytes,      \* length of its REQ frame, ids being of one length; the sum
                       \* of its filters' lengths is kept the same way
    MaxPeers,          \* max_peers
    MaxSubscriptions,  \* max_subscriptions_per_peer
    MaxFilters         \* max_filters_per_subscription

VARIABLES
    peers,      \* peer -> PeerSubscriptionSet, for the peers of the store
    peerOrder,  \* peer_order, least recently used first
    retained    \* PubsubPeerSubscriptionSnapshot

vars == <<peers, peerOrder, retained>>

\* subscriptions: id -> request; order: ids, least recently requested first.
EmptySet == [subscriptions |-> <<>>, order |-> <<>>]
SetOf(store, p) == IF p \in DOMAIN store THEN store[p] ELSE EmptySet

NothingRetained == [peers |-> 0, subscriptions |-> 0, filters |-> 0, bytes |-> 0]

With(f, key, value) == [x \in DOMAIN f \cup {key} |-> IF x = key THEN value ELSE f[x]]
Without(f, key) == Restrict(f, DOMAIN f \ {key})

Init == peers = <<>> /\ peerOrder = <<>> /\ retained = NothingRetained

-----------------------------------------------------------------------------
(* add_retained, subtract_retained *)

SaturatingSub(a, b) == IF b > a THEN 0 ELSE a - b

AddRetained(r, request) ==
    [r EXCEPT !.subscriptions = @ + 1, !.filters = @ + FilterCount[request],
              !.bytes = @ + EncodedBytes[request]]

\* The subscriptions of a store, and those of one of its peers, each with its peer.
Held(store) == UNION {{p} \X DOMAIN store[p].subscriptions : p \in DOMAIN store}
HeldBy(store, p) == {h \in Held(store) : h[1] = p}

\* The sum of f over the requests of some of them.
Sum(store, f, held) == SumFunctionOnSet([h \in held |-> f[store[h[1]].subscriptions[h[2]]]], held)

\* subtract_retained for each of them: saturating subtractions in a row are one.
SubtractAll(r, store, held) ==
    [r EXCEPT !.subscriptions = SaturatingSub(@, Cardinality(held)),
              !.filters = SaturatingSub(@, Sum(store, FilterCount, held)),
              !.bytes = SaturatingSub(@, Sum(store, EncodedBytes, held))]

-----------------------------------------------------------------------------
(* upsert *)

\* A queue retaining all but one key.
Retain(queue, key) == Only(queue, Range(queue) \ {key})

\* The position in a queue of the first entry that is still in the map, or 0.
FirstOf(queue, keys) ==
    LET places == {i \in DOMAIN queue : queue[i] \in keys} IN IF places = {} THEN 0 ELSE Min(places)

\* Pop a queue up to its first entry that is still in the map; all of it if
\* there is none.
Popped(queue, keys) ==
    IF FirstOf(queue, keys) = 0 THEN <<>>
    ELSE SubSeq(queue, FirstOf(queue, keys) + 1, Len(queue))

ToBack(queue, key) == Append(Retain(queue, key), key)

\* Mutant: only a new peer is put at the end of the queue.
TouchPeerOnce(order, p) == IF p \in Range(order) THEN order ELSE Append(order, p)

TouchPeer(order, p) == ToBack(order, p)

\* What evict_peers_over_limit leaves, and the peer it removes.
EvictPeers(store, order) ==
    LET first == FirstOf(order, DOMAIN store) IN
    IF Cardinality(DOMAIN store) >= MaxPeers
    THEN [order |-> Popped(order, DOMAIN store), gone |-> IF first = 0 THEN {} ELSE {order[first]}]
    ELSE [order |-> order, gone |-> {}]

\* PeerSubscriptionSet::upsert: the new set, and the id it evicts.
UpsertSet(set, id, request) ==
    LET subscriptions == With(set.subscriptions, id, request)
        order == ToBack(set.order, id)
        first == FirstOf(order, DOMAIN subscriptions)
    IN  IF id \notin DOMAIN set.subscriptions /\ Cardinality(DOMAIN subscriptions) > MaxSubscriptions
        THEN [set |-> [subscriptions |-> Without(subscriptions, order[first]),
                       order |-> Popped(order, DOMAIN subscriptions)],
              evicted |-> {order[first]}]
        ELSE [set |-> [subscriptions |-> subscriptions, order |-> order], evicted |-> {}]

\* Mutant: the totals keep what a request replaced.
UpsertRetainedKeeping(r, store, p, id, request, evicted) ==
    AddRetained(SubtractAll(r, store, {p} \X evicted), request)

\* What upsert makes of the totals: replaced and evicted go, the request comes.
UpsertRetained(r, store, p, id, request, evicted) ==
    AddRetained(SubtractAll(SubtractAll(r, store, {<<p, id>>} \cap Held(store)), store, {p} \X evicted),
                request)

\* upsert, upsert_filters, apply_client_message with REQ.
Upsert(p, id, request) ==
    LET touched == TouchPeer(peerOrder, p)
        room == IF p \in DOMAIN peers THEN [order |-> touched, gone |-> {}] ELSE EvictPeers(peers, touched)
        kept == Restrict(peers, DOMAIN peers \ room.gone)
        left == SubtractAll(retained, peers, UNION {HeldBy(peers, q) : q \in room.gone})
        upserted == UpsertSet(SetOf(kept, p), id, request)
    IN
    /\ MaxPeers > 0 /\ MaxSubscriptions > 0
    /\ FilterCount[request] <= MaxFilters
    /\ peers' = With(kept, p, upserted.set)
    /\ peerOrder' = room.order
    /\ retained' = [UpsertRetained(left, kept, p, id, request, upserted.evicted)
                        EXCEPT !.peers = Cardinality(DOMAIN kept \cup {p})]

-----------------------------------------------------------------------------
\* What remove_peer leaves of a store and its totals.
Dropped(store, r, p) ==
    /\ peers' = Without(store, p)
    /\ peerOrder' = Retain(peerOrder, p)
    /\ retained' = [SubtractAll(r, store, HeldBy(store, p))
                        EXCEPT !.peers = Cardinality(DOMAIN store \ {p})]

\* remove, apply_client_message with CLOSE: a peer goes with its last subscription.
RemoveSubscription(p, id) ==
    LET set == SetOf(peers, p)
        left == [subscriptions |-> Without(set.subscriptions, id), order |-> Retain(set.order, id)]
        r == SubtractAll(retained, peers, {<<p, id>>} \cap Held(peers))
    IN
    /\ p \in DOMAIN peers
    /\ IF DOMAIN left.subscriptions = {}
       THEN Dropped([peers EXCEPT ![p] = left], r, p)
       ELSE /\ peers' = [peers EXCEPT ![p] = left]
            /\ retained' = r
            /\ UNCHANGED peerOrder

\* remove_peer
RemovePeer(p) == Dropped(peers, retained, p)

Next ==
    \E p \in Peers :
        \/ \E id \in SubscriptionIds, request \in Requests : Upsert(p, id, request)
        \/ \E id \in SubscriptionIds : RemoveSubscription(p, id)
        \/ RemovePeer(p)

Spec == Init /\ [][Next]_vars

-----------------------------------------------------------------------------
(* Properties *)

\* The totals of retained_snapshot are the sums over what the store holds, and
\* its limits hold, after every replacement, eviction, close and departure.
Retained ==
    /\ retained = [peers |-> Cardinality(DOMAIN peers), subscriptions |-> Cardinality(Held(peers)),
                   filters |-> Sum(peers, FilterCount, Held(peers)),
                   bytes |-> Sum(peers, EncodedBytes, Held(peers))]
    /\ Cardinality(DOMAIN peers) <= MaxPeers
    /\ \A p \in DOMAIN peers :
        /\ DOMAIN peers[p].subscriptions # {}
        /\ Cardinality(DOMAIN peers[p].subscriptions) <= MaxSubscriptions
        /\ Len(peers[p].order) = Cardinality(DOMAIN peers[p].subscriptions)
    /\ Len(peerOrder) = Cardinality(DOMAIN peers)

\* The nested list the queues stand for.
Recent ==
    [i \in DOMAIN peerOrder |->
        LET set == SetOf(peers, peerOrder[i]) IN
        [peer |-> peerOrder[i],
         subscriptions |-> [j \in DOMAIN set.order |->
                                [id |-> set.order[j], request |-> set.subscriptions[set.order[j]]]]]]

Abstract == INSTANCE RecentSubscriptions WITH recent <- Recent

\* Two levels of maps and queues behave as one nested list in order of use:
\* a peer over the limit pushes out the least recently used one and no other, a
\* subscription the oldest of its own peer, and renewing one is a use of both.
ImplementsRecent == Abstract!Spec
=============================================================================
