------------------------ MODULE RecentSubscriptions ------------------------
(***************************************************************************)
(* What PubsubPeerSubscriptionStore (crates/nostr-pubsub/src/              *)
(* subscriptions.rs) promises: a list of peers, the least recently used    *)
(* first, each with a list of subscriptions, the least recently requested  *)
(* first.  A request moves its peer and itself to the end; what is over a  *)
(* limit leaves at the front.  Closing a subscription is no use of a peer. *)
(***************************************************************************)
EXTENDS Filters, Integers, Functions

CONSTANTS Peers, SubscriptionIds, Requests, FilterCount, MaxPeers, MaxSubscriptions, MaxFilters

VARIABLE recent  \* sequence of [peer, subscriptions : sequence of [id, request]]

SubscriptionsOf(p) ==
    LET places == {i \in DOMAIN recent : recent[i].peer = p} IN
    IF places = {} THEN <<>> ELSE recent[CHOOSE i \in places : TRUE].subscriptions

OtherPeers(p) == Only(recent, {entry \in Range(recent) : entry.peer # p})
WithoutId(list, id) == Only(list, {subscription \in Range(list) : subscription.id # id})
Newest(list, limit) == IF Len(list) > limit THEN Tail(list) ELSE list

Init == recent = <<>>

Upsert(p, id, request) ==
    LET list == Append(WithoutId(SubscriptionsOf(p), id), [id |-> id, request |-> request]) IN
    /\ FilterCount[request] <= MaxFilters /\ MaxPeers > 0 /\ MaxSubscriptions > 0
    /\ recent' = Newest(Append(OtherPeers(p),
                               [peer |-> p, subscriptions |-> Newest(list, MaxSubscriptions)]),
                        MaxPeers)

\* A peer goes with its last subscription.
RemoveSubscription(p, id) ==
    LET left(entry) ==
            IF entry.peer = p THEN [entry EXCEPT !.subscriptions = WithoutId(@, id)] ELSE entry
        lists == [i \in DOMAIN recent |-> left(recent[i])]
    IN  recent' = Only(lists, {entry \in Range(lists) : entry.subscriptions # <<>>})

RemovePeer(p) == recent' = OtherPeers(p)

Next ==
    \E p \in Peers :
        \/ \E id \in SubscriptionIds, request \in Requests : Upsert(p, id, request)
        \/ \E id \in SubscriptionIds : RemoveSubscription(p, id)
        \/ RemovePeer(p)

Spec == Init /\ [][Next]_recent
=============================================================================
