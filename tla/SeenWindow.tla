----------------------------- MODULE SeenWindow -----------------------------
(***************************************************************************)
(* What ScopedSeenIds (crates/nostr-pubsub-fips/src/seen_ids.rs) promises: *)
(* one queue of observations, oldest first, in which a scope (one peer's   *)
(* epoch of one subscription) keeps its newest MaxPerScope ids and all     *)
(* scopes together keep the newest MaxTotal.  An id is `first` exactly     *)
(* when it is not in the queue for its scope.                              *)
(***************************************************************************)
EXTENDS Filters, Integers, FiniteSets, FiniteSetsExt

CONSTANTS Peers, Subscriptions, Ids, MaxPerScope, MaxTotal

VARIABLES
    window,  \* the observations still remembered: [scope, id, matched]
    reply    \* what the last observation returned: [first, previouslyMatched]

Scopes == Peers \X Subscriptions
NoReply == [first |-> FALSE, previouslyMatched |-> FALSE]
First == [first |-> TRUE, previouslyMatched |-> FALSE]

Of(scope, w) == {i \in DOMAIN w : w[i].scope = scope}
Places(scope, id, w) == {i \in Of(scope, w) : w[i].id = id}

\* Drop the oldest observation of the scope, then the oldest of all, where
\* there are too many.
TrimScope(scope, w) ==
    LET oldest == Min(Of(scope, w)) IN
    IF Cardinality(Of(scope, w)) > MaxPerScope
    THEN SubSeq(w, 1, oldest - 1) \o SubSeq(w, oldest + 1, Len(w))
    ELSE w
TrimTotal(w) == IF Len(w) > MaxTotal THEN Tail(w) ELSE w

Noted(w, scope, id, matched) ==
    IF Places(scope, id, w) # {} THEN w
    ELSE TrimTotal(TrimScope(scope, Append(w, [scope |-> scope, id |-> id, matched |-> matched])))

Answered(w, scope, id) ==
    IF Places(scope, id, w) = {} THEN First
    ELSE [first |-> FALSE, previouslyMatched |-> \E i \in Places(scope, id, w) : w[i].matched]

Init == window = <<>> /\ reply = NoReply

Observe(scope, id, matched) ==
    /\ reply' = Answered(window, scope, id)
    /\ window' = Noted(window, scope, id, matched)

\* An answer that arrived under another open subscription of the same peer.
ObserveResponse(peer, wire, subscription, id, matched) ==
    /\ wire # subscription
    /\ LET w == Noted(window, <<peer, wire>>, id, matched) IN
        /\ reply' = Answered(w, <<peer, subscription>>, id)
        /\ window' = Noted(w, <<peer, subscription>>, id, matched)

\* A peer's epoch ends, or a subscription closes.
Clear(gone) ==
    /\ reply' = NoReply
    /\ window' = Only(window, {o \in Range(window) : o.scope \notin gone})

Next ==
    \/ \E scope \in Scopes, id \in Ids, matched \in BOOLEAN : Observe(scope, id, matched)
    \/ \E peer \in Peers : Clear({peer} \X Subscriptions)
    \/ \E subscription \in Subscriptions : Clear(Peers \X {subscription})
    \/ \E peer \in Peers, wire, subscription \in Subscriptions, id \in Ids, matched \in BOOLEAN :
            ObserveResponse(peer, wire, subscription, id, matched)

Spec == Init /\ [][Next]_<<window, reply>>
=============================================================================
