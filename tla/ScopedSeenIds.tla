--------------------------- MODULE ScopedSeenIds ---------------------------
(***************************************************************************)
(* ScopedSeenIds (crates/nostr-pubsub-fips/src/seen_ids.rs): event ids     *)
(* observed per peer and subscription, each scope and the whole bounded.   *)
(*                                                                         *)
(* Two queues age the ids: one per scope and one for all scopes.  An id    *)
(* removed through one queue stays in the other as a stale record; the     *)
(* generation number tells a stale record from a later observation of the  *)
(* same id, and compaction keeps the stale records from piling up.         *)
(***************************************************************************)
EXTENDS Filters, Integers, FiniteSets, FiniteSetsExt

CONSTANTS
    Peers, Subscriptions, Ids,
    MaxPerScope,   \* max_per_scope
    MaxTotal,      \* max_total
    MaxGeneration  \* bound on the observations made (a u64 counter in the code)

VARIABLES
    seen,   \* scopes, global_order, total, next_generation
    reply   \* what the last observation returned

vars == <<seen, reply>>

Scopes == Peers \X Subscriptions
NoReply == [first |-> FALSE, previouslyMatched |-> FALSE]
First == [first |-> TRUE, previouslyMatched |-> FALSE]

\* ids: id -> [generation, matched]; order: <<id, generation>>, oldest first.
NoWindow == [ids |-> <<>>, order |-> <<>>]
WindowOf(s, scope) == IF scope \in DOMAIN s.scopes THEN s.scopes[scope] ELSE NoWindow

Empty == [scopes |-> <<>>, globalOrder |-> <<>>, total |-> 0, next |-> 1]

With(f, key, value) == [x \in DOMAIN f \cup {key} |-> IF x = key THEN value ELSE f[x]]
Without(f, keys) == Restrict(f, DOMAIN f \ keys)

\* A queue record is live while the id still carries its generation.
Live(w, record) == record[1] \in DOMAIN w.ids /\ w.ids[record[1]].generation = record[2]

\* The ids that the first n records of a queue still stand for.
LiveIds(w, records, n) == {records[i][1] : i \in {j \in 1..n : Live(w, records[j])}}

\* The shortest prefix of 0..len that brings an excess down, or all of it.
Shortest(len, Suffices(_)) == Min({n \in 0..len : Suffices(n)} \cup {len})

-----------------------------------------------------------------------------
(* observe_with_match *)

\* Pop the scope's queue until the scope holds at most max_per_scope ids.
EvictScope(w) ==
    LET Gone(n) == LiveIds(w, w.order, n)
        k == Shortest(Len(w.order), LAMBDA n : Cardinality(DOMAIN w.ids \ Gone(n)) <= MaxPerScope)
    IN  [ids |-> Without(w.ids, Gone(k)), order |-> SubSeq(w.order, k + 1, Len(w.order))]

\* Drop the stale records at the front of a scope's queue.
TrimFront(w) ==
    LET k == Shortest(Len(w.order), LAMBDA n : n < Len(w.order) /\ Live(w, w.order[n + 1]))
    IN  [w EXCEPT !.order = SubSeq(@, k + 1, Len(@))]

GlobalLive(s, record) == Live(WindowOf(s, record[1]), <<record[2], record[3]>>)

\* Mutant: the global queue does not look at generations.
StandsByName(s, record) == record[2] \in DOMAIN WindowOf(s, record[1]).ids

\* Whether a record popped from the global queue still stands for an id.
Stands(s, record) == GlobalLive(s, record)

\* Pop the global queue until at most max_total ids are left; a scope that loses
\* its last id goes.
PopGlobal(s) ==
    LET LiveUpTo(n) == {i \in 1..n : Stands(s, s.globalOrder[i])}
        k == Shortest(Len(s.globalOrder), LAMBDA n : s.total - Cardinality(LiveUpTo(n)) <= MaxTotal)
        Gone(scope) == {s.globalOrder[i][2] : i \in {j \in LiveUpTo(k) : s.globalOrder[j][1] = scope}}
        Left(scope) ==
            IF Gone(scope) = {} THEN s.scopes[scope]
            ELSE TrimFront([s.scopes[scope] EXCEPT !.ids = Without(@, Gone(scope))])
    IN  [s EXCEPT !.total = @ - Cardinality(LiveUpTo(k)),
                  !.globalOrder = SubSeq(@, k + 1, Len(@)),
                  !.scopes = [scope \in {x \in DOMAIN @ : Gone(x) = {} \/ DOMAIN @[x].ids # Gone(x)}
                                |-> Left(scope)]]

\* The records of the global queue that are live, in its order.
LiveRecords(s) == Only(s.globalOrder, {record \in Range(s.globalOrder) : GlobalLive(s, record)})

\* Mutant: stale records are never compacted.
CompactNever(s) == s

\* Once the global queue is twice the limit, keep its live records only.
Compact(s) ==
    IF Len(s.globalOrder) > 2 * MaxTotal
    THEN [s EXCEPT !.globalOrder = LiveRecords(s)]
    ELSE s

Seen(s, scope, id) == id \in DOMAIN WindowOf(s, scope).ids

\* The state after an observation, and its answer.
Noted(s, scope, id, matched) ==
    LET generation == s.next
        before == WindowOf(s, scope)
        added == [ids |-> With(before.ids, id, [generation |-> generation, matched |-> matched]),
                  order |-> Append(before.order, <<id, generation>>)]
        kept == EvictScope(added)
        evicted == Cardinality(DOMAIN added.ids) - Cardinality(DOMAIN kept.ids)
    IN  IF Seen(s, scope, id) THEN s
        ELSE Compact(PopGlobal(
                [scopes |-> With(s.scopes, scope, kept),
                 globalOrder |-> Append(s.globalOrder, <<scope, id, generation>>),
                 total |-> s.total + 1 - evicted,
                 next |-> generation + 1]))

Answered(s, scope, id) ==
    IF Seen(s, scope, id)
    THEN [first |-> FALSE, previouslyMatched |-> WindowOf(s, scope).ids[id].matched]
    ELSE First

-----------------------------------------------------------------------------
Init == seen = Empty /\ reply = NoReply

Observe(scope, id, matched) ==
    /\ seen.next <= MaxGeneration
    /\ seen' = Noted(seen, scope, id, matched)
    /\ reply' = Answered(seen, scope, id)

\* observe_response: the wire's subscription first, if it is another one.
ObserveResponse(peer, wire, subscription, id, matched) ==
    /\ seen.next < MaxGeneration
    /\ wire # subscription
    /\ LET s == Noted(seen, <<peer, wire>>, id, matched) IN
        /\ seen' = Noted(s, <<peer, subscription>>, id, matched)
        /\ reply' = Answered(s, <<peer, subscription>>, id)

\* clear_peer and clear_subscription.
Clear(gone) ==
    LET removed == {h \in (DOMAIN seen.scopes \cap gone) \X Ids : Seen(seen, h[1], h[2])} IN
    /\ seen' = [seen EXCEPT !.scopes = Without(@, gone),
                            !.total = IF Cardinality(removed) > @ THEN 0 ELSE @ - Cardinality(removed),
                            !.globalOrder = Only(@, {record \in Range(@) : record[1] \notin gone})]
    /\ reply' = NoReply

ClearPeer(peer) == Clear({peer} \X Subscriptions)
ClearSubscription(subscription) == Clear(Peers \X {subscription})

Next ==
    \/ \E scope \in Scopes, id \in Ids, matched \in BOOLEAN : Observe(scope, id, matched)
    \/ \E peer \in Peers, wire, subscription \in Subscriptions, id \in Ids, matched \in BOOLEAN :
            ObserveResponse(peer, wire, subscription, id, matched)
    \/ \E peer \in Peers : ClearPeer(peer)
    \/ \E subscription \in Subscriptions : ClearSubscription(subscription)

Spec == Init /\ [][Next]_vars

-----------------------------------------------------------------------------
(* Properties *)

\* The running total is the number of remembered ids, and the limits hold for
\* the ids and for the bookkeeping: neither queue can grow with stale records,
\* and no scope stays behind empty (observe_with_match, evict_global).
Bounded ==
    /\ seen.total = Cardinality({h \in Scopes \X Ids : Seen(seen, h[1], h[2])})
    /\ seen.total <= MaxTotal
    /\ Len(seen.globalOrder) <= 2 * MaxTotal
    /\ \A scope \in DOMAIN seen.scopes :
        /\ DOMAIN seen.scopes[scope].ids # {}
        /\ Cardinality(DOMAIN seen.scopes[scope].ids) <= MaxPerScope
        /\ Len(seen.scopes[scope].order) <= MaxPerScope

\* What a live record stands for.
Observation(s, record) ==
    [scope |-> record[1], id |-> record[2], matched |-> s.scopes[record[1]].ids[record[2]].matched]

\* The abstract queue: the live records of the global queue, in its order.
WindowIn(s) == LET records == LiveRecords(s) IN [i \in DOMAIN records |-> Observation(s, records[i])]
Window == WindowIn(seen)

Abstract == INSTANCE SeenWindow WITH window <- Window

\* Two queues, generations and compaction amount to one plain FIFO window: an
\* id is forgotten exactly when it is the oldest of a full scope or of a full
\* whole, however often it was observed, evicted and observed again.
ImplementsWindow == Abstract!Spec
=============================================================================
