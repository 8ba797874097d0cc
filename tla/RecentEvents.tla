---------------------------- MODULE RecentEvents ----------------------------
(***************************************************************************)
(* RecentEvents (crates/nostr-pubsub-fips/src/recent_events.rs): the       *)
(* payloads a FIPS client can still serve, and a longer window of event    *)
(* ids it has accepted.  Both are queues, oldest first.                    *)
(***************************************************************************)
EXTENDS Integers, SequencesExt, Filters

CONSTANTS MaxPayloads, MaxSeenIds

NoRecent == [ids |-> <<>>, entries |-> <<>>]

Newest(queue, limit) ==
    IF Len(queue) > limit THEN SubSeq(queue, Len(queue) - limit + 1, Len(queue)) ELSE queue

\* contains, event: the id is known; the payload is still here.
Seen(r, e) == Contains(r.ids, e)
Cached(r, e) == \E i \in DOMAIN r.entries : r.entries[i].event = e

\* insert: an event whose id is known is not taken again.
Remember(r, e, hops) ==
    IF Seen(r, e) THEN r
    ELSE [ids |-> Newest(Append(r.ids, e), MaxSeenIds),
          entries |-> Newest(Append(r.entries, [event |-> e, hops |-> hops]), MaxPayloads)]

\* insert_for_publish: the application's own event is taken again once its
\* payload has left.
RememberPublished(r, e, hops) ==
    IF Cached(r, e) THEN Remember(r, e, hops)
    ELSE Remember([r EXCEPT !.ids = Only(@, ToSet(@) \ {e})], e, hops)
=============================================================================
