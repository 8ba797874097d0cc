--------------------------- MODULE MCInvWantMesh ---------------------------
(* Instances of InvWantMesh for TLC. *)
EXTENDS InvWantMesh

CONSTANTS e1, e2, MaxSeen, RouteTtl, EventTtl, Hops

\* e2 is twice as large as e1: with 2 cached bytes they evict each other.
MCKindOf == [e \in Events |-> 1]
MCSizeOf == [e \in Events |-> IF e = e1 THEN 1 ELSE 2]

MCOptions ==
    [fanout |-> 1, unknown_peer_reserve |-> 1, max_hops |-> 2, max_event_bytes |-> 2,
     max_cached_events |-> 2, max_cached_event_bytes |-> 2, max_seen_events |-> MaxSeen,
     max_pending_peers_per_event |-> 1, route_ttl_ms |-> RouteTtl, event_ttl_ms |-> EventTtl,
     allowed_kinds |-> {1}]

Inv(e, kind, bytes, hop) == [event |-> e, kind |-> kind, bytes |-> bytes, hop |-> hop]

MCAnnouncements ==
    {Inv(e, 1, MCSizeOf[e], hop) : e \in Events, hop \in Hops}
        \cup {Inv(e1, 1, 2, 1), Inv(MalformedId, 1, 1, 1), Inv(e1, 2, 1, 1), Inv(e1, 1, 1, 3)}

MCPeerLists == {[i \in 1..Cardinality(Peers) |-> MeshPeer(i, FALSE, 0)]}

\* The last call's result is an output: no later step reads it.
StateView == <<mesh, behavior, now, owed, served>>
=============================================================================
