----------------------------- MODULE InvWantTcp -----------------------------
(***************************************************************************)
(* The INV/WANT sessions of crates/nostr-pubsub-fips (stream.rs,           *)
(* stream_tcp.rs) at both ends of a link: a mesh whose messages are the    *)
(* records of a TCP stream.  When the active stream changes, the queue and *)
(* the decoder are dropped, and the new stream starts with the inventories *)
(* of the cache.  The mesh is InvWantMesh with one peer and no timers: an  *)
(* event is unknown, asked for or cached (no policy refuses it).           *)
(***************************************************************************)
EXTENDS TcpStreams, TLC

CONSTANT Events

VARIABLES
    s,          \* the connections and the two drivers, with their mesh
    breaks

streamVars == <<s, breaks>>

StreamInit ==
    /\ s = [tcp |-> [c \in Slots |-> NoTuple],
            driver |-> [n \in Ends |-> NewDriver @@ [know |-> [e \in Events |-> "unknown"]]]]
    /\ breaks = 0

Known(y, n, e) == y.driver[n].know[e]

\* apply_actions: all the records of a call or none of them.
Applied(y, n, records) ==
    IF Len(y.driver[n].queue) + Len(records) > QueueCap THEN y
    ELSE [y EXCEPT !.driver[n].queue = @ \o records]

\* Mutant: a new stream starts with an empty queue.
PeerConnectedSilent(y, n) == <<>>

\* peer_connected: the inventories of the cache.
PeerConnected(y, n) ==
    LET cached == {e \in Events : Known(y, n, e) = "cached"} IN
    SetToSeq({<<"inv", e>> : e \in cached})

\* refresh_active, on the streams it has selected: y was, z is.
Renewed(y, z, n) ==
    IF z.driver[n].active = y.driver[n].active THEN z
    ELSE Applied([z EXCEPT !.driver[n].queue = <<>>, !.driver[n].offset = 0, !.driver[n].input = <<>>],
                 n, IF z.driver[n].active = None THEN <<>> ELSE PeerConnected(z, n))

\* receive_message: what the mesh knows after a record, and what it answers.
Learns(know, record) ==
    CASE record[1] = "inv" /\ know[record[2]] = "unknown" -> [know EXCEPT ![record[2]] = "asked"]
      [] record[1] = "frame" /\ know[record[2]] = "asked" ->
            [know EXCEPT ![record[2]] = "cached"]
      [] OTHER -> know
Answers(know, record) ==
    CASE record[1] = "inv" /\ know[record[2]] \in {"unknown", "asked"} -> <<<<"want", record[2]>>>>
      [] record[1] = "want" /\ know[record[2]] = "cached" -> <<<<"frame", record[2]>>>>
      [] OTHER -> <<>>

\* receive_bytes: the complete records in turn, the answers applied together.
Received(y, n) ==
    LET records == Decoded(y.driver[n].input)
        told == FoldLeft(LAMBDA a, r : [know |-> Learns(a.know, r), out |-> a.out \o Answers(a.know, r)],
                         [know |-> y.driver[n].know, out |-> <<>>], records)
    IN  Applied([y EXCEPT !.driver[n].know = told.know, !.driver[n].input = Rest(@)], n, told.out)

\* drive_ready: what has come is read and what there is to send is written, or
\* nothing has come and nothing is accepted; WireTcp has the parts in between.
DriveStream(n) ==
    \E y \in {Accept(s, n)} : \E z \in {Deduplicated(y, n)} : \E begun \in {Renewed(y, z, n)} :
        \E r \in {0, Readable(begun, n)} :
            \E pulled \in {IF r = 0 THEN begun ELSE Pulled(begun, n, r)} :
                \E read \in {IF r = 0 THEN pulled ELSE Received(pulled, n)} :
                    \E w \in {0, Writable(read, n)} :
                        s' = Written(read, n, w) /\ UNCHANGED breaks

\* publish
Publish(n, e) ==
    /\ Known(s, n, e) = "unknown"
    /\ s' = LET y == [s EXCEPT !.driver[n].know[e] = "cached"] IN
            IF s.driver[n].active = None THEN y ELSE Applied(y, n, <<<<"inv", e>>>>)
    /\ UNCHANGED breaks

ConnectStream(n) == MayDial(s, n) /\ s' = Dial(s, n) /\ UNCHANGED breaks

\* abort_peer, which the application may call at any time
AbortStream(n) ==
    /\ breaks < MaxFaults /\ s.driver[n].tracked # {}
    /\ breaks' = breaks + 1
    /\ s' = [Aborted(s, n) EXCEPT !.driver[n].queue = <<>>, !.driver[n].offset = 0]

StreamSegment(c) ==
    (\E next \in Arrivals(s.tcp, c) : s' = [s EXCEPT !.tcp = next]) /\ UNCHANGED breaks

StreamNext ==
    \/ \E n \in Ends : DriveStream(n) \/ ConnectStream(n) \/ AbortStream(n)
                            \/ \E e \in Events : Publish(n, e)
    \/ \E c \in Slots : StreamSegment(c)

-----------------------------------------------------------------------------
\* An event published at one end reaches the other, although every record in
\* flight is lost whenever the stream changes (refresh_active, peer_connected).
EventsCross ==
    \A n \in Ends, e \in Events :
        Known(s, n, e) = "cached" ~> Known(s, Other(n), e) = "cached"
=============================================================================
