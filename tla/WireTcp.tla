------------------------------ MODULE WireTcp ------------------------------
(***************************************************************************)
(* The FIPS client's stream driver (crates/nostr-pubsub-fips/src/          *)
(* wire_tcp.rs) at both ends of a link: frames are queued per peer, framed *)
(* as records and written to the active stream in as many pieces as TCP    *)
(* accepts.  When the active stream changes, a half-read record is dropped *)
(* and a half-written one starts again.  No driver half-closes a stream,   *)
(* so the closing of a remotely closed one is left out.                    *)
(***************************************************************************)
EXTENDS TcpStreams

CONSTANT MaxFrames  \* bound on the frames queued at an end

VARIABLES
    x,          \* the connections and the two drivers
    queued,     \* [Ends -> the frames queued so far]: they are numbered
    got,        \* [Ends -> the frames reported]
    faults

wireVars == <<x, queued, got, faults>>

WireInit ==
    /\ x = [tcp |-> [c \in Slots |-> NoTuple], driver |-> [n \in Ends |-> NewDriver]]
    /\ queued = [n \in Ends |-> 0]
    /\ got = [n \in Ends |-> <<>>]
    /\ faults = 0

\* Mutant: a record that was half written goes on where it was.
RestartNot(d) == d

\* PeerQueue::restart
Restart(d) == [d EXCEPT !.offset = 0]

\* refresh_active, on the streams it has selected (y was, z is): on a change
\* the decoder goes and the queue starts again.
Refreshed(y, z, n) ==
    IF z.driver[n].active = y.driver[n].active THEN z
    ELSE [z EXCEPT !.driver[n] = [Restart(@) EXCEPT !.input = <<>>]]

\* abort_peer, for a changed link epoch or a record that does not parse.
AbortPeer(y, n) == [Aborted(y, n) EXCEPT !.driver[n] = Restart(@)]

\* read_active: the frames read, and what is left of the last one.
Read(y, n, k) == IF k = 0 THEN y ELSE Pulled(y, n, k)
Frames(y, n) == Decoded(y.driver[n].input)
Consumed(y, n) == [y EXCEPT !.driver[n].input = Rest(@)]

\* drive_ready, on any datagram or timer.  Its second refresh_active finds the
\* tuples as the first left them.
Drive(n) ==
    \E y \in {Accept(x, n)} : \E z \in {Deduplicated(y, n)} : \E begun \in {Refreshed(y, z, n)} :
        \E r \in 0..Readable(begun, n) : \E read \in {Read(begun, n, r)} :
            \E kept \in {Consumed(read, n)} : \E w \in 0..Writable(kept, n) :
                /\ x' = Written(kept, n, w)
                /\ got' = [got EXCEPT ![n] = @ \o Frames(read, n)]
                /\ UNCHANGED <<queued, faults>>

QueueFrame(n) ==
    /\ queued[n] < MaxFrames /\ Len(x.driver[n].queue) < QueueCap
    /\ queued' = [queued EXCEPT ![n] = @ + 1]
    /\ x' = [x EXCEPT !.driver[n].queue = Append(@, <<queued[n] + 1>>)]
    /\ UNCHANGED <<got, faults>>

\* connect_peer: when to dial is ServiceRetry's to say.
ConnectPeer(n) ==
    /\ MayDial(x, n)
    /\ x' = Dial(x, n)
    /\ UNCHANGED <<queued, got, faults>>

\* sync_transport_peers finds another link epoch.
LinkChanged(n) ==
    /\ faults < MaxFaults /\ x.driver[n].tracked # {}
    /\ faults' = faults + 1
    /\ x' = AbortPeer(x, n)
    /\ UNCHANGED <<queued, got>>

\* fips_tcp gives a handshake up.
GiveUp(c) ==
    /\ faults < MaxFaults
    /\ \E n \in Ends : /\ x.tcp[c].state[n] \in {"syn", "rcvd"}
                       /\ x' = [x EXCEPT !.tcp = Gone(@, c, n)]
    /\ faults' = faults + 1
    /\ UNCHANGED <<queued, got>>

Segment(c) ==
    /\ \E next \in Arrivals(x.tcp, c) : x' = [x EXCEPT !.tcp = next]
    /\ UNCHANGED <<queued, got, faults>>

WireNext ==
    \/ \E n \in Ends : Drive(n) \/ QueueFrame(n) \/ ConnectPeer(n) \/ LinkChanged(n)
    \/ \E c \in Slots : GiveUp(c) \/ Segment(c)

-----------------------------------------------------------------------------
\* Whatever streams come and go under it, an end reports frames whole, in the
\* order they were queued and none of them twice; frames may be missing, since
\* what a dead stream had accepted is not written again (refresh_active,
\* PeerQueue::restart, read_active).
InOrder ==
    \A n \in Ends : \A i, j \in DOMAIN got[n] :
        got[n][i] # Garbled /\ (i < j => got[n][i][1] < got[n][j][1])

Settled == x.driver["low"].active = x.driver["high"].active /\ x.driver["low"].active # None
=============================================================================
