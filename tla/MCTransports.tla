---------------------------- MODULE MCTransports ----------------------------
(***************************************************************************)
(* The two stream drivers side by side; mode says which one a behaviour is *)
(* about.  "settle": the wire driver's streams, which no frame can affect; *)
(* "frames": frames from one end; "stream": the INV/WANT sessions.         *)
(***************************************************************************)
EXTENDS WireTcp, InvWantTcp

VARIABLE mode

vars == <<wireVars, streamVars, mode>>

Init == WireInit /\ StreamInit /\ mode \in {"settle", "frames", "stream"}

WireStep ==
    /\ \/ \E n \in Ends : Drive(n) \/ ConnectPeer(n) \/ LinkChanged(n)
       \/ \E c \in Slots : GiveUp(c) \/ Segment(c)
       \/ mode = "frames" /\ QueueFrame("low")
    /\ UNCHANGED streamVars

StreamStep == StreamNext /\ UNCHANGED wireVars

Next ==
    /\ IF mode = "stream" THEN StreamStep ELSE WireStep
    /\ UNCHANGED mode

\* The transport loop and the application drive on and retry; segments are
\* repeated until they arrive.
Settling == mode = "settle"
Streaming == mode = "stream"
Fairness ==
    /\ \A n \in Ends : WF_x(Settling /\ Drive(n)) /\ WF_s(Streaming /\ DriveStream(n))
    /\ WF_x(Settling /\ \E n \in Ends : ConnectPeer(n))
    /\ WF_s(Streaming /\ \E n \in Ends : ConnectStream(n))
    /\ \A c \in Slots : WF_x(Settling /\ Segment(c)) /\ WF_s(Streaming /\ StreamSegment(c))

Spec == Init /\ [][Next]_vars /\ Fairness

\* Two ends that dialled each other settle on the same stream, although each
\* decides from what it sees (wire_tcp.rs, refresh_active).
StreamsSettle == Settling => <>[]Settled
=============================================================================
