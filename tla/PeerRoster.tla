----------------------------- MODULE PeerRoster -----------------------------
(***************************************************************************)
(* Whom the FIPS client talks to: the links it selects (client_peers.rs,   *)
(* sync_transport_peers), the peers the stream driver admits (wire_tcp.rs, *)
(* wire_tcp/inbound.rs) and when it dials them (wire_tcp/retry.rs), all in *)
(* crates/nostr-pubsub-fips/src.  A peer has at most one TCP tuple here;   *)
(* WireTcp is about two of them.                                           *)
(***************************************************************************)
EXTENDS Integers, FiniteSets, FiniteSetsExt

CONSTANTS
    Npubs,
    OutboundCap,    \* outbound_peer_capacity
    InboundCap,     \* inbound_peer_capacity
    Epochs,         \* link ids and startup epochs
    RetryInterval, MaxRetryInterval, StableInterval, IdleTimeout,
    MaxFailures     \* where the failures saturate (6 in the code)

ASSUME RosterAssumption ==
    /\ IsFiniteSet(Npubs)
    /\ OutboundCap \in Nat /\ InboundCap \in Nat
    /\ RetryInterval \in Nat /\ MaxRetryInterval \in Nat
    /\ StableInterval \in Nat /\ IdleTimeout \in Nat
    /\ MaxFailures \in Nat \ {0}

VARIABLES
    roster,         \* [Npubs -> what the driver has of a peer]
    links           \* [Npubs -> known_links]

rosterVars == <<roster, links>>

PeerCapacity == OutboundCap + InboundCap
Never == -1
Withdrawn == 0

\* A PeerLinkEpoch is a variant and its number; no entry is NoLink.
NoLink == <<"none", 0>>

\* next_attempt_at as the time left; connected_since as the time since.
NewRetry == [due |-> 0, failures |-> 0, scheduled |-> FALSE, up |-> Never]

\* since: the time since the last dial, hasty: it came too soon (both history).
NewPeer ==
    [sel |-> FALSE, retry |-> NewRetry, lease |-> Never, tcp |-> "none", tracked |-> FALSE,
     since |-> RetryInterval, hasty |-> FALSE]

RosterInit == roster = [p \in Npubs |-> NewPeer] /\ links = [p \in Npubs |-> NoLink]

-----------------------------------------------------------------------------
(* wire_tcp/retry.rs *)

Started(t) == [t EXCEPT !.due = RetryInterval, !.scheduled = FALSE, !.up = Never]

\* Mutant: a failed attempt is not scheduled again.
FailedForGood(t) == [t EXCEPT !.due = Max({@, RetryInterval}), !.up = Never]

Failed(t) ==
    LET failures == Min({t.failures + 1, MaxFailures})
        delay == Min({RetryInterval * 2^(failures - 1), MaxRetryInterval})
    IN  [due |-> Max({t.due, delay}), failures |-> failures, scheduled |-> TRUE, up |-> Never]

\* Mutant: the retry may come at once.
RestoreAtOnce(t) == [t EXCEPT !.failures = 0, !.due = 0]

RestoreFastRetry(t) == [t EXCEPT !.failures = 0, !.due = Min({@, RetryInterval})]

Connected(t) ==
    LET up == Max({t.up, 0})
        stable == IF up >= StableInterval THEN RestoreFastRetry(t) ELSE t
    IN  [stable EXCEPT !.up = up, !.scheduled = FALSE]

InFlight(t) == [t EXCEPT !.scheduled = FALSE]
ServiceDiscovered(t) == RestoreFastRetry([t EXCEPT !.up = Never])

-----------------------------------------------------------------------------
(* wire_tcp.rs, on a peer's record q or on the roster w *)

Leased(q) == q.lease # Never
HasPeerConnection(q) == q.tracked /\ q.tcp # "none"
Active(q) == q.tracked /\ q.tcp = "open"
Inbound(w) == {p \in Npubs : Leased(w[p])}
Selected(w) == {p \in Npubs : w[p].sel}
Full(w) == Cardinality({p \in Npubs : w[p].tracked}) >= PeerCapacity

NoteServiceFailure(q) == IF q.sel THEN [q EXCEPT !.retry = Failed(@)] ELSE q

\* connect_peer; goes says whether TCP takes the dial.
Dialled(q, goes) ==
    LET begun == [q EXCEPT !.retry = Started(@), !.since = 0,
                           !.hasty = @ \/ q.since < RetryInterval]
    IN  IF goes THEN [begun EXCEPT !.tcp = "syn", !.tracked = TRUE] ELSE NoteServiceFailure(begun)
ConnectPeer(q, full, goes) ==
    CASE HasPeerConnection(q) /\ q.sel ->
            [q EXCEPT !.retry = IF q.tcp = "open" THEN Connected(@) ELSE InFlight(@)]
      [] ~q.sel \/ Leased(q) \/ (~HasPeerConnection(q) /\ q.retry.due > 0) -> q
      [] OTHER -> IF full THEN NoteServiceFailure(q) ELSE Dialled(q, goes)

AbortPeer(q) ==
    LET aborted == [q EXCEPT !.tcp = "none", !.tracked = FALSE] IN
    IF q.tracked THEN NoteServiceFailure(aborted) ELSE aborted

ForgetPeer(q) == NewPeer

\* select_peers and retire: a wanted peer keeps its stream and loses its lease.
SelectPeer(q, wanted) ==
    CASE wanted -> [q EXCEPT !.lease = Never, !.sel = TRUE]
      [] ~wanted /\ (q.sel \/ q.lease >= IdleTimeout) -> ForgetPeer(q)
      [] OTHER -> q

\* admit, for a datagram of p.
Admit(w, p, isSyn) ==
    CASE w[p].sel -> TRUE
      [] Leased(w[p]) -> TRUE
      [] OTHER -> /\ isSyn
                  /\ Cardinality(Inbound(w)) < InboundCap
                  /\ Cardinality(Inbound(w)) + Cardinality(Selected(w)) < PeerCapacity
Admitted(q) == IF q.sel THEN q ELSE [q EXCEPT !.lease = 0]

\* drive_ready, for a peer whose record was q: accept_connections,
\* refresh_active, and the clients that are gone.
Driven(q, now, full) ==
    LET accepted == IF now.tcp = "open" /\ ~now.tracked /\ ~full
                    THEN [now EXCEPT !.tracked = TRUE] ELSE now
        closed == IF accepted.tracked /\ accepted.tcp = "none"
                  THEN NoteServiceFailure([accepted EXCEPT !.tracked = FALSE]) ELSE accepted
        noted == IF Active(closed) /\ closed.sel
                 THEN [closed EXCEPT !.retry = Connected(@)] ELSE closed
    IN  IF Leased(noted) /\ Active(q) /\ ~Active(noted) THEN ForgetPeer(noted) ELSE noted

\* What a segment does to a tuple (fips_tcp): its handshake, or its end.
Handled(tcp, segment) ==
    CASE segment = "SYN" /\ tcp = "none" -> "rcvd"
      [] segment = "SYN-ACK" /\ tcp = "syn" -> "open"
      [] segment = "ACK" /\ tcp = "rcvd" -> "open"
      [] segment = "RST" -> "none"
      [] OTHER -> tcp
Segments == {"SYN", "SYN-ACK", "ACK", "RST"}

-----------------------------------------------------------------------------
(* client_peers.rs *)

\* What connected_peer_links asks of the endpoint: who is connected directly,
\* and who advertises on this host, the pubsub service (an epoch) or others.
Snapshots ==
    [routed : SUBSET Npubs, direct : [Npubs -> Epochs \cup {Never}],
     advert : [Npubs -> Epochs \cup {Never, Withdrawn}]]

\* A routed peer is a routed peer, a local service goes before a direct link,
\* and an endpoint that withdrew its service is not reached by that link.
LinkOf(s, p) ==
    CASE p \in s.routed -> <<"routed", 0>>
      [] p \notin s.routed /\ s.advert[p] \in Epochs -> <<"local", s.advert[p]>>
      [] p \notin s.routed /\ s.advert[p] = Never /\ s.direct[p] # Never -> <<"direct", s.direct[p]>>
      [] OTHER -> NoLink

\* select_links: as many as there is room for, whichever the policy allows and
\* prefers (PeerSelection is about that); a peer in its cooldown is left out by
\* sync_transport_peers.
Selections(s) ==
    LET known == {p \in Npubs : LinkOf(s, p) # NoLink}
        fits(S) == Cardinality(S) <= OutboundCap
    IN  {[p \in Npubs |-> IF p \in S THEN LinkOf(s, p) ELSE NoLink] : S \in {T \in SUBSET known : fits(T)}}

ConnectedPeerLinks == UNION {Selections(s) : s \in Snapshots}

RequiresReset(link, previous) ==
    link # previous /\ ~(previous[1] = "direct" /\ link[1] = "local")

-----------------------------------------------------------------------------
(* client_transport.rs *)

\* sync_transport_peers, for one peer: selected or not, aborted if its link is
\* another one, and dialled.
Synced(q, link, previous, full, goes) ==
    LET chosen == SelectPeer(q, link # NoLink)
        kept == IF previous # NoLink /\ RequiresReset(link, previous) THEN AbortPeer(chosen) ELSE chosen
        found == IF link[1] = "local" /\ link # previous /\ ~HasPeerConnection(kept)
                 THEN [kept EXCEPT !.retry = ServiceDiscovered(@)] ELSE kept
    IN  IF link = NoLink THEN chosen ELSE ConnectPeer(found, full, goes)

SyncTransportPeers ==
    \E next \in ConnectedPeerLinks : \E reached \in SUBSET {p \in Npubs : next[p] # NoLink} :
        /\ links' = next
        /\ roster' = [p \in Npubs |-> Synced(roster[p], next[p], links[p], Full(roster), p \in reached)]

\* receive: a datagram, if it is let in.
ReceiveDatagram(p, segment) ==
    /\ Admit(roster, p, segment = "SYN")
    /\ LET handled == [Admitted(roster[p]) EXCEPT !.tcp = Handled(@, segment)]
           w == [roster EXCEPT ![p] = handled]
       IN  roster' = [k \in Npubs |-> Driven(roster[k], w[k], Full(roster) /\ ~roster[k].tracked)]
    /\ UNCHANGED links

\* poll: the timers of TCP give a tuple up, or nothing happens.
Poll ==
    /\ \E lost \in SUBSET {p \in Npubs : roster[p].tcp # "none"} :
        roster' = [k \in Npubs |->
            Driven(roster[k], [roster[k] EXCEPT !.tcp = IF k \in lost THEN "none" ELSE @],
                   Full(roster) /\ ~roster[k].tracked)]
    /\ UNCHANGED links

\* finish_ready_turn: a frame to send to p, who may have left meanwhile.
SendFrame(p) ==
    /\ \E goes \in BOOLEAN : roster' = [roster EXCEPT ![p] = ConnectPeer(@, Full(roster), goes)]
    /\ UNCHANGED links

\* retry_due_services
RetryDueService(p) ==
    /\ roster[p].sel /\ roster[p].retry.scheduled /\ roster[p].retry.due = 0
    /\ SendFrame(p)

\* forget_cooled_peer; process_wire_report forgets a cooled peer and keeps its
\* link.
Cooldown(p) ==
    /\ roster' = [roster EXCEPT ![p] = ForgetPeer(@)]
    /\ links' \in {links, [links EXCEPT ![p] = NoLink]}

\* Time passes.
Later(q) ==
    LET t == [q.retry EXCEPT !.due = Max({@ - 1, 0}),
                             !.up = IF @ = Never THEN Never ELSE Min({@ + 1, StableInterval})]
    IN  [q EXCEPT !.retry = t,
                  !.lease = IF @ = Never THEN Never ELSE Min({@ + 1, IdleTimeout}),
                  !.since = Min({@ + 1, RetryInterval})]
Pass == roster' = [p \in Npubs |-> Later(roster[p])] /\ UNCHANGED links

RosterNext ==
    \/ SyncTransportPeers \/ Poll \/ Pass
    \/ \E p \in Npubs : \/ SendFrame(p) \/ RetryDueService(p) \/ Cooldown(p)
                        \/ \E segment \in Segments : ReceiveDatagram(p, segment)

-----------------------------------------------------------------------------
\* A peer with TCP state is one the driver selected or leased a slot to, and
\* these are no more than its capacity: promotion, expiry, cooldown and link
\* changes leave no tuple behind (select_peers, admit, retire, abort_peer).
RosterBounded ==
    LET held == Inbound(roster) \cup Selected(roster) IN
    /\ {p \in Npubs : roster[p].tcp # "none"} \subseteq held
    /\ Cardinality(held) <= PeerCapacity

\* A peer that stays selected is dialled no faster than the retry interval,
\* whatever cuts its backoff short (started, failed, restore_fast_retry).
DialsSpaced == \A p \in Npubs : ~roster[p].hasty

\* A selected peer without a connection has its next attempt scheduled: no
\* failure leaves it waiting for the next change of links (failed, in_flight,
\* connect_peer, refresh_active, abort_peer).
NoneStranded ==
    \A p \in Selected(roster) : ~HasPeerConnection(roster[p]) => roster[p].retry.scheduled

\* The roster stays within its capacity, and a selected peer without connection
\* is dialled again, neither never nor too soon.
RosterSound == RosterBounded /\ DialsSpaced /\ NoneStranded
=============================================================================
