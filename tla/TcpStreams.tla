----------------------------- MODULE TcpStreams -----------------------------
(***************************************************************************)
(* Two drivers that may dial each other, as wire_tcp.rs and stream_tcp.rs  *)
(* of crates/nostr-pubsub-fips keep them: the connections each one tracks, *)
(* which one it uses, and fips_tcp beneath (external, modelled by what the *)
(* drivers rely on).  State changes are operators on a record x of the     *)
(* connections, x.tcp, and the two drivers, x.driver.                      *)
(*                                                                         *)
(* Segments arrive late and in any order between connections: a step of    *)
(* the handshake, a reset and each byte take effect in actions of their    *)
(* own.  A connection has a slot from its SYN until both ends have given   *)
(* it up; bytes[n] are on their way to n.                                  *)
(***************************************************************************)
EXTENDS Integers, Sequences, SequencesExt, FiniteSetsExt

CONSTANTS
    MaxSlots,   \* bound on the connections that exist at a time
    MaxTuples,  \* max_connections_per_peer (2 in the code)
    QueueCap,   \* the records a peer's queue holds
    MaxFaults   \* bound on given-up handshakes and aborts

Ends == {"low", "high"}   \* in the order of their npubs
Other(n) == CHOOSE k \in Ends : k # n
Slots == 1..MaxSlots
None == 0                 \* no connection
NoTuple ==
    [dialer |-> "low", state |-> [n \in Ends |-> "gone"], rank |-> [n \in Ends |-> 0],
     bytes |-> [n \in Ends |-> <<>>]]

NewDriver == [tracked |-> {}, active |-> None, queue |-> <<>>, offset |-> 0, input |-> <<>>]

-----------------------------------------------------------------------------
(* fips_tcp *)

Tuples(tcp, n) == {c \in Slots : tcp[c].state[n] \in {"syn", "rcvd", "open"}}

\* A new tuple at n is numbered after those n has.
NextRank(tcp, n) == 1 + Max({tcp[c].rank[n] : c \in Slots})

Opened(tcp, c, n) ==
    [tcp EXCEPT ![c] = [dialer |-> n, state |-> [k \in Ends |-> IF k = n THEN "syn" ELSE "none"],
                        rank |-> [k \in Ends |-> IF k = n THEN NextRank(tcp, n) ELSE 0],
                        bytes |-> [k \in Ends |-> <<>>]]]

\* Tuple c is gone at n, with the bytes n has not read.
Gone(tcp, c, n) ==
    [tcp EXCEPT ![c] = IF @.state[Other(n)] = "gone" THEN NoTuple
                       ELSE [@ EXCEPT !.state[n] = "gone", !.rank[n] = 0, !.bytes[n] = <<>>]]
AllGone(tcp, C, n) == FoldSet(LAMBDA c, t : Gone(t, c, n), tcp, C)

\* The SYN reaches the other end, which refuses it at its limit.
SynArrives(tcp, c) ==
    LET d == tcp[c].dialer
        a == Other(d)
        refused == tcp[c].state[d] = "gone" \/ Cardinality(Tuples(tcp, a)) >= MaxTuples
    IN  IF tcp[c].state[a] # "none" THEN {}
        ELSE {IF refused THEN Gone(tcp, c, a)
              ELSE [tcp EXCEPT ![c].state[a] = "rcvd", ![c].rank[a] = NextRank(tcp, a)]}

\* The SYN-ACK reaches the dialler, or its ACK the other end.
HandshakeArrives(tcp, c) ==
    {[tcp EXCEPT ![c].state[n] = "open"] : n \in
        {k \in Ends : IF k = tcp[c].dialer
                      THEN tcp[c].state[k] = "syn" /\ tcp[c].state[Other(k)] = "rcvd"
                      ELSE tcp[c].state[k] = "rcvd" /\ tcp[c].state[Other(k)] = "open"}}

\* The other end is gone and n hears of it.
ResetArrives(tcp, c) ==
    {Gone(tcp, c, n) : n \in {k \in Ends : c \in Tuples(tcp, k) /\ tcp[c].state[Other(k)] = "gone"}}

\* What a segment of connection c may do next.
Arrivals(tcp, c) == SynArrives(tcp, c) \cup HandshakeArrives(tcp, c) \cup ResetArrives(tcp, c)

-----------------------------------------------------------------------------
(* What the two drivers have in common *)

HasConnection(x, n) == x.driver[n].tracked \cap Tuples(x.tcp, n) # {}

\* connect_peer: nothing tracked is alive, and TCP has a tuple left.
Free(x) == {c \in Slots : x.tcp[c] = NoTuple /\ \A n \in Ends : c \notin x.driver[n].tracked}
MayDial(x, n) ==
    ~HasConnection(x, n) /\ Free(x) # {} /\ Cardinality(Tuples(x.tcp, n)) < MaxTuples
Dial(x, n) ==
    LET c == Min(Free(x)) IN
    [x EXCEPT !.tcp = Opened(@, c, n), !.driver[n].tracked = @ \cup {c}]

\* accept_connections
Accept(x, n) ==
    [x EXCEPT !.driver[n].tracked =
        @ \cup {c \in Tuples(x.tcp, n) : x.tcp[c].dialer # n /\ x.tcp[c].state[n] = "open"}]

\* Mutant: each end prefers the stream it dialled.
PrefersOwn(x, n, c) == x.tcp[c].dialer = n

\* The lower npub prefers its outbound stream, the higher its inbound one.
Prefers(x, n, c) == (x.tcp[c].dialer = n) = (n = "low")

\* refresh_active: of the established streams, a preferred one, the oldest here.
Candidates(x, n) == {c \in x.driver[n].tracked : x.tcp[c].state[n] = "open"}
Before(x, n, c, e) ==
    IF Prefers(x, n, c) = Prefers(x, n, e) THEN x.tcp[c].rank[n] <= x.tcp[e].rank[n]
    ELSE Prefers(x, n, c)
Selected(x, n) ==
    IF Candidates(x, n) = {} THEN None
    ELSE CHOOSE c \in Candidates(x, n) : \A e \in Candidates(x, n) : Before(x, n, c, e)

\* The others are aborted, and what is gone is no longer tracked.
Deduplicated(x, n) ==
    LET best == Selected(x, n)
        extras == Candidates(x, n) \ {best}
    IN  [x EXCEPT !.tcp = AllGone(@, extras, n),
                  !.driver[n].tracked = (@ \ extras) \cap Tuples(x.tcp, n),
                  !.driver[n].active = best]

\* Up to k bytes of the active stream move into the decoder.
Pulled(x, n, k) ==
    LET c == x.driver[n].active IN
    [x EXCEPT !.tcp[c].bytes[n] = SubSeq(@, k + 1, Len(@)),
              !.driver[n].input = @ \o SubSeq(x.tcp[c].bytes[n], 1, k)]

Readable(x, n) ==
    IF x.driver[n].active = None THEN 0 ELSE Len(x.tcp[x.driver[n].active].bytes[n])

\* A record is two bytes: its length prefix and its payload.
Bytes(record) == <<<<record, "length">>, <<record, "payload">>>>
Garbled == <<>>           \* no record

\* RecordDecoder::take: the complete records, read by position alone.
Decoded(input) ==
    [i \in 1..(Len(input) \div 2) |->
        LET record == input[2 * i - 1][1] IN
        IF SubSeq(input, 2 * i - 1, 2 * i) = Bytes(record) THEN record ELSE Garbled]
Rest(input) == SubSeq(input, 2 * (Len(input) \div 2) + 1, Len(input))

\* flush_queues: the next k bytes of the queue are written; a record that is
\* written to its end leaves the queue.  Nobody reads them if the end is gone.
Unwritten(d) == LET bytes == FlattenSeq([i \in DOMAIN d.queue |-> Bytes(d.queue[i])])
                IN  SubSeq(bytes, d.offset + 1, Len(bytes))
Writable(x, n) == IF x.driver[n].active = None THEN 0 ELSE Len(Unwritten(x.driver[n]))
Written(x, n, k) ==
    LET d == x.driver[n]
        c == d.active
        to == Other(n)
        end == d.offset + k
    IN  IF k = 0 THEN x
        ELSE [x EXCEPT !.tcp[c].bytes[to] = IF x.tcp[c].state[to] = "gone" THEN @
                                            ELSE @ \o SubSeq(Unwritten(d), 1, k),
                       !.driver[n].queue = SubSeq(@, end \div 2 + 1, Len(@)),
                       !.driver[n].offset = end % 2]

\* abort_peer: every tuple of the peer goes, tracked or not.
Aborted(x, n) ==
    [x EXCEPT !.tcp = AllGone(@, Tuples(@, n), n), !.driver[n].tracked = {},
              !.driver[n].active = None, !.driver[n].input = <<>>]
=============================================================================
