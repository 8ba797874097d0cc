------------------------------ MODULE WireLane ------------------------------
(***************************************************************************)
(* One FIPS client's way to the wire and back: the privacy role decides    *)
(* what may be subscribed to (privacy_roles.rs), subscribe turns filters   *)
(* into a REQ frame (client_inner.rs), the same role checks every frame    *)
(* once more as it leaves, and the codec (wire.rs) writes and reads frames *)
(* that a peer may also have written itself.  A frame is a JSON array of   *)
(* typed values and its length; the JSON text is left out.                 *)
(***************************************************************************)
EXTENDS Integers, Sequences, FiniteSets, SequencesExt

CONSTANTS
    Keys,               \* public keys
    EventIds,           \* event ids; a body is named by the id it hashes to
    KindTop, BytesTop, HopTop,      \* 2^16, 2^32 and 2^8
    MaxFilters,         \* max_filters_per_subscription
    MaxReplay,          \* max_replay_events, the clamp of a filter's limit
    MaxFrame            \* max_frame_bytes, in JSON values

VARIABLES
    role,       \* ClientRole, or NoRole before the client is started
    outgoing,   \* a frame built by the client and not yet let out, or NoFrame
    wire,       \* the frame a reader is about to decode, or NoFrame
    said,       \* the message behind outgoing and wire; NoMessage if foreign
    heard,      \* the last message read, Refused, or NoMessage
    source,     \* the frame heard was read from, or NoFrame
    blocked,    \* validate_outbound refused a frame the client built
    named       \* the filters of the REQ frames let out

laneVars == <<role, outgoing, wire, said, heard, source, blocked, named>>

-----------------------------------------------------------------------------
(* Privacy roles                                                           *)

\* The kinds the roles tell apart: 1059; 1060 and 21111; 0, 10002 and 10050;
\* 37195; 30078; 37368; any other.
Private == {"wrap", "session"}
Profiles == {"profile", "advert"}
Shared == {"appdata", "appkeys"}

Unset == {"unset"}      \* a field the filter does not have

\* default_peerfinding_filter
PeerFinding ==
    [kinds |-> {"advert"}, authors |-> Unset, devices |-> Unset, tag |-> "advert",
     limit |-> 0]

MatchAll ==
    [kinds |-> Unset, authors |-> Unset, devices |-> Unset, tag |-> "none", limit |-> 0]

NoRole == [name |-> "none"]
Full == [name |-> "full"]
Publisher == [name |-> "publisher"]
Receiver(public) == [name |-> "receiver", public |-> public]
Discovery(field, key) == [name |-> "discovery", field |-> field, key |-> key]

HasKinds(f) == f.kinds # Unset /\ f.kinds # {}

\* Mutant of InScope: the other kind of key is not looked for.
InScopeEitherKey(scope, f) ==
    /\ f[scope.field] = {scope.key}
    /\ HasKinds(f)
    /\ f.kinds \subseteq IF scope.field = "authors"
                         THEN {"wrap"} \cup Profiles \cup Shared
                         ELSE {"appkeys"}
    /\ f.tag # "group"

\* FipsDiscoveryScope::validate: one key, in the one field, public kinds, and
\* no group roster.
InScope(scope, f) ==
    /\ f[scope.field] = {scope.key}
    /\ f[IF scope.field = "authors" THEN "devices" ELSE "authors"] = Unset
    /\ HasKinds(f)
    /\ f.kinds \subseteq IF scope.field = "authors"
                         THEN {"wrap"} \cup Profiles \cup Shared
                         ELSE {"appkeys"}
    /\ f.tag # "group"

\* FipsDiscoveryScope::from_filter: the scopes a filter can stand for, one or none.
FromFilter(f) ==
    {scope \in {Discovery(field, key) : field \in {"authors", "devices"}, key \in Keys} :
        InScope(scope, f)}

\* A receiver may name whom it likes in private kinds only.
ReceiverAllows(public, f) ==
    LET explicitlyPublic == f.authors \notin {Unset, {}} /\ f.authors \subseteq public
    IN  /\ HasKinds(f)
        /\ \A kind \in f.kinds :
              CASE kind \in Private -> f.devices # Unset \/ f.authors \notin {Unset, {}}
                [] kind \in Shared -> explicitlyPublic
                [] kind \in Profiles ->
                      explicitlyPublic \/ (f.authors = Unset /\ f.devices = Unset)
                [] OTHER -> f.authors = Unset \/ explicitlyPublic

RoleAllows(f) ==
    CASE role.name = "full" -> TRUE
      [] role.name = "publisher" -> FALSE
      [] role.name = "discovery" -> InScope(role, f)
      [] role.name = "receiver" -> ReceiverAllows(role.public, f)

\* Mutant of ValidateFilters: the limit counts when peer finding is recognised.
ValidateFiltersLimited(filters) ==
    \A i \in DOMAIN filters : filters[i] = PeerFinding \/ RoleAllows(filters[i])

\* validate_filters: peer finding is open to every role, whatever its limit.
ValidateFilters(filters) ==
    \A i \in DOMAIN filters :
        [filters[i] EXCEPT !.limit = 0] = PeerFinding \/ RoleAllows(filters[i])

-----------------------------------------------------------------------------
(* The codec                                                               *)

\* JSON values, by type; objects are named for what the nostr library reads.
Text(v) == [text |-> v]
Number(v) == [number |-> v]
Flag(v) == [flag |-> v]
List(v) == [list |-> v]
Event(v) == [event |-> v]
Filter(v) == [filter |-> v]

Is(value, type) == DOMAIN value = {type}

NoMessage == [kind |-> "none"]
Refused == [kind |-> "refused"]
NoFrame == [size |-> -1, fields |-> <<>>]

Req(id, filters) == [kind |-> "REQ", id |-> id, filters |-> filters]
Close(id) == [kind |-> "CLOSE", id |-> id]
Publish(e) == [kind |-> "PUBLISH", event |-> e]
Deliver(id, e) == [kind |-> "DELIVER", id |-> id, event |-> e]
Ok(id, accepted, note) == [kind |-> "OK", id |-> id, accepted |-> accepted, note |-> note]
Inv(ids, id, kind, bytes, hops) ==
    [kind |-> "INV", ids |-> ids, id |-> id, eventKind |-> kind, bytes |-> bytes,
     hops |-> hops]
Want(id) == [kind |-> "WANT", id |-> id]

\* The arrays encode_frame writes.
Fields(m) ==
    CASE m.kind = "REQ" -> <<Text("REQ"), Text(m.id)>>
                               \o [i \in DOMAIN m.filters |-> Filter(m.filters[i])]
      [] m.kind = "CLOSE" -> <<Text("CLOSE"), Text(m.id)>>
      [] m.kind = "PUBLISH" -> <<Text("EVENT"), Event(m.event)>>
      [] m.kind = "DELIVER" -> <<Text("EVENT"), Text(m.id), Event(m.event)>>
      [] m.kind = "OK" -> <<Text("OK"), Text(m.id), Flag(m.accepted), Text(m.note)>>
      [] m.kind = "INV" -> <<Text("INV"),
                             List([i \in DOMAIN m.ids |-> Text(m.ids[i])]),
                             Text(m.id), Number(m.eventKind), Number(m.bytes),
                             Number(m.hops)>>
      [] m.kind = "WANT" -> <<Text("WANT"), Text(m.id)>>

Size(fields) ==
    FoldLeft(LAMBDA n, f : n + 1 + IF Is(f, "list") THEN Len(f.list) ELSE 0, 0, fields)

Frame(fields) == [size |-> Size(fields), fields |-> fields]

Fits(frame) == frame.size <= MaxFrame

\* encode_frame: an oversized message is an error, not a frame.
Encode(m) == {f \in {Frame(Fields(m))} : Fits(f)}

IsEventId(value) == Is(value, "text") /\ value.text \in EventIds

\* Mutant of Unsigned: the number is cut down to its field's width.
UnsignedWrapped(value, top) ==
    IF Is(value, "number") /\ value.number >= 0 THEN {value.number % top} ELSE {}

\* decode_unsigned: the number, if it fits the type.
Unsigned(value, top) ==
    IF Is(value, "number") /\ value.number \in 0..(top - 1) THEN {value.number} ELSE {}

\* decode_subscription_ids: at least one, all strings, no two alike.
SubscriptionIds(value) ==
    IF /\ Is(value, "list") /\ value.list # <<>>
       /\ \A i \in DOMAIN value.list : Is(value.list[i], "text")
       /\ IsInjective(value.list)
    THEN {[i \in DOMAIN value.list |-> value.list[i].text]} ELSE {}

DecodeInv(fields) ==
    {Inv(ids, fields[3].text, kind, bytes, hops) :
        ids \in SubscriptionIds(fields[2]),
        kind \in Unsigned(fields[4], KindTop),
        bytes \in Unsigned(fields[5], BytesTop),
        hops \in {h \in Unsigned(fields[6], HopTop) : h > 0 /\ IsEventId(fields[3])}}

\* VerifiedEvent::try_from
Verified(value) ==
    Is(value, "event") /\ value.event.id = value.event.body /\ value.event.sig = value.event.id

\* decode_frame: the one message a frame stands for, or none.
Decode(frame) ==
    LET fields == frame.fields
        n == Len(fields)
        IsText(i) == Is(fields[i], "text")
        Tagged(tag) == Fits(frame) /\ n > 0 /\ IsText(1) /\ fields[1].text = tag
    IN  CASE Tagged("REQ") /\ n >= 3 /\ IsText(2) /\ \A i \in 3..n : Is(fields[i], "filter") ->
               {Req(fields[2].text, [i \in 1..(n - 2) |-> fields[i + 2].filter])}
          [] Tagged("CLOSE") /\ n = 2 /\ IsText(2) -> {Close(fields[2].text)}
          [] Tagged("EVENT") /\ n = 2 /\ Verified(fields[2]) -> {Publish(fields[2].event)}
          [] Tagged("EVENT") /\ n = 3 /\ IsText(2) /\ Verified(fields[3]) ->
               {Deliver(fields[2].text, fields[3].event)}
          [] Tagged("OK") /\ n = 4 /\ IsEventId(fields[2]) /\ Is(fields[3], "flag") /\ IsText(4) ->
               {Ok(fields[2].text, fields[3].flag, fields[4].text)}
          [] Tagged("INV") /\ n = 6 -> DecodeInv(fields)
          [] Tagged("WANT") /\ n = 2 /\ IsEventId(fields[2]) -> {Want(fields[2].text)}
          [] OTHER -> {}

-----------------------------------------------------------------------------
(* The client                                                              *)

LaneInit ==
    /\ role = NoRole
    /\ outgoing = NoFrame /\ wire = NoFrame /\ source = NoFrame
    /\ said = NoMessage /\ heard = NoMessage
    /\ blocked = FALSE
    /\ named = {}

Started(r) ==
    /\ role = NoRole
    /\ role' = r
    /\ UNCHANGED <<outgoing, wire, said, heard, source, blocked, named>>

StartFull == Started(Full)
StartPublisher == Started(Publisher)
StartReceiveOnly(public) == Started(Receiver(public))

\* start_anonymous_discovery, with the scope of one public lookup.
StartDiscovery(f) == \E scope \in FromFilter(f) : Started(scope)

Idle == role # NoRole /\ outgoing = NoFrame /\ wire = NoFrame

Clamp(f) ==
    [f EXCEPT !.limit = IF @ = 0 \/ @ > MaxReplay THEN MaxReplay ELSE @]

Build(m) ==
    /\ Idle
    /\ \E frame \in Encode(m) : outgoing' = frame
    /\ said' = m
    /\ heard' = NoMessage /\ source' = NoFrame
    /\ UNCHANGED <<role, wire, blocked, named>>

\* subscribe, as far as the frame it sends: no filter is a filter for
\* everything, the role is asked, limits are clamped.
Subscribe(id, filters) ==
    LET asked == IF filters = <<>> THEN <<MatchAll>> ELSE filters
    IN  /\ Len(asked) <= MaxFilters
        /\ role # NoRole /\ ValidateFilters(asked)
        /\ Build(Req(id, [i \in DOMAIN asked |-> Clamp(asked[i])]))

\* The other frames a client builds; a restricted one asks and closes.
Say(m) ==
    /\ role = Full \/ m.kind = "CLOSE"
         \/ (m.kind = "WANT" /\ role.name \in {"receiver", "discovery"})
    /\ Build(m)

\* validate_outbound; FipsServing has what restricted roles may publish.
Outbound(m) ==
    \/ role = Full
    \/ m.kind = "CLOSE"
    \/ m.kind = "WANT" /\ role.name \in {"receiver", "discovery"}
    \/ m.kind = "REQ" /\ ValidateFilters(m.filters)

LetOut ==
    /\ outgoing # NoFrame
    /\ outgoing' = NoFrame
    /\ \/ /\ \E m \in Decode(outgoing) :
                /\ Outbound(m)
                /\ named' = IF m.kind = "REQ" THEN named \cup ToSet(m.filters) ELSE named
          /\ wire' = outgoing
          /\ UNCHANGED blocked
       \/ /\ \A m \in Decode(outgoing) : ~Outbound(m)
          /\ blocked' = TRUE
          /\ UNCHANGED <<wire, named>>
    /\ UNCHANGED <<role, said, heard, source>>

\* A peer writes a frame of its own.
Foreign(fields) ==
    /\ Idle
    /\ wire' = Frame(fields)
    /\ said' = NoMessage
    /\ heard' = NoMessage /\ source' = NoFrame
    /\ UNCHANGED <<role, outgoing, blocked, named>>

\* The reader's decode_frame.
Hear ==
    /\ wire # NoFrame
    /\ wire' = NoFrame
    /\ source' = wire
    /\ \/ heard' \in Decode(wire)
       \/ Decode(wire) = {} /\ heard' = Refused
    /\ UNCHANGED <<role, outgoing, said, blocked, named>>

-----------------------------------------------------------------------------
\* A frame the client lets out is read by its peer as the message it was built
\* from, and a frame a peer wrote is refused or read as exactly what it says:
\* nothing cut to a smaller number, no duplicate ids, no unverified event.
Understood ==
    heard # NoMessage =>
        /\ said # NoMessage => heard = said
        /\ heard # Refused =>
              /\ Fields(heard) = source.fields
              /\ heard.kind \in {"PUBLISH", "DELIVER"} => Verified(Event(heard.event))
              /\ heard.kind = "INV" => heard.hops > 0 /\ IsInjective(heard.ids)

\* What subscribe accepts is sent: the limit it clamps and the trip through the
\* codec never make the second check refuse the REQ the first one allowed.
AcceptedIsSent == ~blocked

Names(f) == (f.authors \cup f.devices) \ Unset

\* The lanes stay apart: whatever a client subscribes to over its life, a lookup
\* client never names a second person, and an identified receiver names an
\* author who is not on its public list only in filters for private kinds.
LanesApart ==
    /\ role.name = "discovery" =>
          UNION {Names(f) : f \in named} \subseteq {role.key}
    /\ role.name = "receiver" =>
          \A f \in named : (f.authors \ Unset) \subseteq role.public \/ f.kinds \subseteq Private
=============================================================================
