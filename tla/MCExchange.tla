----------------------------- MODULE MCExchange -----------------------------
(***************************************************************************)
(* Parts that stand between this node and others, one per mode: the relay  *)
(* adapter's live subscription with its fairness, the FIPS frames and      *)
(* privacy roles, the verification cache, and the choice of mesh peers     *)
(* against a declarative definition of it.                                 *)
(***************************************************************************)
EXTENDS RelayLive

CONSTANTS
    Keys, EventIds, KindTop, BytesTop, HopTop, MaxFilters,
    MaxReplay, MaxFrame,
    Bodies, Nonces, CacheCapacity,
    Ids, Scores, MaxPeers, MaxFanout

ASSUME ExchangeAssumption == CacheCapacity \in Nat \ {0}

VARIABLES
    mode,
    role, outgoing, wire, said, heard, source, blocked, named,
    signatures, order, asked, answer,
    peers, excluded, fanout, reserve

Lane == INSTANCE WireLane
Cache == INSTANCE VerificationCache
Selection == INSTANCE PeerSelection

laneVars == <<role, outgoing, wire, said, heard, source, blocked, named>>
cacheVars == <<signatures, order, asked, answer>>
selectVars == <<peers, excluded, fanout, reserve>>
vars == <<mode, relayVars, laneVars, cacheVars, selectVars>>

-----------------------------------------------------------------------------
(* Filters and frames                                                      *)

PublicAuthors == {{}, {"ann"}}

\* Peer finding with and without a limit, and filters of every shape the roles
\* tell apart: mixed kinds, nobody, a public and another author, devices, groups.
Filters ==
    {Lane!PeerFinding, [Lane!PeerFinding EXCEPT !.limit = 3],
     [Lane!PeerFinding EXCEPT !.authors = {"ann"}]}
    \cup [kinds : {Lane!Unset, {}, {"wrap"}, {"wrap", "profile"}, {"appkeys"},
                   {"session", "note"}, {"note"}},
          authors : {Lane!Unset, {}, {"ann"}, {"bob"}},
          devices : {Lane!Unset, {"bob"}}, tag : {"none", "group"}, limit : {0}]

Genuine == [id |-> "e1", body |-> "e1", sig |-> "e1"]
Forged == [id |-> "e1", body |-> "e2", sig |-> "e1"]

SomeMessages ==
    {Lane!Close("s1"), Lane!Publish(Genuine), Lane!Deliver("s1", Genuine), Lane!Want("e1"),
     Lane!Ok("e1", TRUE, "saved"), Lane!Req("s1", <<Lane!PeerFinding>>)}
    \cup {Lane!Inv(ids, "e1", kind, 1, hops) : ids \in {<<"s1">>, <<"s1", "s2">>},
            kind \in {0, KindTop - 1}, hops \in {1, HopTop - 1}}

\* What a peer may write where something else belongs.
Junk ==
    <<Lane!Text("other"), Lane!Flag(TRUE), Lane!Event(Genuine), Lane!Event(Forged),
      Lane!Number(-1), Lane!Number(0), Lane!Number(KindTop), Lane!Number(BytesTop + 1),
      Lane!Number(HopTop + 1), Lane!List(<<>>),
      Lane!List(<<Lane!Text("s1"), Lane!Text("s1")>>),
      Lane!List(<<Lane!Number(0)>>),
      Lane!List(<<Lane!Text("s1"), Lane!Text("s2"), Lane!Text("s3")>>)>>

\* Decoding does not depend on the role, so foreign frames meet a full client.
PeerWrites ==
    /\ role = Lane!Full /\ named = {}
    /\ \E m \in SomeMessages :
          \/ \E i \in DOMAIN Lane!Fields(m), j \in DOMAIN Junk :
                Lane!Foreign([Lane!Fields(m) EXCEPT ![i] = Junk[j]])
          \/ Lane!Foreign(Front(Lane!Fields(m)))
          \/ \E j \in DOMAIN Junk : Lane!Foreign(Append(Lane!Fields(m), Junk[j]))

MaxNamed == IF role = Lane!Full THEN 1 ELSE 2

LaneStep ==
    \/ Lane!StartFull
    \/ Lane!StartPublisher
    \/ \E public \in PublicAuthors : Lane!StartReceiveOnly(public)
    \/ \E f \in Filters : Lane!StartDiscovery(f)
    \/ /\ Cardinality(named) < MaxNamed
       /\ \E filters \in {<<>>} \cup {<<f>> : f \in Filters}
                           \cup {<<Lane!PeerFinding, f>> : f \in Filters} :
            Lane!Subscribe("s1", filters)
    \/ named = {} /\ \E m \in SomeMessages : Lane!Say(m)
    \/ Lane!LetOut
    \/ PeerWrites
    \/ Lane!Hear

-----------------------------------------------------------------------------
(* The choice of mesh peers                                                *)

MCScores == {-1, 0, 1}

Entries ==
    {Selection!MeshPeer(id, TRUE, score) : id \in Ids, score \in Scores}
        \cup {Selection!MeshPeer(id, FALSE, 0) : id \in Ids}

SelectInit ==
    /\ peers = <<>>
    /\ excluded \in {Selection!NoPeer} \cup {CHOOSE id \in Ids : TRUE}
    /\ fanout \in 1..MaxFanout
    /\ reserve \in 0..fanout

\* Another connected peer is listed.
List ==
    /\ Len(peers) < MaxPeers
    /\ \E p \in Entries : peers' = Append(peers, p)
    /\ UNCHANGED <<excluded, fanout, reserve>>

\* One entry per peer: its earliest scored one, else its unscored one.
PeerLists ==
    LET Listed(i, j) == peers[i].id = peers[j].id
    IN  {peers[i] : i \in {i \in DOMAIN peers :
            /\ peers[i].id # excluded
            /\ IF peers[i].known
               THEN \A j \in 1..(i - 1) : Listed(i, j) => ~peers[j].known
               ELSE \A j \in DOMAIN peers : Listed(i, j) => ~peers[j].known}}

UnknownIn(set) == {p \in set : ~p.known}

\* The best n of a set of peers, by RanksBefore.
Best(set, n) == {p \in set : Cardinality({q \in set : Selection!RanksBefore(q, p)}) < n}

\* The ranking with the reserve applied: the unknown peers among the best
\* `fanout`, raised to the reserve, and the best known peers for the rest.
Reference ==
    LET unknown == UnknownIn(PeerLists)
        natural == Cardinality(UnknownIn(Best(PeerLists, fanout)))
        wanted  == Selection!Smaller(reserve, Cardinality(unknown))
        n       == IF natural < wanted THEN wanted ELSE natural
    IN  Best(unknown, n) \cup Best(PeerLists \ unknown, fanout - n)

-----------------------------------------------------------------------------
Init ==
    /\ mode \in {"relay", "lane", "cache", "select"}
    /\ RelayInit
    /\ Lane!LaneInit
    /\ Cache!CacheInit
    /\ IF mode = "select" THEN SelectInit
       ELSE peers = <<>> /\ excluded = Selection!NoPeer /\ fanout = 1 /\ reserve = 0

Next ==
    \/ mode = "relay" /\ RelayNext /\ UNCHANGED <<mode, laneVars, cacheVars, selectVars>>
    \/ mode = "lane" /\ LaneStep /\ UNCHANGED <<mode, relayVars, cacheVars, selectVars>>
    \/ mode = "cache" /\ Cache!CacheNext
         /\ UNCHANGED <<mode, relayVars, laneVars, selectVars>>
    \/ mode = "select" /\ List /\ UNCHANGED <<mode, relayVars, laneVars, cacheVars>>

\* The relays' pool, the runtime's timers and the notifications task keep going.
Relaying == mode = "relay"
Fairness ==
    /\ \A r \in Relays : WF_relayVars(Relaying /\ Notify(r))
    /\ WF_relayVars(Relaying /\ Tick)
    /\ WF_relayVars(Relaying /\ Receive(TRUE))
    /\ WF_relayVars(Relaying /\ Lagged)
    /\ WF_relayVars(Relaying /\ StartReplay)
    /\ WF_relayVars(Relaying /\ EndReplay)
    /\ \A f \in LiveFilters : /\ WF_relayVars(Relaying /\ Unsubscribe(f))
                              /\ WF_relayVars(Relaying /\ Resubscribe(f, Relays))

Spec == Init /\ [][Next]_vars /\ Fairness

-----------------------------------------------------------------------------
\* Frames a client lets out are read as the messages they were built from, and
\* frames a peer wrote are refused or read as exactly what they say (wire.rs);
\* what subscribe accepts is not refused on its way out, and names nobody the
\* client's role keeps out of that lane (privacy_roles.rs).
Understood == mode = "lane" => Lane!Understood /\ Lane!AcceptedIsSent /\ Lane!LanesApart

\* The cache answers what a full check of the event would (nostr-pubsub lib.rs).
CacheExact == mode = "cache" => Cache!CacheExact

\* select_mesh_peers picks exactly the reference set, each peer once, for
\* duplicate entries, ties and every reserve: its take-then-replace loop never
\* drops a better peer than it has to.
SelectsReference ==
    mode = "select" =>
        LET selected == Selection!SelectMeshPeers(peers, excluded, fanout, reserve)
        IN  ToSet(selected) = Reference /\ Len(selected) = Cardinality(Reference)
=============================================================================
