--------------------------- MODULE MCFipsServing ---------------------------
(***************************************************************************)
(* What a FIPS client keeps of its peers, side by side; mode says which    *)
(* part a behaviour is about: what is served to them (FipsServing), whom   *)
(* it talks to, how they behave, the ids seen from them and the            *)
(* subscriptions they have.                                                *)
(***************************************************************************)
EXTENDS FipsServing, PeerRoster, TLC

CONSTANTS
    Providers, DecayInterval, DisconnectScore, CooldownTime, Grace, MaxTracked, MaxPoints, MaxAge,
    Subscriptions, Ids, MaxPerScope, MaxTotal, MaxGeneration,
    StorePeers, SubscriptionIds, narrow, wide, huge, Requests, FilterCount, EncodedBytes,
    MaxPeers, MaxSubscriptions, MaxFilters

ASSUME ProvidersAssumption ==
    /\ DecayInterval \in Nat \ {0} /\ DisconnectScore \in Nat \ {0} /\ Grace \in Nat \ {0}
    /\ CooldownTime \in Nat

\* ScopedSeenIds::new
ASSUME SeenAssumption ==
    /\ IsFiniteSet(Subscriptions) /\ IsFiniteSet(Ids)
    /\ MaxPerScope \in Nat \ {0} /\ MaxTotal \in Nat \ {0}

\* PubsubSubscriptionLimits
ASSUME StoreAssumption ==
    /\ FilterCount \in [Requests -> Nat] /\ EncodedBytes \in [Requests -> Nat]
    /\ MaxPeers \in Nat /\ MaxSubscriptions \in Nat

VARIABLES mode, tracked, state, calm, lastOne, seen, reply, peers, peerOrder, retained

\* The first subscription accepts every event, the second the first only.
MCMatches == [s \in SubIds |-> IF s = "s1" THEN Events ELSE {"a"}]

\* A request of one filter, one of two, and one over the limit.
MCRequests == {narrow, wide, huge}
MCFilterCount == (narrow :> 1) @@ (wide :> 2) @@ (huge :> 3)
MCEncodedBytes == (narrow :> 2) @@ (wide :> 3) @@ (huge :> 5)

Behavior == INSTANCE ProviderBehavior
SeenIds == INSTANCE ScopedSeenIds
PeerSubs == INSTANCE PeerSubscriptions WITH Peers <- StorePeers

servingVars == vars
behaviorVars == <<tracked, state, calm, lastOne>>
seenVars == <<seen, reply>>
subsVars == <<peers, peerOrder, retained>>

MCInit ==
    /\ mode \in {"serving", "roster", "behavior", "seen", "subscriptions"}
    /\ Init /\ (mode # "serving" => role = "full" /\ source = NoStore)
    /\ RosterInit /\ Behavior!BehaviorInit /\ SeenIds!Init /\ PeerSubs!Init

MCNext ==
    /\ \/ mode = "serving" /\ Next /\ UNCHANGED <<rosterVars, behaviorVars, seenVars, subsVars>>
       \/ mode = "roster" /\ RosterNext /\ UNCHANGED <<servingVars, behaviorVars, seenVars, subsVars>>
       \/ mode = "behavior" /\ Behavior!BehaviorNext /\ UNCHANGED <<servingVars, rosterVars, seenVars, subsVars>>
       \/ mode = "seen" /\ SeenIds!Next /\ UNCHANGED <<servingVars, rosterVars, behaviorVars, subsVars>>
       \/ mode = "subscriptions" /\ PeerSubs!Next /\ UNCHANGED <<servingVars, rosterVars, behaviorVars, seenVars>>
    /\ UNCHANGED mode

MCSpec == MCInit /\ [][MCNext]_<<mode, servingVars, rosterVars, behaviorVars, seenVars, subsVars>>

\* `reply` is the result of the last call; no step reads it.
StateView == <<mode, servingVars, rosterVars, behaviorVars, seen, subsVars>>

\* Two queues, generations and compaction amount to one plain FIFO window: an
\* id is forgotten exactly when it is the oldest of a full scope or of a full
\* whole, however often it was observed, evicted and observed again
\* (seen_ids.rs, observe_with_match).
ImplementsWindow ==
    SeenIds!Abstract!Init /\ [][mode = "seen" => SeenIds!Abstract!Next]_<<SeenIds!Window, reply>>

\* Two levels of maps and queues behave as one nested list in order of use:
\* a peer over the limit pushes out the least recently used one and no other, a
\* subscription the oldest of its own peer, and renewing one is a use of both
\* (subscriptions.rs, upsert).
ImplementsRecent ==
    PeerSubs!Abstract!Init /\ [][mode = "subscriptions" => PeerSubs!Abstract!Next]_<<PeerSubs!Recent>>

\* A provider that errs now and then is never cut off, however often its score
\* is looked at in between (provider_behavior.rs).
CalmKept == Behavior!CalmKept

\* The bounded tables account for what they hold: calm providers are kept
\* (provider_behavior.rs), stale records of the seen ids do not pile up
\* (seen_ids.rs), and the totals of the subscription store are the sums over
\* what it holds after every replacement, eviction, close and departure
\* (subscriptions.rs).
TablesAccounted == CalmKept /\ SeenIds!Bounded /\ PeerSubs!Retained
=============================================================================
