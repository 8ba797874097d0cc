---------------------------- MODULE PeerBehavior ----------------------------
(***************************************************************************)
(* The behaviour scores of mesh.rs (peer_behaviors, peer_behavior_order):  *)
(* record_peer_behavior, peer_behavior_observation, peers_with_behavior.   *)
(*                                                                         *)
(* A peer is tracked when it is in the order; the counters of an untracked *)
(* peer are the defaults.  The scores and thresholds are constants so that *)
(* TLC can use smaller ones than the code's 20, -40, -20, 100 and 3; the   *)
(* u32 counters saturate at CounterMax instead of 2^32 - 1.                *)
(***************************************************************************)
EXTENDS Integers, Sequences, FiniteSets, SequencesExt, PeerSelection

CONSTANTS
    Peers,                    \* transport peer ids (Strings: ordered)
    ValidFrameReward,         \* VALID_FRAME_REWARD
    InvalidMessagePenalty,    \* -INVALID_MESSAGE_PENALTY
    UnservedPenalty,          \* -UNSERVED_INVENTORY_PENALTY
    ScoreCap,                 \* scores are clamped to -ScoreCap .. ScoreCap
    MinSamples,               \* MIN_PEER_BEHAVIOR_SAMPLES
    MaxTracked,               \* MAX_TRACKED_PEER_BEHAVIORS
    CounterMax                \* u32::MAX

ASSUME PeersAssumption == Peers \subseteq Nat \ {0} /\ IsFiniteSet(Peers)

ASSUME BehaviorAssumption ==
    /\ ValidFrameReward \in Nat /\ InvalidMessagePenalty \in Nat /\ UnservedPenalty \in Nat
    /\ ScoreCap \in Nat /\ CounterMax \in Nat
    /\ MinSamples \in Nat \ {0} /\ MaxTracked \in Nat \ {0}

NoEvidence == [score |-> 0, samples |-> 0, valid |-> 0, invalid |-> 0, unserved |-> 0]

BehaviorType ==
    [table : [Peers -> [score : -ScoreCap..ScoreCap, samples : 0..CounterMax,
                        valid : 0..CounterMax, invalid : 0..CounterMax,
                        unserved : 0..CounterMax]],
     order : Seq(Peers)]

EmptyBehavior == [table |-> [p \in Peers |-> NoEvidence], order |-> <<>>]

Tracked(b) == ToSet(b.order)

Clamp(x) == IF x > ScoreCap THEN ScoreCap ELSE IF x < -ScoreCap THEN -ScoreCap ELSE x
Bump(counter) == IF counter < CounterMax THEN counter + 1 ELSE CounterMax

\* Mutant: an evicted peer keeps its evidence.
MakeRoomKeepingEvidence(b, p) ==
    IF p \in Tracked(b) \/ Len(b.order) < MaxTracked
    THEN [b EXCEPT !.order = IF p \in Tracked(b) THEN @ ELSE Append(@, p)]
    ELSE [b EXCEPT !.order = Append(Tail(@), p)]

\* The eviction loop of record_peer_behavior; at most MaxTracked peers stay.
MakeRoom(b, p) ==
    IF p \in Tracked(b) THEN b
    ELSE LET excess == Len(b.order) - MaxTracked + 1
             k      == IF excess > 0 THEN excess ELSE 0
             gone   == ToSet(SubSeq(b.order, 1, k))
         IN  [table |-> [q \in Peers |-> IF q \in gone THEN NoEvidence ELSE b.table[q]],
              order |-> Append(SubSeq(b.order, k + 1, Len(b.order)), p)]

\* evidence is "valid", "invalid" or "unserved".
Sampled(counters, delta, evidence) ==
    [counters EXCEPT !.samples = Bump(@), !.score = Clamp(@ + delta), ![evidence] = Bump(@)]

RecordPeerBehavior(b, p, delta, evidence) ==
    LET room == MakeRoom(b, p)
    IN  [room EXCEPT !.table[p] = Sampled(room.table[p], delta, evidence)]

RecordInvalid(b, p) == RecordPeerBehavior(b, p, -InvalidMessagePenalty, "invalid")
RecordValid(b, p)   == RecordPeerBehavior(b, p, ValidFrameReward, "valid")

\* prune blames every provider in the list it collected, one by one.
RecordUnserved(b, blamed) ==
    LET after[i \in 0..Len(blamed)] ==
            IF i = 0 THEN b
            ELSE RecordPeerBehavior(after[i - 1], blamed[i], -UnservedPenalty, "unserved")
    IN  after[Len(blamed)]

HasObservation(b, p) == b.table[p].samples >= MinSamples

\* peers_with_behavior: the external score and the local one, when observed.
WithBehavior(b, peer) ==
    LET local == b.table[peer.id].score
    IN  CASE peer.known /\ HasObservation(b, peer.id)  -> MeshPeer(peer.id, TRUE, Clamp(peer.score + local))
          [] ~peer.known /\ HasObservation(b, peer.id) -> MeshPeer(peer.id, TRUE, local)
          [] OTHER                                     -> peer

PeersWithBehavior(b, peers) == [i \in DOMAIN peers |-> WithBehavior(b, peers[i])]
=============================================================================
