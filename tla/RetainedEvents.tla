--------------------------- MODULE RetainedEvents ---------------------------
(***************************************************************************)
(* RetainedEvents (crates/nostr-pubsub/src/retained.rs): which signed      *)
(* events a bounded local snapshot keeps.  The code keeps a vector sorted  *)
(* newest first, ties by the lower id; ids are unique, so the set          *)
(* determines the vector and the model keeps the set.                      *)
(***************************************************************************)
EXTENDS Integers, FiniteSets, SequencesExt

CONSTANTS
    Events,     \* event ids, compared as numbers
    Accepted,   \* those the retention policy's filters match, of a storable kind and size
    CreatedAt,  \* created_at
    ExpiresAt,  \* the expiration tag; NoExpiration if there is none
    CoordOf,    \* the replaceable coordinate of an event, or NoCoordinate
    SizeOf,     \* its encoded length
    MaxEvents,  \* policy.max_events
    MaxBytes    \* MAX_RETAINED_SNAPSHOT_BYTES - 128

NoExpiration == 0
NoCoordinate == "none"
Skew == 300  \* seconds an event may lie in the future

ASSUME RetainedAssumption ==
    /\ Events \subseteq Nat /\ IsFiniteSet(Events) /\ Accepted \subseteq Events
    /\ CreatedAt \in [Events -> Nat] /\ ExpiresAt \in [Events -> Nat] /\ SizeOf \in [Events -> Nat]
    /\ DOMAIN CoordOf = Events
    /\ MaxEvents \in 1..4096 /\ MaxBytes \in Nat

\* retained_event_is_current
IsCurrent(e, now) ==
    /\ CreatedAt[e] <= now + Skew
    /\ ExpiresAt[e] = NoExpiration \/ ExpiresAt[e] > now

\* event_supersedes, and the order of the vector.
Supersedes(e, f) == CreatedAt[e] > CreatedAt[f] \/ (CreatedAt[e] = CreatedAt[f] /\ e < f)

Rivals(e, S) == {f \in S : CoordOf[e] # NoCoordinate /\ CoordOf[f] = CoordOf[e]}

Bytes(S) == SumFunctionOnSet([e \in S |-> SizeOf[e] + 1], S)

\* The place of an event in the vector, counted from 0.
Rank(e, S) == Cardinality({f \in S : Supersedes(f, e)})
Newest(n, S) == {e \in S : Rank(e, S) < n}

\* Mutant: the byte limit is not looked at.
FitsCount(S) == Cardinality(S) <= MaxEvents

Fits(S) == Cardinality(S) <= MaxEvents /\ Bytes(S) <= MaxBytes

\* Pop the oldest event until both limits hold.
Trim(S) == Newest(Max({n \in 0..Cardinality(S) : Fits(Newest(n, S))}), S)

\* Mutant: the newest of a coordinate wins only by its time stamp.
RefusesByTime(S, e, now) ==
    \/ e \notin Accepted \/ ~IsCurrent(e, now) \/ e \in S
    \/ \E f \in Rivals(e, S) : CreatedAt[f] > CreatedAt[e]

\* The early returns of insert.
Refuses(S, e, now) ==
    \/ e \notin Accepted \/ ~IsCurrent(e, now) \/ e \in S
    \/ \E f \in Rivals(e, S) : ~Supersedes(e, f)

\* insert: the state afterwards; it answers whether the event is in it.
Insert(S, e, now) ==
    IF Refuses(S, e, now) THEN S
    ELSE Trim(({f \in S : IsCurrent(f, now)} \ Rivals(e, S)) \cup {e})

Inserts(S, e, now) == ~Refuses(S, e, now) /\ e \in Insert(S, e, now)

Snapshot(S, now) == {e \in S : IsCurrent(e, now)}

\* restore: insert what the file holds, in the file's order, newest first.
Restore(S, now) ==
    LET At(i) == CHOOSE e \in S : Rank(e, S) = i
        restored[n \in 0..Cardinality(S)] ==
            IF n = 0 THEN {} ELSE Insert(restored[n - 1], At(n - 1), now)
    IN  restored[Cardinality(S)]
=============================================================================
