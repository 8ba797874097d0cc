-------------------------- MODULE ProviderBehavior --------------------------
(***************************************************************************)
(* The FIPS client's record of how providers behave                        *)
(* (crates/nostr-pubsub-fips/src/provider_behavior.rs): violations score   *)
(* points, points decay with time, and enough of them at once cut a peer   *)
(* off for a while.  Times are kept as distances from now.                 *)
(***************************************************************************)
EXTENDS Integers, Sequences, FiniteSetsExt

CONSTANTS
    Providers,
    DecayInterval,      \* SCORE_DECAY_INTERVAL_MS
    DisconnectScore,
    CooldownTime,       \* RECONNECT_COOLDOWN_MS
    Grace,              \* UNIQUE_FILTER_MISMATCH_GRACE
    MaxTracked,         \* MAX_TRACKED_PROVIDERS
    MaxPoints,          \* bound on the score and the mismatches of a provider
    MaxAge              \* bound on the time a state goes without a decay

VARIABLES
    tracked,    \* the providers with a state, in the order they got it
    state,      \* [Providers -> ProviderState]
    calm,       \* history: providers whose mismatches were an interval apart
    lastOne     \* history: the time since a provider's last mismatch

behaviorVars == <<tracked, state, calm, lastOne>>

Violations == {"malformed", "unanswered", "repeated", "unique"}

\* age: the time since updated_at_ms, Never before the first decay.
Never == -1
NewState == [score |-> 0, mismatches |-> 0, age |-> Never, cooldown |-> 0]

BehaviorInit ==
    /\ tracked = <<>>
    /\ state = [p \in Providers |-> NewState]
    /\ calm = Providers
    /\ lastOne = [p \in Providers |-> DecayInterval]

\* Mutant: the part of an interval that has passed is forgotten.
DecayToNow(q) ==
    [q EXCEPT !.score = Max({@ - Max({q.age, 0}) \div DecayInterval, 0}),
              !.mismatches = Max({@ - Max({q.age, 0}) \div DecayInterval, 0}), !.age = 0]

Decay(q) ==
    IF q.age = Never THEN [q EXCEPT !.age = 0]
    ELSE [q EXCEPT !.score = Max({@ - q.age \div DecayInterval, 0}),
                   !.mismatches = Max({@ - q.age \div DecayInterval, 0}),
                   !.age = @ % DecayInterval]

Points(q, violation) ==
    CASE violation = "malformed" -> 4
      [] violation = "unanswered" -> 2
      [] violation = "repeated" -> 1
      [] violation = "unique" -> IF q.mismatches > Grace THEN 1 ELSE 0

\* record, on a provider's state.
Scored(q, violation) ==
    LET counted == IF violation = "unique" THEN [q EXCEPT !.mismatches = @ + 1] ELSE q
        total == [counted EXCEPT !.score = @ + Points(counted, violation)]
    IN  IF total.score >= DisconnectScore /\ total.cooldown = 0
        THEN [total EXCEPT !.cooldown = CooldownTime] ELSE total

\* The oldest are forgotten, cooldown and all, for a new one.
Forgotten(p) ==
    IF p \in Range(tracked) \/ Len(tracked) < MaxTracked THEN {} ELSE {tracked[1]}

Record(p, violation) ==
    /\ state[p].score <= MaxPoints /\ state[p].mismatches <= MaxPoints
    /\ tracked' = IF p \in Range(tracked) THEN tracked
                  ELSE Append(SelectSeq(tracked, LAMBDA k : k \notin Forgotten(p)), p)
    /\ state' = [k \in Providers |->
            IF k = p THEN Scored(Decay(state[k]), violation)
            ELSE IF k \in Forgotten(p) THEN NewState ELSE state[k]]
    /\ calm' = IF violation = "unique" /\ lastOne[p] >= DecayInterval THEN calm ELSE calm \ {p}
    /\ lastOne' = [lastOne EXCEPT ![p] = 0]

\* is_in_cooldown, which decays as well; the transport loop asks at any time.
IsInCooldown(p) ==
    /\ p \in Range(tracked)
    /\ state' = [state EXCEPT ![p] = Decay(@)]
    /\ UNCHANGED <<tracked, calm, lastOne>>

\* Time passes, in steps smaller than the decay interval.
Elapse ==
    /\ \A p \in Providers : state[p].age < MaxAge
    /\ state' = [p \in Providers |->
            [state[p] EXCEPT !.age = IF @ = Never THEN Never ELSE @ + 1,
                             !.cooldown = Max({@ - 1, 0})]]
    /\ lastOne' = [p \in Providers |-> Min({lastOne[p] + 1, DecayInterval})]
    /\ UNCHANGED <<tracked, calm>>

BehaviorNext ==
    \/ Elapse
    \/ \E p \in Providers : IsInCooldown(p) \/ \E violation \in Violations : Record(p, violation)

-----------------------------------------------------------------------------
\* A provider whose only offence is an event outside a filter now and then, as
\* a subscription race explains, is never cut off, however often its state is
\* looked at in between (record, decay).
CalmKept == \A p \in calm : state[p].cooldown = 0
=============================================================================
