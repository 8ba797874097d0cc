-------------------------- MODULE PeerTablesProofs --------------------------
(***************************************************************************)
(* Proofs about whom the FIPS client talks to (PeerRoster), how it scores  *)
(* them (ProviderBehavior), what it serves them (FipsServing) and which    *)
(* ids it has seen (ScopedSeenIds), as MCFipsServing puts them side by     *)
(* side.                                                                   *)
(***************************************************************************)
EXTENDS MCFipsServing, FilterProofs

-----------------------------------------------------------------------------
(* The record of one peer *)

RetrySet == [due : Nat, failures : Nat, scheduled : BOOLEAN, up : Int]
PeerSet ==
    [sel : BOOLEAN, retry : RetrySet, lease : Nat \cup {-1}, tcp : {"none", "syn", "rcvd", "open"},
     tracked : BOOLEAN, since : Nat, hasty : BOOLEAN]

\* Whoever was not dialled for less than the interval is not due meanwhile.
Spaced(q) == ~q.hasty /\ q.retry.due + q.since >= RetryInterval

\* TCP state belongs to a slot, and a peer holds at most one kind of slot.
Owned(q) == (q.tcp = "none" \/ q.sel \/ Leased(q)) /\ ~(q.sel /\ Leased(q))

\* Only a selected peer has a history of attempts: its first dial is not late.
Unhurried(q) == ~q.sel => q.retry = NewRetry

Placed(q) == q \in PeerSet /\ Spaced(q) /\ Owned(q) /\ Unhurried(q)

Awaited(q) == q.sel /\ ~HasPeerConnection(q) => q.retry.scheduled

PeerSound(q) == Placed(q) /\ Awaited(q)

RosterInv ==
    /\ roster \in [Npubs -> PeerSet]
    /\ \A p \in Npubs : PeerSound(roster[p])
    /\ Cardinality(Selected(roster)) <= OutboundCap
    /\ Cardinality(Inbound(roster)) <= InboundCap

-----------------------------------------------------------------------------
(* The score of one provider *)

StateSet == [score : Nat, mismatches : Nat, age : Int, cooldown : Nat]

\* A calm provider has at most one mismatch to its name, and one that it still
\* has came after the time from which its decay is counted.
Clean(q, time) ==
    /\ q.score = 0 /\ q.cooldown = 0 /\ q.mismatches <= 1
    /\ q.mismatches = 1 => time <= q.age

BehaviorInv ==
    /\ state \in [Providers -> StateSet] /\ lastOne \in [Providers -> 0 .. DecayInterval]
    /\ calm \subseteq Providers
    /\ \A p \in Providers : state[p].age >= -1
    /\ \A p \in calm : Clean(state[p], lastOne[p])
\* Of two integers.
LEMMA TwoInts ==
    ASSUME NEW a \in Int, NEW b \in Int
    PROVE  /\ Max({a, b}) \in {a, b} /\ Max({a, b}) >= a /\ Max({a, b}) >= b
           /\ Min({a, b}) \in {a, b} /\ Min({a, b}) <= a /\ Min({a, b}) <= b
<1>1. \E x \in {a, b} : \A y \in {a, b} : x >= y
  OBVIOUS
<1>2. \E x \in {a, b} : \A y \in {a, b} : x <= y
  OBVIOUS
<1>3. Max({a, b}) \in {a, b} /\ \A y \in {a, b} : Max({a, b}) >= y
  BY <1>1, Zenon DEF Max
<1>4. Min({a, b}) \in {a, b} /\ \A y \in {a, b} : Min({a, b}) <= y
  BY <1>2, Zenon DEF Min
<1> QED
  BY <1>3, <1>4

\* The same for the operators that ProviderBehavior sees.
LEMMA TwoScores ==
    ASSUME NEW a \in Int, NEW b \in Int
    PROVE  /\ Behavior!Max({a, b}) \in {a, b} /\ Behavior!Max({a, b}) >= a /\ Behavior!Max({a, b}) >= b
           /\ Behavior!Min({a, b}) \in {a, b} /\ Behavior!Min({a, b}) <= a /\ Behavior!Min({a, b}) <= b
<1>1. Behavior!Max({a, b}) = Max({a, b})
  BY Zenon DEF Behavior!Max, Max
<1>2. Behavior!Min({a, b}) = Min({a, b})
  BY Zenon DEF Behavior!Min, Min
<1>3. /\ Max({a, b}) \in {a, b} /\ Max({a, b}) >= a /\ Max({a, b}) >= b
      /\ Min({a, b}) \in {a, b} /\ Min({a, b}) <= a /\ Min({a, b}) <= b
  BY TwoInts
<1> QED
  BY <1>1, <1>2, <1>3

\* Whole intervals and the rest.
LEMMA Intervals ==
    ASSUME NEW a \in Nat, NEW d \in Nat \ {0}
    PROVE  /\ a \div d \in Nat /\ a % d \in Nat
           /\ a < d => a \div d = 0 /\ a % d = a
           /\ a >= d => a \div d >= 1
  OBVIOUS

-----------------------------------------------------------------------------
(* Providers that err now and then *)

\* decay: a state keeps its shape, an interval that is not over changes
\* nothing, and one that is takes the mismatch of a calm provider away.
LEMMA DecayClean ==
    ASSUME NEW q \in StateSet, q.age >= -1
    PROVE  /\ Behavior!Decay(q) \in StateSet /\ Behavior!Decay(q).age >= 0
           /\ Behavior!Decay(q).cooldown = q.cooldown
           /\ \A time \in 0 .. DecayInterval : Clean(q, time) =>
                /\ Clean(Behavior!Decay(q), time)
                /\ time = DecayInterval => Behavior!Decay(q).mismatches = 0
<1> DEFINE d == q.age \div DecayInterval
<1>1. CASE q.age = -1
  <2>1. Behavior!Decay(q) = [q EXCEPT !.age = 0]
    BY <1>1 DEF Behavior!Decay, Behavior!Never
  <2> QED
    BY <1>1, <2>1, ProvidersAssumption DEF StateSet, Clean
<1>2. CASE q.age # -1
  <2>1. q.age \in Nat /\ q.score \in Nat /\ q.mismatches \in Nat /\ DecayInterval \in Nat \ {0}
    BY <1>2, ProvidersAssumption DEF StateSet
  <2>2. /\ d \in Nat /\ q.age % DecayInterval \in Nat
        /\ q.age < DecayInterval => d = 0 /\ q.age % DecayInterval = q.age
        /\ q.age >= DecayInterval => d >= 1
    BY <2>1, Intervals
  <2> HIDE DEF d
  <2> DEFINE left == Behavior!Max({q.score - d, 0})
             missed == Behavior!Max({q.mismatches - d, 0})
             rest == q.age % DecayInterval
  <2>3. q.score - d \in Int /\ q.mismatches - d \in Int /\ 0 \in Int
    BY <2>1, <2>2
  <2>4. Behavior!Decay(q) = [q EXCEPT !.score = left, !.mismatches = missed, !.age = rest]
    BY <1>2 DEF Behavior!Decay, Behavior!Never, d
  <2>5. /\ left \in {q.score - d, 0} /\ left >= 0
        /\ missed \in {q.mismatches - d, 0} /\ missed >= 0
    <3>1. left \in {q.score - d, 0} /\ left >= 0
      BY <2>3, TwoScores
    <3>2. missed \in {q.mismatches - d, 0} /\ missed >= 0
      BY <2>3, TwoScores
    <3> QED
      BY <3>1, <3>2
  <2> HIDE DEF left, missed, rest
  <2>6. /\ Behavior!Decay(q) \in StateSet /\ Behavior!Decay(q).age = rest /\ rest >= 0
        /\ Behavior!Decay(q).cooldown = q.cooldown
        /\ Behavior!Decay(q).score = left /\ Behavior!Decay(q).mismatches = missed
    <3>1. left \in Nat /\ missed \in Nat /\ rest \in Nat
      BY <2>2, <2>3, <2>5 DEF rest
    <3>2. q = [score |-> q.score, mismatches |-> q.mismatches, age |-> q.age,
               cooldown |-> q.cooldown] /\ q.cooldown \in Nat
      BY DEF StateSet
    <3>3. Behavior!Decay(q) = [score |-> left, mismatches |-> missed, age |-> rest,
                               cooldown |-> q.cooldown]
      BY <2>4, <3>2
    <3> QED
      BY <3>1, <3>2, <3>3 DEF StateSet
  <2>7. ASSUME NEW time \in 0 .. DecayInterval, Clean(q, time)
        PROVE  Clean(Behavior!Decay(q), time)
               /\ (time = DecayInterval => Behavior!Decay(q).mismatches = 0)
    <3>1. q.age < DecayInterval => rest = q.age
      BY <2>2 DEF rest
    <3>2. Behavior!Decay(q).score = 0 /\ Behavior!Decay(q).cooldown = 0
      BY <2>1, <2>2, <2>5, <2>6, <2>7 DEF Clean
    <3>3. CASE q.mismatches = 0
      BY <2>1, <2>2, <2>5, <2>6, <3>1, <3>2, <3>3 DEF Clean
    <3>4. CASE q.mismatches = 1 /\ q.age >= DecayInterval
      BY <2>1, <2>2, <2>5, <2>6, <3>1, <3>2, <3>4 DEF Clean
    <3>5. CASE q.mismatches = 1 /\ q.age < DecayInterval
      <4>1. time <= q.age /\ time # DecayInterval
        BY <2>1, <2>7, <3>5 DEF Clean
      <4> QED
        BY <2>1, <2>2, <2>5, <2>6, <3>1, <3>2, <3>5, <4>1 DEF Clean
    <3> QED
      BY <2>1, <2>7, <3>3, <3>4, <3>5 DEF Clean
  <2> QED
    BY <2>6, <2>7
<1> QED
  BY <1>1, <1>2

\* record: a state keeps its shape, and the first mismatch of a calm provider
\* is within the grace.
LEMMA ScoredClean ==
    ASSUME NEW q \in StateSet, q.age >= 0, NEW violation \in Behavior!Violations
    PROVE  /\ Behavior!Scored(q, violation) \in StateSet /\ Behavior!Scored(q, violation).age >= 0
           /\ violation = "unique" /\ q.score = 0 /\ q.cooldown = 0 /\ q.mismatches = 0 =>
                Clean(Behavior!Scored(q, violation), 0)
<1> DEFINE counted == IF violation = "unique" THEN [q EXCEPT !.mismatches = @ + 1] ELSE q
           total == [counted EXCEPT !.score = @ + Behavior!Points(counted, violation)]
<1>1. counted \in StateSet /\ counted.age >= 0
  BY DEF StateSet
<1>2. Behavior!Points(counted, violation) \in Nat
  BY DEF Behavior!Points, Behavior!Violations
<1>3. total \in StateSet /\ total.age >= 0
  BY <1>1, <1>2 DEF StateSet
<1>4. Behavior!Scored(q, violation) =
        IF total.score >= DisconnectScore /\ total.cooldown = 0
        THEN [total EXCEPT !.cooldown = CooldownTime] ELSE total
  BY DEF Behavior!Scored
<1>5. ASSUME violation = "unique", q.score = 0, q.cooldown = 0, q.mismatches = 0
      PROVE  Clean(Behavior!Scored(q, violation), 0)
  <2>1. counted = [q EXCEPT !.mismatches = 1]
    BY <1>5
  <2>2. counted.mismatches = 1 /\ counted.score = 0 /\ counted.cooldown = 0
    BY <1>5, <2>1 DEF StateSet
  <2>3. Behavior!Points(counted, violation) = 0
    BY <1>5, <2>2, ProvidersAssumption DEF Behavior!Points
  <2>4. total.score = 0 /\ total.mismatches = 1 /\ total.cooldown = 0 /\ total.age >= 0
    BY <1>1, <1>3, <2>2, <2>3 DEF StateSet
  <2>5. Behavior!Scored(q, violation) = total
    BY <1>4, <2>4, ProvidersAssumption
  <2> QED
    BY <2>4, <2>5 DEF Clean
<1> HIDE DEF counted, total
<1>6. Behavior!Scored(q, violation) \in StateSet /\ Behavior!Scored(q, violation).age >= 0
  BY <1>3, <1>4, ProvidersAssumption DEF StateSet
<1> QED
  BY <1>5, <1>6

\* Nobody has a score at the start.
LEMMA BehaviorInitially == Behavior!BehaviorInit => BehaviorInv
<1> SUFFICES ASSUME Behavior!BehaviorInit PROVE BehaviorInv
  OBVIOUS
<1>1. Behavior!NewState \in StateSet /\ Behavior!NewState.age = -1
  BY DEF Behavior!NewState, Behavior!Never, StateSet
<1>2. \A time \in 0 .. DecayInterval : Clean(Behavior!NewState, time)
  BY DEF Behavior!NewState, Behavior!Never, Clean
<1> QED
  BY <1>1, <1>2, ProvidersAssumption DEF Behavior!BehaviorInit, BehaviorInv

\* No violation, query of the cooldown or passing of time touches the record of
\* a calm provider beyond one mismatch (record, is_in_cooldown, decay).
LEMMA BehaviorInductive ==
    BehaviorInv /\ [Behavior!BehaviorNext]_behaviorVars => BehaviorInv'
<1> SUFFICES ASSUME BehaviorInv, [Behavior!BehaviorNext]_behaviorVars PROVE BehaviorInv'
  OBVIOUS
<1>0. Behavior!NewState \in StateSet /\ Behavior!NewState.age = -1
      /\ \A time \in 0 .. DecayInterval : Clean(Behavior!NewState, time)
  BY DEF Behavior!NewState, Behavior!Never, StateSet, Clean
<1>1. DecayInterval \in Nat \ {0}
  BY ProvidersAssumption
<1>2. \A p \in Providers : state[p] \in StateSet /\ state[p].age >= -1
                           /\ lastOne[p] \in 0 .. DecayInterval
  BY DEF BehaviorInv
<1>3. ASSUME NEW p \in Providers, NEW violation \in Behavior!Violations,
             Behavior!Record(p, violation)
      PROVE  BehaviorInv'
  <2> DEFINE q == Behavior!Decay(state[p])
             scored == Behavior!Scored(q, violation)
  <2>1. q \in StateSet /\ q.age >= 0 /\ q.cooldown = state[p].cooldown
    BY <1>2, DecayClean
  <2>2. p \in calm /\ lastOne[p] = DecayInterval =>
            q.score = 0 /\ q.cooldown = 0 /\ q.mismatches = 0
    <3> SUFFICES ASSUME p \in calm, lastOne[p] = DecayInterval
                 PROVE  q.score = 0 /\ q.cooldown = 0 /\ q.mismatches = 0
      OBVIOUS
    <3>1. Clean(state[p], lastOne[p])
      BY DEF BehaviorInv
    <3>2. Clean(q, lastOne[p]) /\ q.mismatches = 0
      BY <1>2, <3>1, DecayClean
    <3> QED
      BY <3>2 DEF Clean
  <2> HIDE DEF q
  <2>3. scored \in StateSet /\ scored.age >= 0
    BY <2>1, ScoredClean
  <2>4. violation = "unique" /\ p \in calm /\ lastOne[p] = DecayInterval => Clean(scored, 0)
    BY <2>1, <2>2, ScoredClean
  <2>5. /\ state' = [k \in Providers |->
                IF k = p THEN scored
                ELSE IF k \in Behavior!Forgotten(p) THEN Behavior!NewState ELSE state[k]]
        /\ calm' = IF violation = "unique" /\ lastOne[p] >= DecayInterval THEN calm ELSE calm \ {p}
        /\ lastOne' = [lastOne EXCEPT ![p] = 0]
    BY <1>3 DEF Behavior!Record, q
  <2> HIDE DEF scored
  <2>6. state' \in [Providers -> StateSet] /\ \A k \in Providers : state'[k].age >= -1
    <3>1. scored.age >= -1
      BY <2>3 DEF StateSet
    <3>2. \A k \in Providers : state'[k] \in {scored, Behavior!NewState, state[k]}
      BY <2>5
    <3>3. \A k \in Providers : state'[k] \in StateSet /\ state'[k].age >= -1
      BY <1>0, <1>2, <2>3, <3>1, <3>2
    <3> QED
      BY <2>5, <3>3
  <2>7. lastOne' \in [Providers -> 0 .. DecayInterval] /\ calm' \subseteq calm
    BY <1>1, <2>5 DEF BehaviorInv
  <2>8. ASSUME NEW k \in calm' PROVE Clean(state'[k], lastOne'[k])
    <3>1. k \in calm /\ k \in Providers
      BY <2>7 DEF BehaviorInv
    <3>2. CASE k = p
      <4>1. violation = "unique" /\ lastOne[p] = DecayInterval
        BY <1>1, <1>2, <2>5, <2>8, <3>2
      <4>2. state'[p] = scored /\ lastOne'[p] = 0
        BY <2>5 DEF BehaviorInv
      <4> QED
        BY <2>4, <3>1, <3>2, <4>1, <4>2
    <3>3. CASE k # p
      <4>1. lastOne'[k] = lastOne[k] /\ state'[k] \in {Behavior!NewState, state[k]}
        BY <2>5, <3>1, <3>3 DEF BehaviorInv
      <4>2. Clean(state[k], lastOne[k]) /\ Clean(Behavior!NewState, lastOne[k])
        BY <1>0, <1>2, <3>1 DEF BehaviorInv
      <4> QED
        BY <4>1, <4>2
    <3> QED
      BY <3>2, <3>3
  <2> QED
    BY <2>6, <2>7, <2>8 DEF BehaviorInv
<1>4. ASSUME NEW p \in Providers, Behavior!IsInCooldown(p) PROVE BehaviorInv'
  <2> DEFINE q == Behavior!Decay(state[p])
  <2>1. state' = [state EXCEPT ![p] = q] /\ calm' = calm /\ lastOne' = lastOne
    BY <1>4 DEF Behavior!IsInCooldown
  <2>2. q \in StateSet /\ q.age >= 0
    BY <1>2, DecayClean
  <2>3. p \in calm => Clean(q, lastOne[p])
    BY <1>2, DecayClean DEF BehaviorInv
  <2> HIDE DEF q
  <2>4. state' \in [Providers -> StateSet] /\ \A k \in Providers : state'[k].age >= -1
    <3>1. \A k \in Providers : state'[k] = IF k = p THEN q ELSE state[k]
      BY <2>1 DEF BehaviorInv
    <3>2. q.age >= -1
      BY <2>2 DEF StateSet
    <3>3. DOMAIN state' = Providers /\ state' = [k \in DOMAIN state' |-> state'[k]]
      BY <2>1 DEF BehaviorInv
    <3> QED
      BY <1>2, <2>2, <3>1, <3>2, <3>3
  <2>5. ASSUME NEW k \in calm PROVE Clean(state'[k], lastOne[k])
    <3>1. state'[k] = IF k = p THEN q ELSE state[k]
      BY <2>1 DEF BehaviorInv
    <3> QED
      BY <2>3, <3>1 DEF BehaviorInv
  <2> QED
    BY <2>1, <2>4, <2>5 DEF BehaviorInv
<1>5. CASE Behavior!Elapse
  <2> DEFINE aged(k) ==
                [state[k] EXCEPT !.age = IF state[k].age = -1 THEN -1 ELSE state[k].age + 1,
                                 !.cooldown = Behavior!Max({state[k].cooldown - 1, 0})]
             on(k) == Behavior!Min({lastOne[k] + 1, DecayInterval})
  <2>1. state' = [k \in Providers |-> aged(k)] /\ lastOne' = [k \in Providers |-> on(k)]
        /\ calm' = calm
    BY <1>5 DEF Behavior!Elapse, Behavior!Never
  <2>2. ASSUME NEW k \in Providers
        PROVE  /\ aged(k) \in StateSet /\ aged(k).age >= -1
               /\ on(k) \in 0 .. DecayInterval
               /\ k \in calm => Clean(aged(k), on(k))
    <3> DEFINE down == Behavior!Max({state[k].cooldown - 1, 0})
               up == IF state[k].age = -1 THEN -1 ELSE state[k].age + 1
    <3>1. /\ state[k] = [score |-> state[k].score, mismatches |-> state[k].mismatches,
                         age |-> state[k].age, cooldown |-> state[k].cooldown]
          /\ state[k].score \in Nat /\ state[k].mismatches \in Nat
          /\ state[k].cooldown \in Nat /\ state[k].age \in Int /\ state[k].age >= -1
      BY <1>2 DEF StateSet
    <3>2. state[k].cooldown - 1 \in Int /\ lastOne[k] + 1 \in Int /\ DecayInterval \in Int
      BY <1>1, <1>2, <3>1
    <3>3. down \in {state[k].cooldown - 1, 0} /\ down >= 0
      BY <3>2, TwoScores
    <3>4. on(k) \in {lastOne[k] + 1, DecayInterval} /\ on(k) <= lastOne[k] + 1
          /\ on(k) <= DecayInterval
      BY <3>2, TwoScores
    <3>5. aged(k) = [state[k] EXCEPT !.age = up, !.cooldown = down]
      OBVIOUS
    <3> HIDE DEF aged, on, down, up
    <3>10. aged(k) = [score |-> state[k].score, mismatches |-> state[k].mismatches,
                      age |-> up, cooldown |-> down]
      BY <3>1, <3>5
    <3>11. up \in Int /\ up >= -1 /\ (state[k].age # -1 => up = state[k].age + 1)
      BY <3>1 DEF up
    <3>6. down \in Nat /\ (state[k].cooldown = 0 => down = 0)
      BY <3>1, <3>3
    <3>7. aged(k) \in StateSet /\ aged(k).age >= -1
      BY <3>1, <3>6, <3>10, <3>11 DEF StateSet
    <3>8. on(k) \in 0 .. DecayInterval
      BY <1>1, <1>2, <3>4
    <3>9. ASSUME k \in calm PROVE Clean(aged(k), on(k))
      <4>1. Clean(state[k], lastOne[k])
        BY <3>9 DEF BehaviorInv
      <4>2. aged(k).score = 0 /\ aged(k).cooldown = 0 /\ aged(k).mismatches = state[k].mismatches
            /\ aged(k).age = up /\ state[k].mismatches <= 1
        BY <3>6, <3>10, <4>1 DEF Clean
      <4>3. state[k].mismatches = 1 => lastOne[k] <= state[k].age /\ lastOne[k] >= 0
        BY <1>2, <4>1 DEF Clean
      <4>4. state[k].mismatches = 1 => on(k) <= up
        BY <1>1, <1>2, <3>1, <3>4, <3>8, <3>11, <4>3
      <4> QED
        BY <4>2, <4>4 DEF Clean
    <3> QED
      BY <3>7, <3>8, <3>9
  <2> HIDE DEF aged, on
  <2> QED
    BY <2>1, <2>2 DEF BehaviorInv
<1>6. CASE UNCHANGED behaviorVars
  BY <1>6 DEF behaviorVars, BehaviorInv, Clean
<1> QED
  BY <1>3, <1>4, <1>5, <1>6 DEF Behavior!BehaviorNext

\* A provider whose only offence is an event outside a filter now and then is
\* never cut off, however often its score is looked at in between, for every
\* grace, interval and number of tracked providers (provider_behavior.rs).
THEOREM CalmProvidersKept == MCSpec => []CalmKept
<1>1. MCInit => BehaviorInv
  BY BehaviorInitially DEF MCInit
<1>2. BehaviorInv /\ [MCNext]_<<mode, servingVars, rosterVars, behaviorVars, seenVars, subsVars>>
        => BehaviorInv'
  BY BehaviorInductive DEF MCNext
<1>3. BehaviorInv => CalmKept
  BY DEF BehaviorInv, CalmKept, Behavior!CalmKept, Clean
<1> QED
  BY <1>1, <1>2, <1>3, PTL DEF MCSpec

-----------------------------------------------------------------------------
(* Peers that are selected, leased a slot and dialled *)

\* failed, restore_fast_retry, started, connected and in_flight: how the time
\* left and the schedule of a peer's next attempt change.
LEMMA RetryTimes ==
    ASSUME NEW t \in RetrySet
    PROVE  /\ Failed(t) \in RetrySet /\ Failed(t).scheduled /\ Failed(t).due >= t.due
           /\ RestoreFastRetry(t) \in RetrySet /\ RestoreFastRetry(t).scheduled = t.scheduled
           /\ RestoreFastRetry(t).due >= RetryInterval \/ RestoreFastRetry(t).due = t.due
           /\ t.due = 0 => RestoreFastRetry(t).due = 0
<1>1. /\ t = [due |-> t.due, failures |-> t.failures, scheduled |-> t.scheduled, up |-> t.up]
      /\ t.due \in Nat /\ t.failures \in Nat /\ t.scheduled \in BOOLEAN /\ t.up \in Int
      /\ RetryInterval \in Nat /\ MaxRetryInterval \in Nat /\ MaxFailures \in Nat \ {0}
  BY RosterAssumption DEF RetrySet
<1>2. Failed(t) \in RetrySet /\ Failed(t).scheduled /\ Failed(t).due >= t.due
  <2> DEFINE failures == Min({t.failures + 1, MaxFailures})
             power == RetryInterval * 2^(failures - 1)
             delay == Min({power, MaxRetryInterval})
             late == Max({t.due, delay})
  <2>1. t.failures + 1 \in Int /\ MaxFailures \in Int
    BY <1>1
  <2>2. failures \in {t.failures + 1, MaxFailures}
    BY <2>1, TwoInts
  <2>3. Failed(t) = [due |-> late, failures |-> failures, scheduled |-> TRUE, up |-> Never]
    BY DEF Failed
  <2> HIDE DEF failures
  <2>4. failures \in Nat \ {0}
    BY <1>1, <2>2
  <2>5. power \in Int
    BY <1>1, <2>4
  <2> HIDE DEF power
  <2>6. delay \in {power, MaxRetryInterval}
    BY <1>1, <2>5, TwoInts
  <2> HIDE DEF delay
  <2>7. delay \in Int
    BY <1>1, <2>5, <2>6
  <2>8. late \in {t.due, delay} /\ late >= t.due
    BY <1>1, <2>7, TwoInts
  <2> HIDE DEF late
  <2>9. late \in Nat
    BY <1>1, <2>7, <2>8
  <2> QED
    BY <2>3, <2>4, <2>8, <2>9 DEF RetrySet, Never
<1>3. /\ RestoreFastRetry(t) \in RetrySet /\ RestoreFastRetry(t).scheduled = t.scheduled
      /\ RestoreFastRetry(t).due >= RetryInterval \/ RestoreFastRetry(t).due = t.due
      /\ t.due = 0 => RestoreFastRetry(t).due = 0
  <2> DEFINE soon == Min({t.due, RetryInterval})
  <2>1. soon \in {t.due, RetryInterval} /\ soon <= t.due
    BY <1>1, TwoInts
  <2>2. RestoreFastRetry(t) = [t EXCEPT !.failures = 0, !.due = soon]
    BY DEF RestoreFastRetry
  <2> HIDE DEF soon
  <2>3. RestoreFastRetry(t) = [due |-> soon, failures |-> 0, scheduled |-> t.scheduled, up |-> t.up]
    BY <1>1, <2>2
  <2> QED
    BY <1>1, <2>1, <2>3 DEF RetrySet
<1> QED
  BY <1>2, <1>3

\* started, connected, in_flight and service_discovered.
LEMMA RetrySchedules ==
    ASSUME NEW t \in RetrySet
    PROVE  /\ Started(t) \in RetrySet /\ Started(t).due = RetryInterval
           /\ Connected(t) \in RetrySet
           /\ Connected(t).due >= RetryInterval \/ Connected(t).due = t.due
           /\ InFlight(t) \in RetrySet /\ InFlight(t).due = t.due
           /\ ServiceDiscovered(t) \in RetrySet
           /\ ServiceDiscovered(t).scheduled = t.scheduled
           /\ ServiceDiscovered(t).due >= RetryInterval \/ ServiceDiscovered(t).due = t.due
           /\ t.due = 0 => ServiceDiscovered(t).due = 0
<1>1. /\ t = [due |-> t.due, failures |-> t.failures, scheduled |-> t.scheduled, up |-> t.up]
      /\ t.due \in Nat /\ t.failures \in Nat /\ t.scheduled \in BOOLEAN /\ t.up \in Int
      /\ RetryInterval \in Nat
  BY RosterAssumption DEF RetrySet
<1>2. Started(t) \in RetrySet /\ Started(t).due = RetryInterval
  <2>1. Started(t) = [due |-> RetryInterval, failures |-> t.failures, scheduled |-> FALSE, up |-> Never]
    <3>1. Started(t) = [t EXCEPT !.due = RetryInterval, !.scheduled = FALSE, !.up = Never]
      BY DEF Started
    <3> QED
      BY <1>1, <3>1
  <2> QED
    BY <1>1, <2>1 DEF RetrySet, Never
<1>3. InFlight(t) \in RetrySet /\ InFlight(t).due = t.due
  BY <1>1 DEF InFlight, RetrySet
<1>4. Connected(t) \in RetrySet /\ (Connected(t).due >= RetryInterval \/ Connected(t).due = t.due)
  <2> DEFINE up == Max({t.up, 0})
             stable == IF up >= StableInterval THEN RestoreFastRetry(t) ELSE t
  <2>1. up \in {t.up, 0}
    <3>1. 0 \in Int
      OBVIOUS
    <3> QED
      BY <1>1, <3>1, TwoInts
  <2>2. Connected(t) = [stable EXCEPT !.up = up, !.scheduled = FALSE]
    BY DEF Connected
  <2> HIDE DEF up
  <2>3. stable \in RetrySet /\ (stable.due >= RetryInterval \/ stable.due = t.due)
    BY RetryTimes
  <2> HIDE DEF stable
  <2>4. up \in Int
    BY <1>1, <2>1
  <2>5. Connected(t) = [due |-> stable.due, failures |-> stable.failures, scheduled |-> FALSE, up |-> up]
    BY <2>2, <2>3 DEF RetrySet
  <2> QED
    BY <2>3, <2>4, <2>5 DEF RetrySet
<1>5. /\ ServiceDiscovered(t) \in RetrySet
      /\ ServiceDiscovered(t).scheduled = t.scheduled
      /\ ServiceDiscovered(t).due >= RetryInterval \/ ServiceDiscovered(t).due = t.due
      /\ t.due = 0 => ServiceDiscovered(t).due = 0
  <2> DEFINE down == [t EXCEPT !.up = Never]
  <2>1. down \in RetrySet /\ down.due = t.due /\ down.scheduled = t.scheduled
    BY <1>1 DEF RetrySet, Never
  <2>2. ServiceDiscovered(t) = RestoreFastRetry(down)
    BY DEF ServiceDiscovered
  <2> HIDE DEF down
  <2>3. /\ RestoreFastRetry(down) \in RetrySet /\ RestoreFastRetry(down).scheduled = down.scheduled
        /\ RestoreFastRetry(down).due >= RetryInterval \/ RestoreFastRetry(down).due = down.due
        /\ down.due = 0 => RestoreFastRetry(down).due = 0
    BY <2>1, RetryTimes
  <2> QED
    BY <2>1, <2>2, <2>3
<1> QED
  BY <1>2, <1>3, <1>4, <1>5

\* A peer's record, field by field.
LEMMA PeerParts ==
    ASSUME NEW q \in PeerSet
    PROVE  /\ q = [sel |-> q.sel, retry |-> q.retry, lease |-> q.lease, tcp |-> q.tcp,
                   tracked |-> q.tracked, since |-> q.since, hasty |-> q.hasty]
           /\ q.sel \in BOOLEAN /\ q.retry \in RetrySet /\ q.lease \in Nat \cup {-1}
           /\ q.tcp \in {"none", "syn", "rcvd", "open"} /\ q.tracked \in BOOLEAN
           /\ q.since \in Nat /\ q.hasty \in BOOLEAN
BY DEF PeerSet

\* Two records of one peer that hold the same slot.
SameSlot(q, n) == n.sel = q.sel /\ n.lease = q.lease

\* The retry of a selected peer may be put off, or cut down to the interval.
LEMMA RetryPlaced ==
    ASSUME NEW q, Placed(q), q.sel, NEW t \in RetrySet,
           t.due >= q.retry.due \/ t.due >= RetryInterval
    PROVE  LET n == [q EXCEPT !.retry = t] IN
           /\ Placed(n) /\ SameSlot(q, n) /\ n.retry = t
           /\ n.tcp = q.tcp /\ n.tracked = q.tracked
<1> DEFINE n == [q EXCEPT !.retry = t]
<1>1. q \in PeerSet
  BY DEF Placed
<1>2. /\ n \in PeerSet /\ n.retry = t /\ n.sel = q.sel /\ n.lease = q.lease /\ n.tcp = q.tcp
      /\ n.tracked = q.tracked /\ n.since = q.since /\ n.hasty = q.hasty
  BY <1>1 DEF PeerSet
<1> HIDE DEF n
<1>4. t.due \in Nat /\ q.retry.due \in Nat /\ q.since \in Nat /\ RetryInterval \in Nat
  BY <1>1, PeerParts, RosterAssumption DEF RetrySet
<1>5. Spaced(n)
  BY <1>2, <1>4 DEF Placed, Spaced
<1>6. Owned(n) /\ Unhurried(n)
  BY <1>2 DEF Placed, Owned, Unhurried, Leased
<1>7. Placed(n) /\ SameSlot(q, n) /\ n.retry = t /\ n.tcp = q.tcp /\ n.tracked = q.tracked
  BY <1>2, <1>5, <1>6 DEF Placed, SameSlot
<1> QED
  BY <1>7 DEF n

\* note_service_failure schedules the next attempt of a selected peer.
LEMMA FailurePlaced ==
    ASSUME NEW q, Placed(q)
    PROVE  LET n == NoteServiceFailure(q) IN
           /\ Placed(n) /\ SameSlot(q, n) /\ n.tcp = q.tcp /\ n.tracked = q.tracked
           /\ q.sel => n.retry.scheduled
           /\ ~q.sel => n = q
<1>1. CASE ~q.sel
  BY <1>1 DEF NoteServiceFailure, SameSlot
<1>2. CASE q.sel
  <2>1. q.retry \in RetrySet
    BY PeerParts DEF Placed
  <2>2. Failed(q.retry) \in RetrySet /\ Failed(q.retry).scheduled /\ Failed(q.retry).due >= q.retry.due
    BY <2>1, RetryTimes
  <2>3. NoteServiceFailure(q) = [q EXCEPT !.retry = Failed(q.retry)]
    BY <1>2 DEF NoteServiceFailure
  <2> QED
    BY <1>2, <2>2, <2>3, RetryPlaced
<1> QED
  BY <1>1, <1>2

\* connect_peer: a dial happens when the retry is due, an interval after the
\* last one, and is either on its way or noted as a failure.
LEMMA DialledSound ==
    ASSUME NEW q, Placed(q), q.sel, q.retry.due = 0, NEW goes
    PROVE  PeerSound(Dialled(q, goes)) /\ SameSlot(q, Dialled(q, goes))
<1> DEFINE begun == [q EXCEPT !.retry = Started(q.retry), !.since = 0,
                              !.hasty = q.hasty \/ q.since < RetryInterval]
           t == Started(q.retry)
<1>0. q \in PeerSet /\ Spaced(q) /\ Owned(q)
  BY DEF Placed
<1>1. q.retry \in RetrySet /\ q.since \in Nat /\ RetryInterval \in Nat
  BY <1>0, PeerParts, RosterAssumption
<1>2. t \in RetrySet /\ t.due = RetryInterval
  BY <1>1, RetrySchedules
<1>3. ~(q.hasty \/ q.since < RetryInterval)
  BY <1>0, <1>1 DEF Spaced
<1>4. Dialled(q, goes) = IF goes THEN [begun EXCEPT !.tcp = "syn", !.tracked = TRUE]
                         ELSE NoteServiceFailure(begun)
  BY DEF Dialled
<1>5. begun = [q EXCEPT !.retry = t, !.since = 0, !.hasty = FALSE]
  BY <1>3
<1> HIDE DEF begun, t
<1>6. /\ begun \in PeerSet /\ begun.retry = t /\ begun.since = 0 /\ ~begun.hasty
      /\ begun.sel = q.sel /\ begun.lease = q.lease /\ begun.tcp = q.tcp
  BY <1>0, <1>2, <1>5 DEF PeerSet
<1>7. Spaced(begun) /\ SameSlot(q, begun)
  BY <1>1, <1>2, <1>6 DEF Spaced, SameSlot
<1>8. Owned(begun) /\ Unhurried(begun)
  BY <1>0, <1>6 DEF Owned, Leased, Unhurried
<1>9. CASE goes
  <2> DEFINE n == [begun EXCEPT !.tcp = "syn", !.tracked = TRUE]
  <2>1. /\ n \in PeerSet /\ n.retry = begun.retry /\ n.since = begun.since /\ ~n.hasty
        /\ n.sel = begun.sel /\ n.lease = begun.lease /\ n.tcp = "syn" /\ n.tracked
    BY <1>6 DEF PeerSet
  <2> HIDE DEF n
  <2>2. Spaced(n) /\ SameSlot(q, n)
    BY <1>1, <1>2, <1>6, <2>1 DEF Spaced, SameSlot
  <2>3. Owned(n) /\ Unhurried(n) /\ Awaited(n)
    BY <1>0, <1>6, <2>1 DEF Owned, Leased, Unhurried, Awaited, HasPeerConnection
  <2>4. Dialled(q, goes) = n
    BY <1>4, <1>9 DEF n
  <2> QED
    BY <2>1, <2>2, <2>3, <2>4 DEF PeerSound, Placed
<1>10. CASE ~goes
  <2>1. Placed(begun) /\ begun.sel
    BY <1>6, <1>7, <1>8 DEF Placed
  <2>2. LET n == NoteServiceFailure(begun) IN
        Placed(n) /\ SameSlot(begun, n) /\ n.retry.scheduled
    BY <2>1, FailurePlaced
  <2> QED
    BY <1>4, <1>7, <1>10, <2>2 DEF PeerSound, Awaited, SameSlot
<1> QED
  BY <1>9, <1>10

\* A peer that is about to be dialled: its attempt is scheduled, or due now.
Pressing(q) == Placed(q) /\ (Awaited(q) \/ q.retry.due = 0)

\* connect_peer, whatever TCP makes of the dial.
LEMMA ConnectSound ==
    ASSUME NEW q, Pressing(q), NEW full, NEW goes
    PROVE  PeerSound(ConnectPeer(q, full, goes)) /\ SameSlot(q, ConnectPeer(q, full, goes))
<1> DEFINE n == ConnectPeer(q, full, goes)
<1>0. Placed(q) /\ q \in PeerSet /\ Owned(q) /\ q.retry \in RetrySet /\ q.retry.due \in Nat
  BY PeerParts DEF Pressing, Placed, RetrySet
<1>1. CASE HasPeerConnection(q) /\ q.sel
  <2> DEFINE t == IF q.tcp = "open" THEN Connected(q.retry) ELSE InFlight(q.retry)
  <2>1. t \in RetrySet /\ (t.due >= RetryInterval \/ t.due >= q.retry.due)
    BY <1>0, RetrySchedules
  <2>2. n = [q EXCEPT !.retry = t]
    BY <1>0, <1>1 DEF ConnectPeer, Owned
  <2> HIDE DEF t, n
  <2>3. Placed(n) /\ SameSlot(q, n) /\ n.tcp = q.tcp /\ n.tracked = q.tracked
    BY <1>0, <1>1, <2>1, <2>2, RetryPlaced
  <2>4. Awaited(n)
    BY <1>1, <2>3 DEF Awaited, HasPeerConnection
  <2> QED
    BY <2>3, <2>4 DEF PeerSound, n
<1>2. CASE ~q.sel \/ Leased(q) \/ (~HasPeerConnection(q) /\ q.retry.due > 0)
  <2>1. n = q
    BY <1>0, <1>2 DEF ConnectPeer, Owned
  <2>2. Awaited(q)
    BY <1>0, <1>2 DEF Pressing, Awaited, Owned
  <2> QED
    BY <1>0, <2>1, <2>2 DEF PeerSound, SameSlot
<1>3. CASE q.sel /\ ~Leased(q) /\ ~HasPeerConnection(q) /\ ~(q.retry.due > 0)
  <2>1. q.retry.due = 0
    BY <1>0, <1>3
  <2>2. n = IF full THEN NoteServiceFailure(q) ELSE Dialled(q, goes)
    BY <1>3 DEF ConnectPeer
  <2>3. PeerSound(NoteServiceFailure(q)) /\ SameSlot(q, NoteServiceFailure(q))
    BY <1>0, <1>3, FailurePlaced DEF PeerSound, Awaited
  <2>4. PeerSound(Dialled(q, goes)) /\ SameSlot(q, Dialled(q, goes))
    BY <1>0, <1>3, <2>1, DialledSound
  <2> QED
    BY <2>2, <2>3, <2>4
<1> QED
  BY <1>0, <1>1, <1>2, <1>3

\* A peer's record with another TCP state keeps its place while it has a slot.
LEMMA TcpPlaced ==
    ASSUME NEW q, Placed(q), NEW tcp \in {"none", "syn", "rcvd", "open"}, NEW tracked_ \in BOOLEAN,
           tcp = "none" \/ q.sel \/ Leased(q)
    PROVE  LET n == [q EXCEPT !.tcp = tcp, !.tracked = tracked_] IN
           /\ Placed(n) /\ SameSlot(q, n) /\ n.retry = q.retry /\ n.tcp = tcp /\ n.tracked = tracked_
<1> DEFINE n == [q EXCEPT !.tcp = tcp, !.tracked = tracked_]
<1>1. /\ n \in PeerSet /\ n.retry = q.retry /\ n.sel = q.sel /\ n.lease = q.lease /\ n.tcp = tcp
      /\ n.tracked = tracked_ /\ n.since = q.since /\ n.hasty = q.hasty
  BY DEF PeerSet, Placed
<1> HIDE DEF n
<1>2. Spaced(n) /\ Owned(n) /\ Unhurried(n)
  BY <1>1 DEF Placed, Spaced, Owned, Unhurried, Leased
<1>3. Placed(n) /\ SameSlot(q, n) /\ n.retry = q.retry /\ n.tcp = tcp /\ n.tracked = tracked_
  BY <1>1, <1>2 DEF Placed, SameSlot
<1> QED
  BY <1>3 DEF n

\* abort_peer schedules the next attempt where it ends a connection.
LEMMA AbortPressing ==
    ASSUME NEW q, Pressing(q)
    PROVE  Pressing(AbortPeer(q)) /\ SameSlot(q, AbortPeer(q))
<1> DEFINE aborted == [q EXCEPT !.tcp = "none", !.tracked = FALSE]
<1>1. Placed(q) /\ q.tracked \in BOOLEAN
  BY PeerParts DEF Pressing, Placed
<1>2. /\ Placed(aborted) /\ SameSlot(q, aborted) /\ aborted.retry = q.retry
      /\ aborted.tcp = "none"
  BY <1>1, TcpPlaced
<1>3. AbortPeer(q) = IF q.tracked THEN NoteServiceFailure(aborted) ELSE aborted
  BY DEF AbortPeer
<1> HIDE DEF aborted
<1>4. CASE q.tracked
  <2>1. LET n == NoteServiceFailure(aborted) IN
        /\ Placed(n) /\ SameSlot(aborted, n)
        /\ aborted.sel => n.retry.scheduled
    BY <1>2, FailurePlaced
  <2>2. SameSlot(q, NoteServiceFailure(aborted)) /\ Awaited(NoteServiceFailure(aborted))
    BY <1>2, <2>1 DEF SameSlot, Awaited
  <2> QED
    BY <1>3, <1>4, <2>1, <2>2 DEF Pressing
<1>5. CASE ~q.tracked
  <2>1. Awaited(q) => Awaited(aborted)
    BY <1>2, <1>5 DEF Awaited, HasPeerConnection, SameSlot
  <2> QED
    BY <1>2, <1>3, <1>5, <2>1 DEF Pressing
<1> QED
  BY <1>1, <1>4, <1>5

\* A new record, as after forget_peer.
LEMMA NewPeerSound == PeerSound(NewPeer) /\ ~NewPeer.sel /\ NewPeer.lease = Never
<1>1. NewRetry \in RetrySet
  BY DEF NewRetry, RetrySet, Never
<1>2. RetryInterval \in Nat
  BY RosterAssumption
<1>3. /\ NewPeer.sel = FALSE /\ NewPeer.retry = NewRetry /\ NewPeer.lease = Never
      /\ NewPeer.tcp = "none" /\ NewPeer.since = RetryInterval /\ NewPeer.hasty = FALSE
  BY DEF NewPeer
<1>4. NewPeer \in PeerSet
  BY <1>1, <1>2 DEF NewPeer, PeerSet, Never
<1>5. NewPeer.retry.due = 0
  BY <1>3 DEF NewRetry
<1>6. Spaced(NewPeer) /\ Owned(NewPeer) /\ Unhurried(NewPeer) /\ Awaited(NewPeer)
  BY <1>2, <1>3, <1>5 DEF Spaced, Owned, Unhurried, Awaited, Leased
<1> QED
  BY <1>3, <1>4, <1>6 DEF PeerSound, Placed

\* select_peers: a wanted peer gives its lease up, an unwanted one goes with
\* everything the driver had of it, or keeps a lease.
LEMMA SelectPressing ==
    ASSUME NEW q, PeerSound(q), NEW wanted \in BOOLEAN
    PROVE  LET n == SelectPeer(q, wanted) IN
           /\ Pressing(n) /\ n.sel = wanted
           /\ wanted => ~Leased(n)
           /\ Leased(n) => Leased(q)
           /\ ~wanted => PeerSound(n)
<1> DEFINE n == SelectPeer(q, wanted)
<1>0. Placed(q) /\ q \in PeerSet /\ Awaited(q) /\ q.sel \in BOOLEAN
  BY PeerParts DEF PeerSound, Placed
<1>1. CASE wanted
  <2>1. n = [q EXCEPT !.lease = Never, !.sel = TRUE]
    BY <1>1 DEF SelectPeer
  <2> HIDE DEF n
  <2>2. /\ n \in PeerSet /\ n.retry = q.retry /\ n.sel /\ n.lease = Never /\ n.tcp = q.tcp
        /\ n.tracked = q.tracked /\ n.since = q.since /\ n.hasty = q.hasty /\ n.sel = wanted
    BY <1>0, <1>1, <2>1 DEF PeerSet, Never
  <2>3. Placed(n)
    BY <1>0, <2>2 DEF Placed, Spaced, Owned, Unhurried, Leased
  <2>4. CASE q.sel
    BY <1>0, <1>1, <2>2, <2>3, <2>4 DEF Pressing, Awaited, HasPeerConnection, Leased, n
  <2>5. CASE ~q.sel
    <3>1. n.retry.due = 0
      BY <1>0, <2>2, <2>5 DEF Placed, Unhurried, NewRetry
    <3> QED
      BY <1>1, <2>2, <2>3, <3>1 DEF Pressing, Leased, n
  <2> QED
    BY <2>4, <2>5
<1>2. CASE ~wanted /\ (q.sel \/ q.lease >= IdleTimeout)
  <2>1. n = NewPeer
    BY <1>2 DEF SelectPeer, ForgetPeer
  <2>2. PeerSound(n) /\ n.sel = FALSE /\ ~Leased(n)
    <3>1. NewPeer.sel = FALSE
      BY DEF NewPeer
    <3> QED
      BY <2>1, <3>1, NewPeerSound DEF Leased
  <2> QED
    BY <1>2, <2>2 DEF PeerSound, Pressing
<1>3. CASE ~wanted /\ ~(q.sel \/ q.lease >= IdleTimeout)
  <2>1. n = q
    BY <1>3 DEF SelectPeer
  <2>2. n.sel = FALSE
    BY <1>0, <1>3, <2>1
  <2> QED
    BY <1>0, <1>3, <2>1, <2>2 DEF PeerSound, Pressing
<1> QED
  BY <1>1, <1>2, <1>3

\* sync_transport_peers, for one peer.
LEMMA SyncedSound ==
    ASSUME NEW q, PeerSound(q), NEW link, NEW previous, NEW full, NEW goes
    PROVE  LET n == Synced(q, link, previous, full, goes) IN
           /\ PeerSound(n)
           /\ n.sel <=> link # NoLink
           /\ Leased(n) => Leased(q)
<1> DEFINE chosen == SelectPeer(q, link # NoLink)
           kept == IF previous # NoLink /\ RequiresReset(link, previous)
                   THEN AbortPeer(chosen) ELSE chosen
           found == IF link[1] = "local" /\ link # previous /\ ~HasPeerConnection(kept)
                    THEN [kept EXCEPT !.retry = ServiceDiscovered(kept.retry)] ELSE kept
           n == Synced(q, link, previous, full, goes)
<1>1. n = IF link = NoLink THEN chosen ELSE ConnectPeer(found, full, goes)
  BY DEF Synced
<1>2. /\ Pressing(chosen) /\ chosen.sel = (link # NoLink)
      /\ link # NoLink => ~Leased(chosen)
      /\ Leased(chosen) => Leased(q)
      /\ link = NoLink => PeerSound(chosen)
  BY SelectPressing
<1> HIDE DEF chosen
<1>3. Pressing(kept) /\ SameSlot(chosen, kept)
  BY <1>2, AbortPressing DEF SameSlot
<1> HIDE DEF kept
<1>4. CASE link = NoLink
  BY <1>1, <1>2, <1>4
<1>5. CASE link # NoLink
  <2>1. chosen.sel /\ kept.sel /\ ~Leased(chosen)
    BY <1>2, <1>3, <1>5 DEF SameSlot
  <2>2. Pressing(found) /\ SameSlot(kept, found)
    <3> DEFINE t == ServiceDiscovered(kept.retry)
    <3>1. Placed(kept) /\ kept.retry \in RetrySet
      BY <1>3, PeerParts DEF Pressing, Placed
    <3>2. /\ t \in RetrySet /\ t.scheduled = kept.retry.scheduled
          /\ t.due >= RetryInterval \/ t.due = kept.retry.due
          /\ kept.retry.due = 0 => t.due = 0
      BY <3>1, RetrySchedules
    <3>3. kept.retry.due \in Nat
      BY <3>1 DEF RetrySet
    <3> HIDE DEF t
    <3>4. LET m == [kept EXCEPT !.retry = t] IN
          /\ Placed(m) /\ SameSlot(kept, m) /\ m.retry = t
          /\ m.tcp = kept.tcp /\ m.tracked = kept.tracked
      BY <2>1, <3>1, <3>2, <3>3, RetryPlaced
    <3>5. Pressing([kept EXCEPT !.retry = t]) /\ SameSlot(kept, [kept EXCEPT !.retry = t])
      BY <1>3, <3>2, <3>4 DEF Pressing, Awaited, HasPeerConnection, SameSlot
    <3> QED
      BY <1>3, <3>5 DEF t, SameSlot
  <2> HIDE DEF found
  <2>3. PeerSound(ConnectPeer(found, full, goes)) /\ SameSlot(found, ConnectPeer(found, full, goes))
    BY <2>2, ConnectSound
  <2>4. n.sel /\ ~Leased(n)
    BY <1>1, <1>3, <1>5, <2>1, <2>2, <2>3 DEF SameSlot, Leased
  <2> QED
    BY <1>1, <1>5, <2>3, <2>4
<1> QED
  BY <1>4, <1>5

\* drive_ready: an open stream is accepted, a closed one is a failure, and a
\* lease goes with its stream.  Only a tracked stream may have ended unnoticed.
LEMMA DrivenSound ==
    ASSUME NEW q, NEW w, NEW full, Placed(w), w.sel /\ ~w.tracked => w.retry.scheduled
    PROVE  LET n == Driven(q, w, full) IN
           /\ PeerSound(n)
           /\ n.sel => w.sel
           /\ Leased(n) => Leased(w)
<1> DEFINE accepted == IF w.tcp = "open" /\ ~w.tracked /\ ~full THEN [w EXCEPT !.tracked = TRUE] ELSE w
           ended == [accepted EXCEPT !.tracked = FALSE]
           closed == IF accepted.tracked /\ accepted.tcp = "none"
                     THEN NoteServiceFailure(ended) ELSE accepted
           noted == IF Active(closed) /\ closed.sel
                    THEN [closed EXCEPT !.retry = Connected(closed.retry)] ELSE closed
           n == Driven(q, w, full)
<1>0. w \in PeerSet /\ w.tcp \in {"none", "syn", "rcvd", "open"} /\ w.tracked \in BOOLEAN
  BY PeerParts DEF Placed
<1>1. ASSUME NEW m, Placed(m), NEW b \in BOOLEAN
      PROVE  LET k == [m EXCEPT !.tracked = b] IN
             Placed(k) /\ SameSlot(m, k) /\ k.retry = m.retry /\ k.tcp = m.tcp /\ k.tracked = b
  <2> DEFINE k == [m EXCEPT !.tracked = b]
  <2>1. /\ k \in PeerSet /\ k.retry = m.retry /\ k.sel = m.sel /\ k.lease = m.lease /\ k.tcp = m.tcp
        /\ k.tracked = b /\ k.since = m.since /\ k.hasty = m.hasty
    BY <1>1 DEF Placed, PeerSet
  <2> HIDE DEF k
  <2>2. Placed(k) /\ SameSlot(m, k) /\ k.retry = m.retry /\ k.tcp = m.tcp /\ k.tracked = b
    BY <1>1, <2>1 DEF Placed, Spaced, Owned, Unhurried, Leased, SameSlot
  <2> QED
    BY <2>2 DEF k
<1>2. n = IF Leased(noted) /\ Active(q) /\ ~Active(noted) THEN ForgetPeer(noted) ELSE noted
  BY DEF Driven
<1>3. /\ Placed(accepted) /\ SameSlot(w, accepted)
      /\ accepted.sel /\ ~accepted.tracked => accepted.retry.scheduled
  <2>1. CASE accepted = w
    BY <2>1 DEF SameSlot
  <2>2. CASE accepted = [w EXCEPT !.tracked = TRUE]
    <3>1. LET k == [w EXCEPT !.tracked = TRUE] IN
          Placed(k) /\ SameSlot(w, k) /\ k.tracked = TRUE
      BY <1>1
    <3> HIDE DEF accepted
    <3> QED
      BY <2>2, <3>1
  <2> QED
    BY <2>1, <2>2
<1> HIDE DEF accepted
<1>4. Placed(ended) /\ SameSlot(accepted, ended)
  BY <1>1, <1>3
<1> HIDE DEF ended
<1>5. PeerSound(closed) /\ SameSlot(accepted, closed)
  <2>1. CASE accepted.tracked /\ accepted.tcp = "none"
    <3>1. LET k == NoteServiceFailure(ended) IN
          /\ Placed(k) /\ SameSlot(ended, k)
          /\ ended.sel => k.retry.scheduled
      BY <1>4, FailurePlaced
    <3>2. closed = NoteServiceFailure(ended)
      BY <2>1
    <3> HIDE DEF closed
    <3> QED
      BY <1>4, <3>1, <3>2 DEF PeerSound, Awaited, SameSlot
  <2>2. CASE ~(accepted.tracked /\ accepted.tcp = "none")
    <3>1. closed = accepted
      BY <2>2
    <3> HIDE DEF closed
    <3>2. Awaited(accepted)
      BY <1>3, <2>2 DEF Awaited, HasPeerConnection
    <3> QED
      BY <1>3, <3>1, <3>2 DEF PeerSound, SameSlot
  <2> QED
    BY <2>1, <2>2
<1> HIDE DEF closed
<1>6. PeerSound(noted) /\ SameSlot(closed, noted)
  <2>1. CASE Active(closed) /\ closed.sel
    <3> DEFINE t == Connected(closed.retry)
    <3>1. Placed(closed) /\ closed.retry \in RetrySet
      BY <1>5, PeerParts DEF PeerSound, Placed
    <3>2. t \in RetrySet /\ (t.due >= RetryInterval \/ t.due = closed.retry.due)
      BY <3>1, RetrySchedules
    <3>3. closed.retry.due \in Nat
      BY <3>1 DEF RetrySet
    <3>4. noted = [closed EXCEPT !.retry = t]
      BY <2>1
    <3> HIDE DEF t, noted
    <3>5. LET m == [closed EXCEPT !.retry = t] IN
          /\ Placed(m) /\ SameSlot(closed, m)
          /\ m.tcp = closed.tcp /\ m.tracked = closed.tracked
      BY <2>1, <3>1, <3>2, <3>3, RetryPlaced
    <3> QED
      BY <2>1, <3>4, <3>5 DEF PeerSound, Awaited, HasPeerConnection, Active
  <2>2. CASE ~(Active(closed) /\ closed.sel)
    BY <1>5, <2>2 DEF SameSlot
  <2> QED
    BY <2>1, <2>2
<1> HIDE DEF noted
<1>7. noted.sel = w.sel /\ noted.lease = w.lease
  BY <1>3, <1>5, <1>6 DEF SameSlot
<1> QED
  BY <1>2, <1>6, <1>7, NewPeerSound DEF ForgetPeer, Leased

\* A retry with other times keeps its schedule (ServiceRetry).
LEMMA RetryAged ==
    ASSUME NEW r \in RetrySet, NEW due \in Nat, NEW up \in Int
    PROVE  LET t == [r EXCEPT !.due = due, !.up = up] IN
           /\ t \in RetrySet /\ t.due = due /\ t.scheduled = r.scheduled
           /\ t = [due |-> due, failures |-> r.failures, scheduled |-> r.scheduled, up |-> up]
<1> DEFINE t == [r EXCEPT !.due = due, !.up = up]
<1>1. /\ t \in RetrySet /\ t.due = due /\ t.up = up /\ t.failures = r.failures
      /\ t.scheduled = r.scheduled
  BY DEF RetrySet
<1> HIDE DEF t
<1>2. t = [due |-> t.due, failures |-> t.failures, scheduled |-> t.scheduled, up |-> t.up]
  BY <1>1 DEF RetrySet
<1>3. /\ t \in RetrySet /\ t.due = due /\ t.scheduled = r.scheduled
      /\ t = [due |-> due, failures |-> r.failures, scheduled |-> r.scheduled, up |-> up]
  BY <1>1, <1>2
<1> QED
  BY <1>3 DEF t

\* The passing of time brings an attempt no nearer than the interval after the
\* last one (next_attempt_at, last_activity).
LEMMA LaterSound ==
    ASSUME NEW q, PeerSound(q)
    PROVE  LET n == Later(q) IN
           /\ PeerSound(n)
           /\ n.sel => q.sel
           /\ Leased(n) => Leased(q)
<1> DEFINE due == Max({q.retry.due - 1, 0})
           up == IF q.retry.up = Never THEN Never ELSE Min({q.retry.up + 1, StableInterval})
           lease == IF q.lease = Never THEN Never ELSE Min({q.lease + 1, IdleTimeout})
           since == Min({q.since + 1, RetryInterval})
           t == [q.retry EXCEPT !.due = due, !.up = up]
           n == Later(q)
<1>1. /\ q \in PeerSet /\ q.retry \in RetrySet /\ q.retry.due \in Nat /\ q.retry.up \in Int
      /\ q.since \in Nat /\ q.lease \in Nat \cup {-1}
      /\ RetryInterval \in Nat /\ StableInterval \in Nat /\ IdleTimeout \in Nat
  BY PeerParts, RosterAssumption DEF PeerSound, Placed, RetrySet
<1>14. /\ q.retry.due - 1 \in Int /\ 0 \in Int /\ q.since + 1 \in Int /\ q.retry.up + 1 \in Int
       /\ q.lease + 1 \in Int /\ RetryInterval \in Int /\ StableInterval \in Int /\ IdleTimeout \in Int
  BY <1>1
<1>2. due \in {q.retry.due - 1, 0} /\ due >= q.retry.due - 1 /\ due >= 0
  BY <1>14, TwoInts
<1>3. since \in {q.since + 1, RetryInterval}
  BY <1>14, TwoInts
<1>4.  Min({q.lease + 1, IdleTimeout}) \in {q.lease + 1, IdleTimeout}
  BY <1>14, TwoInts
<1>5. Min({q.retry.up + 1, StableInterval}) \in {q.retry.up + 1, StableInterval}
  BY <1>14, TwoInts
<1>6. n = [q EXCEPT !.retry = t, !.lease = lease, !.since = since]
  BY DEF Later
<1>7. due \in Nat /\ since \in Nat /\ up \in Int /\ lease \in Nat \cup {-1}
      /\ (lease # Never <=> q.lease # Never)
  BY <1>1, <1>2, <1>3, <1>4, <1>5 DEF Never
<1>8. q.retry.due + q.since >= RetryInterval => due + since >= RetryInterval
  BY <1>1, <1>2, <1>3
<1>9. q.retry = NewRetry => due = 0 /\ up = Never
  BY <1>1, <1>2 DEF NewRetry
<1> HIDE DEF due, up, lease, since
<1>15. t \in RetrySet /\ t.due = due /\ t.scheduled = q.retry.scheduled
       /\ t = [due |-> due, failures |-> q.retry.failures, scheduled |-> q.retry.scheduled, up |-> up]
  BY <1>1, <1>7, RetryAged
<1> HIDE DEF t
<1>10. /\ n \in PeerSet /\ n.sel = q.sel /\ n.lease = lease /\ n.tcp = q.tcp
       /\ n.tracked = q.tracked /\ n.since = since /\ n.hasty = q.hasty
       /\ n.retry = t
  BY <1>1, <1>6, <1>7, <1>15 DEF PeerSet
<1> HIDE DEF n
<1>11. n.retry.due = due /\ n.retry.scheduled = q.retry.scheduled
  BY <1>10, <1>15
<1>12. q.retry = NewRetry => n.retry = NewRetry
  BY <1>9, <1>10, <1>15 DEF NewRetry
<1>13. PeerSound(n)
  BY <1>7, <1>8, <1>10, <1>11, <1>12
     DEF PeerSound, Placed, Spaced, Owned, Unhurried, Awaited, HasPeerConnection, Leased
<1> QED
  BY <1>7, <1>10, <1>13 DEF n, Leased

\* No more slots are held when nobody gets a new one.
LEMMA SlotsShrink ==
    ASSUME NEW A \in SUBSET Npubs, NEW B \in SUBSET A, NEW limit \in Nat, Cardinality(A) <= limit
    PROVE  IsFiniteSet(B) /\ Cardinality(B) \in Nat /\ Cardinality(B) <= limit
<1>1. IsFiniteSet(Npubs)
  BY RosterAssumption
<1>2. IsFiniteSet(A)
  BY <1>1, FS_Subset
<1>3. IsFiniteSet(B) /\ Cardinality(B) <= Cardinality(A)
  BY <1>2, FS_Subset
<1>4. Cardinality(A) \in Nat /\ Cardinality(B) \in Nat
  BY <1>2, <1>3, FS_CardinalityType
<1> QED
  BY <1>3, <1>4

\* A step after which every peer's record is sound and nobody gained a slot.
LEMMA RosterKept ==
    ASSUME RosterInv, roster' = [k \in Npubs |-> roster'[k]],
           \A k \in Npubs : /\ PeerSound(roster'[k])
                            /\ roster'[k].sel => roster[k].sel
                            /\ Leased(roster'[k]) => Leased(roster[k])
    PROVE  RosterInv'
<1>2. roster' \in [Npubs -> PeerSet] /\ \A k \in Npubs : PeerSound(roster'[k])
  BY DEF PeerSound, Placed
<1>3. Selected(roster') \subseteq Selected(roster) /\ Inbound(roster') \subseteq Inbound(roster)
  BY DEF Selected, Inbound
<1>4. Selected(roster) \subseteq Npubs /\ Inbound(roster) \subseteq Npubs
  BY DEF Selected, Inbound
<1>5. Cardinality(Selected(roster')) <= OutboundCap
  BY <1>3, <1>4, SlotsShrink, RosterAssumption DEF RosterInv
<1>6. Cardinality(Inbound(roster')) <= InboundCap
  BY <1>3, <1>4, SlotsShrink, RosterAssumption DEF RosterInv
<1> QED
  BY <1>2, <1>5, <1>6 DEF RosterInv

\* A connection that TCP changed or gave up still belongs to its slot, and only
\* a tracked one can have ended.
LEMMA TcpDriven ==
    ASSUME NEW q, PeerSound(q), NEW tcp \in {"none", "syn", "rcvd", "open"},
           tcp = "none" \/ q.sel \/ Leased(q)
    PROVE  LET w == [q EXCEPT !.tcp = tcp] IN
           /\ Placed(w) /\ SameSlot(q, w)
           /\ w.sel /\ ~w.tracked => w.retry.scheduled
<1> DEFINE w == [q EXCEPT !.tcp = tcp]
<1>1. /\ w \in PeerSet /\ w.retry = q.retry /\ w.sel = q.sel /\ w.lease = q.lease /\ w.tcp = tcp
      /\ w.tracked = q.tracked /\ w.since = q.since /\ w.hasty = q.hasty
  BY DEF PeerSet, PeerSound, Placed
<1> HIDE DEF w
<1>2. /\ Placed(w) /\ SameSlot(q, w)
      /\ w.sel /\ ~w.tracked => w.retry.scheduled
  BY <1>1 DEF PeerSound, Awaited, HasPeerConnection, Placed, Spaced, Owned, Unhurried, Leased, SameSlot
<1> QED
  BY <1>2 DEF w

\* receive: a datagram gets in from a peer with a slot, or takes a free one.
LEMMA ReceiveSound ==
    ASSUME RosterInv, NEW p \in Npubs, NEW segment \in Segments, ReceiveDatagram(p, segment)
    PROVE  RosterInv'
<1> DEFINE admitted == Admitted(roster[p])
           tcp == Handled(admitted.tcp, segment)
           handled == [admitted EXCEPT !.tcp = tcp]
           w == [roster EXCEPT ![p] = handled]
           full(k) == Full(roster) /\ ~roster[k].tracked
<1>0. roster \in [Npubs -> PeerSet] /\ \A k \in Npubs : PeerSound(roster[k]) /\ roster[k] \in PeerSet
  BY DEF RosterInv
<1>1. /\ Admit(roster, p, segment = "SYN")
      /\ roster' = [k \in Npubs |-> Driven(roster[k], w[k], full(k))]
  BY DEF ReceiveDatagram
<1>2. PeerSound(admitted) /\ (admitted.sel \/ Leased(admitted)) /\ admitted.sel = roster[p].sel
  <2>1. CASE roster[p].sel
    BY <1>0, <2>1 DEF Admitted
  <2>2. CASE ~roster[p].sel
    <3>1. admitted = [roster[p] EXCEPT !.lease = 0]
      BY <2>2 DEF Admitted
    <3> HIDE DEF admitted
    <3>2. /\ admitted \in PeerSet /\ admitted.retry = roster[p].retry /\ admitted.sel = roster[p].sel
          /\ admitted.lease = 0 /\ admitted.tcp = roster[p].tcp /\ admitted.tracked = roster[p].tracked
          /\ admitted.since = roster[p].since /\ admitted.hasty = roster[p].hasty
      BY <1>0, <3>1 DEF PeerSet
    <3>3. PeerSound(roster[p])
      BY <1>0
    <3>4. Leased(admitted)
      BY <3>2 DEF Leased, Never
    <3> QED
      BY <2>2, <3>2, <3>3, <3>4 DEF PeerSound, Placed, Spaced, Owned, Unhurried, Awaited
  <2> QED
    BY <2>1, <2>2
<1> HIDE DEF admitted
<1>3. tcp \in {"none", "syn", "rcvd", "open"}
  <2>1. admitted.tcp \in {"none", "syn", "rcvd", "open"}
    BY <1>2, PeerParts DEF PeerSound, Placed
  <2> QED
    BY <2>1 DEF Handled, Segments
<1> HIDE DEF tcp
<1>4. /\ Placed(handled) /\ SameSlot(admitted, handled)
      /\ handled.sel /\ ~handled.tracked => handled.retry.scheduled
  BY <1>2, <1>3, TcpDriven
<1> HIDE DEF handled
<1>5. \A k \in Npubs : w[k] = IF k = p THEN handled ELSE roster[k]
  BY <1>0
<1> HIDE DEF w
<1>6. ASSUME NEW k \in Npubs
      PROVE  /\ PeerSound(roster'[k])
             /\ roster'[k].sel => roster[k].sel
             /\ Leased(roster'[k]) => k = p \/ Leased(roster[k])
  <2>1. /\ Placed(w[k]) /\ w[k].sel = roster[k].sel
        /\ w[k].sel /\ ~w[k].tracked => w[k].retry.scheduled
        /\ Leased(w[k]) => k = p \/ Leased(roster[k])
    <3>1. CASE k = p
      BY <1>2, <1>4, <1>5, <3>1 DEF SameSlot
    <3>2. CASE k # p
      <4>1. w[k] = roster[k] /\ PeerSound(roster[k])
        BY <1>0, <1>5, <3>2
      <4> QED
        BY <4>1 DEF PeerSound, Awaited, HasPeerConnection
    <3> QED
      BY <3>1, <3>2
  <2>2. LET n == Driven(roster[k], w[k], full(k)) IN
        /\ PeerSound(n)
        /\ n.sel => w[k].sel
        /\ Leased(n) => Leased(w[k])
    BY <2>1, DrivenSound
  <2>3. roster'[k] = Driven(roster[k], w[k], full(k))
    BY <1>1
  <2> HIDE DEF full
  <2> QED
    BY <2>1, <2>2, <2>3
<1>7. roster' = [k \in Npubs |-> roster'[k]]
  BY <1>1
<1>8. CASE roster[p].sel \/ Leased(roster[p])
  <2>1. roster[p].sel => ~Leased(roster'[p])
    <3> SUFFICES ASSUME roster[p].sel PROVE ~Leased(roster'[p])
      OBVIOUS
    <3>1. admitted = roster[p] /\ ~Leased(roster[p])
      BY <1>0 DEF admitted, Admitted, PeerSound, Placed, Owned
    <3>2. ~Leased(w[p])
      BY <1>4, <1>5, <3>1 DEF SameSlot, Leased
    <3>3. LET n == Driven(roster[p], w[p], full(p)) IN Leased(n) => Leased(w[p])
      <4>1. /\ Placed(w[p])
            /\ w[p].sel /\ ~w[p].tracked => w[p].retry.scheduled
        BY <1>4, <1>5
      <4> QED
        BY <4>1, DrivenSound
    <3>4. roster'[p] = Driven(roster[p], w[p], full(p))
      BY <1>1
    <3> QED
      BY <3>2, <3>3, <3>4
  <2> QED
    BY <1>6, <1>7, <1>8, <2>1, RosterKept
<1>9. CASE ~(roster[p].sel \/ Leased(roster[p]))
  <2>1. Cardinality(Inbound(roster)) < InboundCap
    BY <1>1, <1>9 DEF Admit
  <2>2. IsFiniteSet(Inbound(roster)) /\ p \notin Inbound(roster) /\ Inbound(roster) \subseteq Npubs
    <3>1. Inbound(roster) \subseteq Npubs /\ IsFiniteSet(Npubs)
      BY RosterAssumption DEF Inbound
    <3> QED
      BY <1>9, <3>1, FS_Subset DEF Inbound
  <2>3. /\ Cardinality(Inbound(roster) \cup {p}) = Cardinality(Inbound(roster)) + 1
        /\ Cardinality(Inbound(roster)) \in Nat
    BY <2>2, FS_AddElement, FS_CardinalityType
  <2>4. Cardinality(Inbound(roster) \cup {p}) <= InboundCap
    BY <2>1, <2>3, RosterAssumption
  <2>5. Inbound(roster') \subseteq Inbound(roster) \cup {p} /\ Selected(roster') \subseteq Selected(roster)
    BY <1>6 DEF Inbound, Selected
  <2>6. Inbound(roster) \cup {p} \subseteq Npubs /\ Selected(roster) \subseteq Npubs
    BY <2>2 DEF Selected
  <2>7. Cardinality(Inbound(roster')) <= InboundCap
    BY <2>4, <2>5, <2>6, SlotsShrink, RosterAssumption
  <2>8. Cardinality(Selected(roster')) <= OutboundCap
    BY <2>5, <2>6, SlotsShrink, RosterAssumption DEF RosterInv
  <2>9. \A k \in Npubs : roster'[k] \in PeerSet
    BY <1>6 DEF PeerSound, Placed
  <2>10. roster' \in [Npubs -> PeerSet]
    BY <1>7, <2>9
  <2> QED
    BY <1>6, <2>7, <2>8, <2>10 DEF RosterInv
<1> QED
  BY <1>8, <1>9

\* Every action of the driver and the client keeps the invariant.
LEMMA RosterStep == RosterInv /\ [RosterNext]_rosterVars => RosterInv'
<1> SUFFICES ASSUME RosterInv, [RosterNext]_rosterVars PROVE RosterInv'
  OBVIOUS
<1>0. roster \in [Npubs -> PeerSet] /\ \A k \in Npubs : PeerSound(roster[k])
  BY DEF RosterInv
<1>1. CASE SyncTransportPeers
  <2>1. PICK next \in ConnectedPeerLinks, reached \in SUBSET Npubs :
            roster' = [k \in Npubs |->
                Synced(roster[k], next[k], links[k], Full(roster), k \in reached)]
    BY <1>1 DEF SyncTransportPeers
  <2>2. ASSUME NEW k \in Npubs
        PROVE  /\ PeerSound(roster'[k])
               /\ roster'[k].sel <=> next[k] # NoLink
               /\ Leased(roster'[k]) => Leased(roster[k])
    <3>1. roster'[k] = Synced(roster[k], next[k], links[k], Full(roster), k \in reached)
      BY <2>1
    <3>2. LET n == Synced(roster[k], next[k], links[k], Full(roster), k \in reached) IN
          /\ PeerSound(n)
          /\ n.sel <=> next[k] # NoLink
          /\ Leased(n) => Leased(roster[k])
      BY <1>0, SyncedSound
    <3> QED
      BY <3>1, <3>2
  <2>3. roster' \in [Npubs -> PeerSet] /\ \A k \in Npubs : PeerSound(roster'[k])
    <3>1. roster' = [k \in Npubs |-> roster'[k]]
      BY <2>1
    <3>2. \A k \in Npubs : roster'[k] \in PeerSet
      BY <2>2 DEF PeerSound, Placed
    <3> QED
      BY <2>2, <3>1, <3>2
  <2>4. PICK S \in SUBSET Npubs : Cardinality(S) <= OutboundCap
                                  /\ \A k \in Npubs : next[k] # NoLink => k \in S
    BY <2>1 DEF ConnectedPeerLinks, Selections
  <2>5. Selected(roster') \subseteq S /\ Inbound(roster') \subseteq Inbound(roster)
    BY <2>2, <2>4 DEF Selected, Inbound
  <2>6. Cardinality(Selected(roster')) <= OutboundCap
    BY <2>4, <2>5, SlotsShrink, RosterAssumption
  <2>7. Inbound(roster) \subseteq Npubs
    BY DEF Inbound
  <2>8. Cardinality(Inbound(roster')) <= InboundCap
    BY <2>5, <2>7, SlotsShrink, RosterAssumption DEF RosterInv
  <2> QED
    BY <2>3, <2>6, <2>8 DEF RosterInv
<1>2. CASE Poll
  <2>1. PICK lost \in SUBSET {p \in Npubs : roster[p].tcp # "none"} :
            roster' = [k \in Npubs |->
                Driven(roster[k], [roster[k] EXCEPT !.tcp = IF k \in lost THEN "none" ELSE roster[k].tcp],
                       Full(roster) /\ ~roster[k].tracked)]
    BY <1>2 DEF Poll
  <2>2. ASSUME NEW k \in Npubs
        PROVE  /\ PeerSound(roster'[k])
               /\ roster'[k].sel => roster[k].sel
               /\ Leased(roster'[k]) => Leased(roster[k])
    <3> DEFINE tcp == IF k \in lost THEN "none" ELSE roster[k].tcp
               w == [roster[k] EXCEPT !.tcp = tcp]
               full == Full(roster) /\ ~roster[k].tracked
    <3>1. roster'[k] = Driven(roster[k], w, full)
      BY <2>1
    <3>2. tcp \in {"none", "syn", "rcvd", "open"} /\ (tcp = "none" \/ roster[k].sel \/ Leased(roster[k]))
      BY <1>0, PeerParts DEF PeerSound, Placed, Owned
    <3> HIDE DEF tcp, full
    <3>3. /\ Placed(w) /\ SameSlot(roster[k], w)
          /\ w.sel /\ ~w.tracked => w.retry.scheduled
      BY <1>0, <3>2, TcpDriven
    <3> HIDE DEF w
    <3>4. LET n == Driven(roster[k], w, full) IN
          /\ PeerSound(n)
          /\ n.sel => w.sel
          /\ Leased(n) => Leased(w)
      BY <3>3, DrivenSound
    <3> QED
      BY <3>1, <3>3, <3>4 DEF SameSlot, Leased
  <2>3. roster' = [k \in Npubs |-> roster'[k]]
    BY <2>1
  <2> QED
    BY <2>2, <2>3, RosterKept
<1>3. CASE Pass
  <2>1. roster' = [k \in Npubs |-> Later(roster[k])]
    BY <1>3 DEF Pass
  <2>2. \A k \in Npubs : /\ PeerSound(roster'[k])
                         /\ roster'[k].sel => roster[k].sel
                         /\ Leased(roster'[k]) => Leased(roster[k])
    BY <1>0, <2>1, LaterSound
  <2>3. roster' = [k \in Npubs |-> roster'[k]]
    BY <2>1
  <2> QED
    BY <2>2, <2>3, RosterKept
<1>4. ASSUME NEW p \in Npubs, SendFrame(p) PROVE RosterInv'
  <2>1. PICK goes \in BOOLEAN :
            roster' = [roster EXCEPT ![p] = ConnectPeer(roster[p], Full(roster), goes)]
    BY <1>4 DEF SendFrame
  <2>2. Pressing(roster[p])
    BY <1>0 DEF PeerSound, Pressing
  <2>3. LET n == ConnectPeer(roster[p], Full(roster), goes) IN PeerSound(n) /\ SameSlot(roster[p], n)
    BY <2>2, ConnectSound
  <2>4. \A k \in Npubs :
            roster'[k] = IF k = p THEN ConnectPeer(roster[p], Full(roster), goes) ELSE roster[k]
    BY <1>0, <2>1
  <2>5. \A k \in Npubs : /\ PeerSound(roster'[k])
                         /\ roster'[k].sel => roster[k].sel
                         /\ Leased(roster'[k]) => Leased(roster[k])
    BY <1>0, <2>3, <2>4 DEF SameSlot, Leased
  <2>6. roster' = [k \in Npubs |-> roster'[k]]
    BY <1>0, <2>1
  <2> QED
    BY <2>5, <2>6, RosterKept
<1>5. ASSUME NEW p \in Npubs, Cooldown(p) PROVE RosterInv'
  <2>1. roster' = [roster EXCEPT ![p] = NewPeer]
    BY <1>5 DEF Cooldown, ForgetPeer
  <2>2. \A k \in Npubs : roster'[k] = IF k = p THEN NewPeer ELSE roster[k]
    BY <1>0, <2>1
  <2>3. \A k \in Npubs : /\ PeerSound(roster'[k])
                         /\ roster'[k].sel => roster[k].sel
                         /\ Leased(roster'[k]) => Leased(roster[k])
    BY <1>0, <2>2, NewPeerSound DEF Leased
  <2>4. roster' = [k \in Npubs |-> roster'[k]]
    BY <1>0, <2>1
  <2> QED
    BY <2>3, <2>4, RosterKept
<1>6. ASSUME NEW p \in Npubs, NEW segment \in Segments, ReceiveDatagram(p, segment) PROVE RosterInv'
  BY <1>6, ReceiveSound
<1>7. CASE UNCHANGED rosterVars
  BY <1>7 DEF rosterVars, RosterInv, PeerSound, Placed, Spaced, Owned, Unhurried, Awaited, Selected,
              Inbound, Leased, HasPeerConnection
<1> QED
  BY <1>1, <1>2, <1>3, <1>4, <1>5, <1>6, <1>7 DEF RosterNext, RetryDueService

\* The driver starts without peers.
LEMMA RosterInitially == RosterInit => RosterInv
<1> SUFFICES ASSUME RosterInit PROVE RosterInv
  OBVIOUS
<1>1. roster = [k \in Npubs |-> NewPeer]
  BY DEF RosterInit
<1>2. NewPeer \in PeerSet
  BY NewPeerSound DEF PeerSound, Placed
<1>3. Selected(roster) = {} /\ Inbound(roster) = {}
  BY <1>1, NewPeerSound DEF Selected, Inbound, Leased
<1>4. Cardinality({}) = 0
  BY FS_EmptySet
<1> QED
  BY <1>1, <1>2, <1>3, <1>4, NewPeerSound, RosterAssumption DEF RosterInv

\* The invariant bounds the roster and leaves nobody dialled in haste or never.
LEMMA InvIsSound == RosterInv => RosterSound
<1> SUFFICES ASSUME RosterInv PROVE RosterSound
  OBVIOUS
<1> DEFINE held == Inbound(roster) \cup Selected(roster)
<1>1. {p \in Npubs : roster[p].tcp # "none"} \subseteq held
  BY DEF RosterInv, PeerSound, Placed, Owned, Inbound, Selected
<1>2. Inbound(roster) \subseteq Npubs /\ Selected(roster) \subseteq Npubs
  BY DEF Inbound, Selected
<1>3. IsFiniteSet(Inbound(roster)) /\ IsFiniteSet(Selected(roster))
  BY <1>2, FS_Subset, RosterAssumption
<1>4. /\ Cardinality(Inbound(roster)) \in Nat /\ Cardinality(Selected(roster)) \in Nat
      /\ Cardinality(Inbound(roster) \cap Selected(roster)) \in Nat
  BY <1>3, FS_CardinalityType, FS_Intersection
<1>5. Cardinality(held) = Cardinality(Inbound(roster)) + Cardinality(Selected(roster))
                            - Cardinality(Inbound(roster) \cap Selected(roster))
  BY <1>3, FS_Union
<1>6. Cardinality(held) <= PeerCapacity
  BY <1>4, <1>5, RosterAssumption DEF PeerCapacity, RosterInv
<1>7. RosterBounded
  BY <1>1, <1>6 DEF RosterBounded
<1>8. DialsSpaced
  BY DEF DialsSpaced, RosterInv, PeerSound, Placed, Spaced
<1>9. NoneStranded
  BY DEF NoneStranded, RosterInv, PeerSound, Awaited, Selected
<1> QED
  BY <1>7, <1>8, <1>9 DEF RosterSound

\* Whatever links, datagrams, timers and cooldowns do, the driver holds TCP
\* state only for peers with a slot and no more slots than it has, dials no peer
\* it keeps selected faster than the retry interval, and has the next attempt
\* scheduled for every selected peer without a connection (wire_tcp.rs,
\* wire_tcp/retry.rs, sync_transport_peers).
THEOREM RosterStaysSound == MCSpec => []RosterSound
<1>1. MCInit => RosterInv
  BY RosterInitially DEF MCInit
<1>2. RosterInv /\ [MCNext]_<<mode, servingVars, rosterVars, behaviorVars, seenVars, subsVars>>
        => RosterInv'
  BY RosterStep DEF MCNext
<1>3. RosterInv => RosterSound
  BY InvIsSound
<1> QED
  BY <1>1, <1>2, <1>3, PTL DEF MCSpec

-----------------------------------------------------------------------------
(* What is served to the peers *)

FrameSet ==
    [to : Peers, kind : {"INV", "EVENT", "OK", "PUBLISH"}, subs : SUBSET SubIds, event : Events,
     store : Stores \cup {NoStore}]
EntrySet == [event : Events, hops : Nat]
RecentSet == [ids : Seq(Events), entries : Seq(EntrySet)]
RequestSet ==
    [peer : Peers, store : Stores \cup {NoStore}, sub : SubIds \cup {"any"},
     events : SUBSET Events, limit : Int]
WorkerSet ==
    {Idle} \cup [at : {"querying"}, request : RequestSet]
        \cup [at : {"serving"}, request : RequestSet, left : SUBSET Events]
PublishingSet ==
    {Idle} \cup [at : {"deciding"}, event : Events]
        \cup [at : {"sending"}, event : Events, subs : UNION {[T -> SUBSET SubIds] : T \in SUBSET Peers}]

ServingTypes ==
    /\ peerSubs \subseteq Peers \X SubIds
    /\ recent \in RecentSet
    /\ outbox \in Seq(FrameSet)
    /\ source \in Stores \cup {NoStore}
    /\ requests \in Seq(RequestSet)
    /\ worker \in [Workers -> WorkerSet]
    /\ publishing \in PublishingSet
    /\ answers \in [asked : SUBSET Peers, got : SUBSET (Peers \X BOOLEAN)]

\* Whoever was asked has rejected the publication or is still waited for.
Awaiting ==
    /\ pending \subseteq answers.asked
    /\ pending # {} => \A p \in answers.asked \ pending : <<p, FALSE>> \in answers.got

ServingInv == ServingTypes /\ NothingPrivate /\ Awaiting /\ ReceiptHonest

\* The newest elements of a queue.
LEMMA NewestType ==
    ASSUME NEW V, NEW queue \in Seq(V), NEW limit \in Nat
    PROVE  Newest(queue, limit) \in Seq(V)
<1>1. CASE Len(queue) > limit
  <2>1. Len(queue) - limit + 1 \in 1..(Len(queue) + 1) /\ Len(queue) \in Nat
    BY <1>1
  <2>2. SubSeq(queue, Len(queue) - limit + 1, Len(queue)) \in Seq(V)
    BY <2>1
  <2> QED
    BY <1>1, <2>2 DEF Newest
<1>2. CASE ~(Len(queue) > limit)
  BY <1>2 DEF Newest
<1> QED
  BY <1>1, <1>2

\* insert and insert_for_publish keep the queues well typed.
LEMMA RememberType ==
    ASSUME NEW r \in RecentSet, NEW e \in Events, NEW hops \in Nat
    PROVE  Remember(r, e, hops) \in RecentSet /\ RememberPublished(r, e, hops) \in RecentSet
<1>1. ASSUME NEW q \in RecentSet PROVE Remember(q, e, hops) \in RecentSet
  <2>1. Append(q.ids, e) \in Seq(Events) /\ Append(q.entries, [event |-> e, hops |-> hops]) \in Seq(EntrySet)
    BY DEF RecentSet, EntrySet
  <2>2. /\ Newest(Append(q.ids, e), MaxSeenIds) \in Seq(Events)
        /\ Newest(Append(q.entries, [event |-> e, hops |-> hops]), MaxPayloads) \in Seq(EntrySet)
    BY <2>1, NewestType, ServingAssumption
  <2> QED
    BY <2>2 DEF Remember, RecentSet
<1>2. [r EXCEPT !.ids = Only(r.ids, ToSet(r.ids) \ {e})] \in RecentSet
  <2>1. Only(r.ids, ToSet(r.ids) \ {e}) \in Seq(Events)
    BY OnlyRetains DEF RecentSet
  <2> QED
    BY <2>1 DEF RecentSet
<1> QED
  BY <1>1, <1>2 DEF RememberPublished

\* What may be exported is part of what there is.
LEMMA ExportableType ==
    ASSUME NEW events \in Seq(Events)
    PROVE  Exportable(events) \in Seq(Events)
BY OnlyRetains DEF Exportable

\* inventory_frame remembers the bodies one by one.
LEMMA KeptType ==
    ASSUME NEW r \in RecentSet, NEW events \in Seq(Events), NEW hops \in Nat
    PROVE  KeptForWant(r, events, hops) \in RecentSet
<1> DEFINE s == Exportable(events)
           n == Len(s)
           F == [pair \in (1..n) \X RecentSet |-> RememberPublished(pair[2], s[pair[1]], hops)]
           pick == [T \in SUBSET (1..n) |-> Max(T)]
           Folds(f) == f = [T \in SUBSET DOMAIN s |-> IF T = {} THEN r
                                ELSE RememberPublished(f[T \ {Max(T)}], s[Max(T)], hops)]
           result == CHOOSE f : Folds(f)
<1>1. s \in Seq(Events) /\ n \in Nat /\ DOMAIN s = 1..n
  BY ExportableType
<1>2. KeptForWant(r, events, hops) = IF role # "receiver" THEN r ELSE result[DOMAIN s]
  BY Zenon DEF KeptForWant, FoldLeft, MapThenFoldSet
<1>3. ASSUME NEW i \in 1..n, NEW q \in RecentSet
      PROVE  F[<<i, q>>] = RememberPublished(q, s[i], hops) /\ F[<<i, q>>] \in RecentSet
  <2>1. s[i] \in Events
    BY <1>1
  <2> QED
    BY <2>1, RememberType
<1>4. F \in [(1..n) \X RecentSet -> RecentSet]
  <2>1. ASSUME NEW pair \in (1..n) \X RecentSet PROVE RememberPublished(pair[2], s[pair[1]], hops) \in RecentSet
    BY <1>1, RememberType
  <2> QED
    BY <2>1
<1>5. ASSUME NEW T \in SUBSET (1..n), T # {} PROVE Max(T) \in T /\ pick[T] = Max(T)
  <2>1. T \in SUBSET (0..n)
    BY <1>1
  <2> QED
    BY <1>1, <1>5, <2>1, GreatestOf
<1>6. IsFiniteSet(1..n)
  BY <1>1, FS_Interval
<1>20. \A T \in SUBSET (1..n) : T # {} => pick[T] \in T
  BY <1>5, Zenon
<1> HIDE DEF F, pick, s, n
<1>7. PICK h \in [SUBSET (1..n) -> RecentSet] : Recurses(h, 1..n, pick, r, F)
  BY <1>4, <1>6, <1>20, SetRecursion
<1>8. Folds(h)
  <2>1. ASSUME NEW T \in SUBSET (1..n)
        PROVE  h[T] = IF T = {} THEN r ELSE RememberPublished(h[T \ {Max(T)}], s[Max(T)], hops)
    <3>1. h[T] = IF T = {} THEN r ELSE F[<<pick[T], h[T \ {pick[T]}]>>]
      BY <1>7 DEF Recurses
    <3>2. CASE T # {}
      <4>1. Max(T) \in 1..n /\ T \ {Max(T)} \in SUBSET (1..n) /\ pick[T] = Max(T)
        BY <1>5, <3>2
      <4> QED
        BY <1>3, <3>1, <3>2, <4>1
    <3> QED
      BY <3>1, <3>2
  <2> QED
    BY <1>1, <2>1
<1>9. Folds(result)
  BY <1>8, Zenon
<1> HIDE DEF result
<1>10. result[{}] = r /\ \A T \in SUBSET (1..n) :
            T # {} => result[T] = RememberPublished(result[T \ {Max(T)}], s[Max(T)], hops)
  BY <1>1, <1>9
<1>11. \A T \in SUBSET (1..n) : T # {} /\ result[T \ {Max(T)}] \in RecentSet
            => result[T] = F[<<Max(T), result[T \ {Max(T)}]>>]
  BY <1>3, <1>5, <1>10
<1>21. FoldsOver(result, n, RecentSet, r, F) /\ n \in Nat
  BY <1>1, <1>10, <1>11 DEF FoldsOver
<1>12. result[1..n] \in RecentSet
  BY <1>4, <1>21, FoldSteps
<1>13. result[DOMAIN s] \in RecentSet
  BY <1>1, <1>12
<1> QED
  BY <1>2, <1>13

\* The queue after frames were offered to it: what was there, and then frames
\* that were offered and allowed.
Extended(r, frames) ==
    {q \in Seq(FrameSet) :
        /\ Len(q) >= Len(outbox) /\ \A i \in 1..Len(outbox) : q[i] = outbox[i]
        /\ \A i \in DOMAIN q : i > Len(outbox) => q[i] \in ToSet(frames) /\ Allows(r, q[i])}

\* send_frame drops the frames that may not go.
LEMMA QueuedFrames ==
    ASSUME NEW r, NEW frames \in Seq(FrameSet), outbox \in Seq(FrameSet)
    PROVE  Queued(r, frames) \in Extended(r, frames)
<1> DEFINE n == Len(frames)
           V == Extended(r, frames)
           Offered(q, f) == IF Allows(r, f) /\ Len(q) < OutboxCap THEN Append(q, f) ELSE q
           F == [pair \in (1..n) \X V |-> Offered(pair[2], frames[pair[1]])]
           pick == [T \in SUBSET (1..n) |-> Max(T)]
           Folds(f) == f = [T \in SUBSET DOMAIN frames |-> IF T = {} THEN outbox
                                ELSE Offered(f[T \ {Max(T)}], frames[Max(T)])]
           result == CHOOSE f : Folds(f)
<1>1. n \in Nat /\ DOMAIN frames = 1..n
  OBVIOUS
<1>2. Queued(r, frames) = result[DOMAIN frames]
  BY Zenon DEF Queued, FoldLeft, MapThenFoldSet
<1>3. ASSUME NEW i \in 1..n, NEW q \in V PROVE Offered(q, frames[i]) \in V
  <2>1. CASE Allows(r, frames[i]) /\ Len(q) < OutboxCap
    <3>1. frames[i] \in FrameSet /\ q \in Seq(FrameSet) /\ frames[i] \in ToSet(frames)
      BY <1>1 DEF Extended, ToSet
    <3> DEFINE a == Append(q, frames[i])
    <3>2. /\ a \in Seq(FrameSet) /\ Len(a) = Len(q) + 1 /\ Len(q) \in Nat /\ Len(outbox) \in Nat
          /\ DOMAIN a = 1..(Len(q) + 1) /\ DOMAIN q = 1..Len(q)
          /\ \A j \in 1..Len(q) : a[j] = q[j]
          /\ a[Len(q) + 1] = frames[i]
      BY <3>1
    <3> HIDE DEF a
    <3>4. Len(q) >= Len(outbox) /\ \A j \in 1..Len(outbox) : q[j] = outbox[j]
      BY DEF Extended
    <3>5. Len(a) >= Len(outbox) /\ \A j \in 1..Len(outbox) : a[j] = outbox[j]
      BY <3>2, <3>4
    <3>6. ASSUME NEW j \in DOMAIN a, j > Len(outbox) PROVE a[j] \in ToSet(frames) /\ Allows(r, a[j])
      <4>1. CASE j = Len(q) + 1
        BY <2>1, <3>1, <3>2, <4>1
      <4>2. CASE j # Len(q) + 1
        <5>1. j \in DOMAIN q /\ a[j] = q[j]
          BY <3>2, <4>2
        <5> QED
          BY <3>6, <5>1 DEF Extended
      <4> QED
        BY <4>1, <4>2
    <3>7. a \in V
      BY <3>2, <3>5, <3>6 DEF Extended
    <3>3. Append(q, frames[i]) \in V
      BY <3>7 DEF a
    <3> QED
      BY <2>1, <3>3
  <2>2. CASE ~(Allows(r, frames[i]) /\ Len(q) < OutboxCap)
    BY <2>2
  <2> QED
    BY <2>1, <2>2
<1>4. outbox \in V
  BY DEF Extended
<1> HIDE DEF V
<1>5. F \in [(1..n) \X V -> V] /\ \A i \in 1..n, q \in V : F[<<i, q>>] = Offered(q, frames[i])
  <2> HIDE DEF Offered
  <2> QED
    BY <1>3
<1>6. ASSUME NEW T \in SUBSET (1..n), T # {} PROVE Max(T) \in T /\ pick[T] = Max(T)
  <2>1. T \in SUBSET (0..n)
    BY <1>1
  <2> QED
    BY <1>1, <1>6, <2>1, GreatestOf
<1>7. IsFiniteSet(1..n) /\ \A T \in SUBSET (1..n) : T # {} => pick[T] \in T
  <2>1. IsFiniteSet(1..n)
    BY <1>1, FS_Interval
  <2>2. \A T \in SUBSET (1..n) : T # {} => pick[T] \in T
    BY <1>6, Zenon
  <2> QED
    BY <2>1, <2>2
<1> HIDE DEF F, pick, n, Offered
<1>8. PICK h \in [SUBSET (1..n) -> V] : Recurses(h, 1..n, pick, outbox, F)
  BY <1>4, <1>5, <1>7, SetRecursion
<1>9. Folds(h)
  <2>1. ASSUME NEW T \in SUBSET (1..n)
        PROVE  h[T] = IF T = {} THEN outbox ELSE Offered(h[T \ {Max(T)}], frames[Max(T)])
    <3>1. h[T] = IF T = {} THEN outbox ELSE F[<<pick[T], h[T \ {pick[T]}]>>]
      BY <1>8 DEF Recurses
    <3>2. CASE T # {}
      <4>1. Max(T) \in 1..n /\ T \ {Max(T)} \in SUBSET (1..n) /\ pick[T] = Max(T)
        BY <1>6, <3>2
      <4> QED
        BY <1>5, <3>1, <3>2, <4>1
    <3> QED
      BY <3>1, <3>2
  <2> QED
    BY <1>1, <2>1
<1>10. Folds(result)
  BY <1>9, Zenon
<1> HIDE DEF result
<1>11. result[{}] = outbox /\ \A T \in SUBSET (1..n) :
            T # {} => result[T] = Offered(result[T \ {Max(T)}], frames[Max(T)])
  BY <1>1, <1>10
<1>12. \A T \in SUBSET (1..n) : T # {} /\ result[T \ {Max(T)}] \in V
            => result[T] = F[<<Max(T), result[T \ {Max(T)}]>>]
  BY <1>5, <1>6, <1>11
<1>13. FoldsOver(result, n, V, outbox, F)
  BY <1>11, <1>12 DEF FoldsOver
<1>14. result[1..n] \in V
  BY <1>1, <1>4, <1>5, <1>13, FoldSteps
<1> QED
  BY <1>1, <1>2, <1>14 DEF V

\* A finite set is listed by a sequence of its elements.
LEMMA ListedType ==
    ASSUME NEW S, IsFiniteSet(S)
    PROVE  SetToSeq(S) \in Seq(S)
<1>1. Cardinality(S) \in Nat /\ ExistsBijection(1..Cardinality(S), S)
  BY FS_CardinalityType
<1>2. \E f \in [1..Cardinality(S) -> S] : IsInjective(f)
  BY <1>1 DEF ExistsBijection, Bijection, Injection
<1>3. SetToSeq(S) \in [1..Cardinality(S) -> S]
  BY <1>2 DEF SetToSeq
<1> QED
  BY <1>1, <1>3

\* One frame each for some of the peers.
LEMMA FramesListed ==
    ASSUME NEW T \in SUBSET Peers, NEW kind \in {"INV", "EVENT", "OK", "PUBLISH"},
           NEW subs \in [T -> SUBSET SubIds], NEW e \in Events
    PROVE  LET frames == {Frame(p, kind, subs[p], e, NoStore) : p \in T}
           IN  SetToSeq(frames) \in Seq(FrameSet) /\ ToSet(SetToSeq(frames)) \subseteq frames
<1> DEFINE frames == {Frame(p, kind, subs[p], e, NoStore) : p \in T}
           f == [p \in T |-> Frame(p, kind, subs[p], e, NoStore)]
<1>1. f \in Surjection(T, frames)
  <2>1. f \in [T -> frames] /\ \A x \in frames : \E p \in T : f[p] = x
    OBVIOUS
  <2> QED
    BY <2>1 DEF Surjection
<1>2. IsFiniteSet(T)
  BY FS_Subset, ServingAssumption
<1>3. IsFiniteSet(frames)
  BY <1>1, <1>2, FS_Surjection
<1>4. frames \subseteq FrameSet
  BY DEF Frame, FrameSet
<1> HIDE DEF frames, f
<1>5. SetToSeq(frames) \in Seq(frames)
  BY <1>3, ListedType
<1>6. SetToSeq(frames) \in Seq(FrameSet) /\ ToSet(SetToSeq(frames)) \subseteq frames
  <2> DEFINE s == SetToSeq(frames)
  <2> HIDE DEF s
  <2>1. s \in Seq(frames)
    BY <1>5 DEF s
  <2>2. s \in Seq(FrameSet) /\ ToSet(s) \subseteq frames
    BY <1>4, <2>1 DEF ToSet
  <2> QED
    BY <2>2 DEF s
<1> QED
  BY <1>6 DEF frames

\* What ReplayStands asks of a step.
Stands ==
    \A f \in Added : f.store # NoStore =>
        open /\ f.store = source /\ \A s \in f.subs : <<f.to, s>> \in peerSubs

\* A step that sends nothing.
LEMMA NothingSent ==
    ASSUME ServingInv, role' = role, outbox' = outbox
    PROVE  outbox' \in Seq(FrameSet) /\ NothingPrivate' /\ Stands
<1>1. outbox \in Seq(FrameSet)
  BY DEF ServingInv, ServingTypes
<1>2. Added = {}
  BY <1>1 DEF Added
<1> QED
  BY <1>1, <1>2 DEF ServingInv, NothingPrivate, CanExport, Stands

\* A step that offers frames to the transport queue.
LEMMA FramesSent ==
    ASSUME ServingInv, role' = role, NEW r, NEW frames \in Seq(FrameSet), outbox' = Queued(r, frames)
    PROVE  outbox' \in Seq(FrameSet) /\ NothingPrivate' /\ Added \subseteq ToSet(frames)
<1>1. outbox \in Seq(FrameSet) /\ outbox' \in Extended(r, frames)
  BY QueuedFrames DEF ServingInv, ServingTypes
<1>2. /\ outbox' \in Seq(FrameSet) /\ Len(outbox) \in Nat /\ DOMAIN outbox = 1..Len(outbox)
      /\ \A i \in 1..Len(outbox) : outbox'[i] = outbox[i]
      /\ \A i \in DOMAIN outbox' : i > Len(outbox) => outbox'[i] \in ToSet(frames) /\ Allows(r, outbox'[i])
      /\ DOMAIN outbox' = 1..Len(outbox') /\ Len(outbox') \in Nat
  BY <1>1 DEF Extended
<1>3. ASSUME NEW i \in DOMAIN outbox', outbox'[i].kind \in {"INV", "EVENT"}
      PROVE  CanExport(outbox'[i].event)
  <2>1. CASE i > Len(outbox)
    <3>1. Allows(r, outbox'[i])
      BY <1>2, <2>1
    <3> QED
      BY <1>3, <3>1 DEF Allows, CanExport
  <2>2. CASE ~(i > Len(outbox))
    <3>1. i \in DOMAIN outbox /\ outbox'[i] = outbox[i]
      BY <1>2, <2>2
    <3> QED
      BY <1>3, <3>1 DEF ServingInv, NothingPrivate
  <2> QED
    BY <2>1, <2>2
<1>4. NothingPrivate'
  BY <1>3 DEF NothingPrivate, CanExport
<1>5. Added \subseteq ToSet(frames)
  BY <1>2 DEF Added
<1> QED
  BY <1>2, <1>4, <1>5

\* No store is behind these frames.
LiveOnly(frames) == \A f \in ToSet(frames) : f.store = NoStore

LEMMA LiveSent ==
    ASSUME ServingInv, role' = role, NEW r, NEW frames \in Seq(FrameSet), outbox' = Queued(r, frames),
           LiveOnly(frames)
    PROVE  outbox' \in Seq(FrameSet) /\ NothingPrivate' /\ Stands
<1>1. outbox' \in Seq(FrameSet) /\ NothingPrivate' /\ Added \subseteq ToSet(frames)
  BY FramesSent
<1> QED
  BY <1>1 DEF Stands, LiveOnly

LEMMA OneFrame ==
    ASSUME NEW f \in FrameSet PROVE <<f>> \in Seq(FrameSet) /\ ToSet(<<f>>) = {f}
BY DEF ToSet

LEMMA NoFrames == <<>> \in Seq(FrameSet) /\ LiveOnly(<<>>)
BY DEF ToSet, LiveOnly

\* Two batches of live frames, one after the other.
LEMMA LiveBatches ==
    ASSUME NEW a \in Seq(FrameSet), NEW b \in Seq(FrameSet), LiveOnly(a), LiveOnly(b)
    PROVE  a \o b \in Seq(FrameSet) /\ LiveOnly(a \o b)
<1>1. a \o b \in Seq(FrameSet)
  OBVIOUS
<1>2. ASSUME NEW i \in DOMAIN (a \o b) PROVE (a \o b)[i].store = NoStore
  <2>1. CASE i \in DOMAIN a
    BY <2>1 DEF LiveOnly, ToSet
  <2>2. CASE i \notin DOMAIN a
    <3>1. (a \o b)[i] = b[i - Len(a)] /\ i - Len(a) \in DOMAIN b
      BY <2>2
    <3> QED
      BY <3>1 DEF LiveOnly, ToSet
  <2> QED
    BY <2>1, <2>2
<1> QED
  BY <1>1, <1>2 DEF LiveOnly, ToSet

\* send_inventories
LEMMA InventoriesType ==
    ASSUME NEW T \in SUBSET Peers, NEW subs \in [T -> SUBSET SubIds], NEW e \in Events
    PROVE  Inventories(subs, e) \in Seq(FrameSet) /\ LiveOnly(Inventories(subs, e))
<1> DEFINE frames == {Frame(p, "INV", subs[p], e, NoStore) : p \in T}
<1>1. SetToSeq(frames) \in Seq(FrameSet) /\ ToSet(SetToSeq(frames)) \subseteq frames
  BY FramesListed
<1>2. LiveOnly(SetToSeq(frames))
  BY <1>1 DEF LiveOnly, Frame
<1>3. Inventories(subs, e) = IF CanExport(e) THEN SetToSeq(frames) ELSE <<>>
  BY DEF Inventories
<1> HIDE DEF frames
<1> QED
  BY <1>1, <1>2, <1>3, NoFrames

\* remember_event and what it sends.
LEMMA SpreadKept ==
    ASSUME ServingInv, role' = role, NEW e \in Events, NEW hops \in Nat, NEW excluded,
           NEW said \in Seq(FrameSet), LiveOnly(said), Spread(e, hops, excluded, said)
    PROVE  recent' \in RecentSet /\ outbox' \in Seq(FrameSet) /\ NothingPrivate' /\ Stands
<1> DEFINE isNew == ~Seen(recent, e) /\ hops > 0
           r == Remember(recent, e, hops)
           Named(chosen) == Inventories([p \in chosen |-> SubsFor(p, e)], e)
<1>1. PICK chosen \in SUBSET Peers :
        /\ recent' = IF isNew /\ chosen # {} THEN KeptForWant(r, <<e>>, hops) ELSE r
        /\ outbox' = Queued(recent', (IF isNew THEN Named(chosen) ELSE <<>>) \o said)
  BY DEF Spread
<1>2. r \in RecentSet
  BY RememberType DEF ServingInv, ServingTypes
<1>3. recent' \in RecentSet
  <2>1. <<e>> \in Seq(Events)
    OBVIOUS
  <2>2. KeptForWant(r, <<e>>, hops) \in RecentSet
    BY <1>2, <2>1, KeptType
  <2> QED
    BY <1>1, <1>2, <2>2
<1>4. Named(chosen) \in Seq(FrameSet) /\ LiveOnly(Named(chosen))
  <2>1. [p \in chosen |-> SubsFor(p, e)] \in [chosen -> SUBSET SubIds]
    BY DEF SubsFor
  <2> QED
    BY <2>1, InventoriesType
<1> DEFINE batch == IF isNew THEN Named(chosen) ELSE <<>>
<1>5. batch \in Seq(FrameSet) /\ LiveOnly(batch)
  BY <1>4, NoFrames
<1>6. batch \o said \in Seq(FrameSet) /\ LiveOnly(batch \o said) /\ outbox' = Queued(recent', batch \o said)
  BY <1>1, <1>5, LiveBatches
<1> HIDE DEF batch
<1> QED
  BY <1>3, <1>6, LiveSent

\* What a worker is at.
LEMMA WorkerParts ==
    ASSUME NEW v \in WorkerSet
    PROVE  /\ v.at = "querying" => v.request \in RequestSet
           /\ v.at = "serving" =>
                /\ v.request \in RequestSet /\ v.left \in SUBSET Events
                /\ \A e : [v EXCEPT !.left = @ \ {e}] \in WorkerSet
BY DEF WorkerSet, Idle

\* queue_replay
LEMMA ReplayQueued ==
    ASSUME requests \in Seq(RequestSet), NEW request \in RequestSet, QueueReplay(request)
    PROVE  requests' \in Seq(RequestSet)
BY DEF QueueReplay

\* Subscriptions are named by their ids.
LEMMA SubsIn == ASSUME NEW p \in Peers, NEW e \in Events PROVE SubsFor(p, e) \in SUBSET SubIds
BY DEF SubsFor

LEMMA ReqKept ==
    ASSUME ServingInv, NEW p \in Peers, NEW t \in SubIds, Req(p, t)
    PROVE  ServingInv' /\ Stands
<1> DEFINE live == Only(recent.entries,
                        {x \in ToSet(recent.entries) : x.event \in Matches[t] /\ x.hops > 0})
           m == Min({Len(live), MaxReplay})
           some == [i \in 1..m |-> live[i].event]
           told == Exportable(some)
           frames == [i \in DOMAIN told |-> Frame(p, "INV", {t}, told[i], NoStore)]
           request == [peer |-> p, store |-> source, sub |-> t, events |-> Matches[t] \ ToSet(told),
                       limit |-> MaxReplay - Len(told)]
<1>1. ServingTypes /\ role' = role
  BY DEF ServingInv, Req
<1>2. live \in Seq(EntrySet)
  <2>1. recent.entries \in Seq(EntrySet)
    BY <1>1 DEF ServingTypes, RecentSet
  <2> QED
    BY <2>1, OnlyRetains
<1> HIDE DEF live
<1>3. m \in Nat /\ m <= Len(live)
  <2>1. Len(live) \in Nat /\ MaxReplay \in Nat
    BY <1>2, ServingAssumption
  <2>2. Len(live) \in Int /\ MaxReplay \in Int
    BY <2>1
  <2>3. Min({Len(live), MaxReplay}) \in {Len(live), MaxReplay} /\ Min({Len(live), MaxReplay}) <= Len(live)
    BY <2>2, TwoInts, Zenon
  <2> QED
    BY <2>1, <2>3
<1> HIDE DEF m
<1>4. some \in Seq(Events)
  <2>1. \A i \in 1..m : live[i].event \in Events
    <3>1. ASSUME NEW i \in 1..m PROVE live[i] \in EntrySet
      <4>1. i \in 1..Len(live)
        BY <1>2, <1>3
      <4> QED
        BY <1>2, <4>1
    <3> QED
      BY <3>1 DEF EntrySet
  <2> QED
    BY <1>3, <2>1
<1> HIDE DEF some
<1>5. told \in Seq(Events)
  BY <1>4, ExportableType
<1> HIDE DEF told
<1>6. frames \in Seq(FrameSet) /\ LiveOnly(frames)
  <2>1. Len(told) \in Nat /\ DOMAIN told = 1..Len(told)
    BY <1>5
  <2>2. ASSUME NEW i \in 1..Len(told)
        PROVE  Frame(p, "INV", {t}, told[i], NoStore) \in FrameSet /\ Frame(p, "INV", {t}, told[i], NoStore).store = NoStore
    BY <1>5 DEF Frame, FrameSet
  <2> DEFINE n == Len(told)
             fr(i) == Frame(p, "INV", {t}, told[i], NoStore)
             g == [i \in 1..n |-> fr(i)]
  <2>3. \A i \in 1..n : fr(i) \in FrameSet /\ fr(i).store = NoStore
    BY <2>2
  <2>4. frames = g /\ n \in Nat
    BY <2>1
  <2> HIDE DEF n, fr, frames
  <2>5. g \in Seq(FrameSet)
    BY <2>3, <2>4
  <2>6. LiveOnly(g)
    BY <2>3, <2>4 DEF LiveOnly, ToSet
  <2> QED
    BY <2>4, <2>5, <2>6
<1>7. request \in RequestSet
  <2>1. Matches[t] \ ToSet(told) \in SUBSET Events /\ MaxReplay - Len(told) \in Int
    BY <1>5, ServingAssumption
  <2> QED
    BY <1>1, <2>1 DEF RequestSet, ServingTypes
<1> HIDE DEF frames, request
<1>8. KeptForWant(recent, told, MaxHops) \in RecentSet
  BY <1>1, <1>5, KeptType, ServingAssumption DEF ServingTypes
<1>9. \/ UNCHANGED <<peerSubs, recent, outbox, requests>>
      \/ /\ peerSubs' = peerSubs \cup {<<p, t>>}
         /\ recent' = KeptForWant(recent, told, MaxHops)
         /\ outbox' = Queued(recent', frames)
         /\ QueueReplay(request) \/ UNCHANGED requests
  BY Zenon DEF Req, live, m, some, told, frames, request
<1>10. /\ outbox' \in Seq(FrameSet) /\ NothingPrivate' /\ Stands
  BY <1>1, <1>6, <1>9, LiveSent, NothingSent
<1>11. requests' \in Seq(RequestSet)
  BY <1>1, <1>7, <1>9, ReplayQueued DEF ServingTypes
<1>12. recent' \in RecentSet /\ peerSubs' \subseteq Peers \X SubIds
  BY <1>1, <1>8, <1>9 DEF ServingTypes
<1>13. UNCHANGED <<source, worker, publishing, pending, outcome, answers>>
  BY DEF Req
<1>14. ServingTypes'
  BY <1>1, <1>10, <1>11, <1>12, <1>13 DEF ServingTypes
<1>15. Awaiting' /\ ReceiptHonest'
  BY <1>13 DEF ServingInv, Awaiting, ReceiptHonest
<1> QED
  BY <1>10, <1>14, <1>15 DEF ServingInv

\* handle_want
LEMMA WantKept ==
    ASSUME ServingInv, NEW p \in Peers, NEW e \in Events, Want(p, e)
    PROVE  ServingInv' /\ Stands
<1> DEFINE under == {CHOOSE t \in SubsFor(p, e) : TRUE}
           frame == Frame(p, "EVENT", under, e, NoStore)
           request == [peer |-> p, store |-> source, sub |-> "any", events |-> {e}, limit |-> 1]
<1>1. ServingTypes /\ role' = role
  BY DEF ServingInv, Want
<1>2. SubsFor(p, e) # {} => under \in SUBSET SubIds
  BY SubsIn
<1>3. request \in RequestSet
  BY <1>1 DEF RequestSet, ServingTypes
<1>4. SubsFor(p, e) # {} => frame \in FrameSet /\ frame.store = NoStore
  BY <1>2 DEF Frame, FrameSet
<1>5. \/ /\ SubsFor(p, e) # {} /\ outbox' = Queued(recent, <<frame>>)
         /\ requests' = requests
      \/ QueueReplay(request) /\ outbox' = outbox
  BY DEF Want
<1> HIDE DEF frame, request
<1>6. outbox' \in Seq(FrameSet) /\ NothingPrivate' /\ Stands
  <2>1. CASE SubsFor(p, e) # {} /\ outbox' = Queued(recent, <<frame>>)
    <3>1. <<frame>> \in Seq(FrameSet) /\ LiveOnly(<<frame>>)
      BY <1>4, <2>1, OneFrame DEF LiveOnly
    <3> QED
      BY <1>1, <2>1, <3>1, LiveSent
  <2>2. CASE outbox' = outbox
    BY <1>1, <2>2, NothingSent
  <2> QED
    BY <1>5, <2>1, <2>2
<1>7. requests' \in Seq(RequestSet)
  BY <1>1, <1>3, <1>5, ReplayQueued DEF ServingTypes
<1>8. UNCHANGED <<peerSubs, recent, source, worker, publishing, pending, outcome, answers>>
  BY DEF Want
<1>9. ServingTypes'
  BY <1>1, <1>6, <1>7, <1>8 DEF ServingTypes
<1>10. Awaiting' /\ ReceiptHonest'
  BY <1>8 DEF ServingInv, Awaiting, ReceiptHonest
<1> QED
  BY <1>6, <1>9, <1>10 DEF ServingInv

\* handle_event and accept_publication
LEMMA ArrivalKept ==
    ASSUME ServingInv, NEW p \in Peers, NEW e \in Events,
           AcceptPublication(p, e) \/ \E hops \in 0..MaxHops : Received(p, e, hops)
    PROVE  ServingInv' /\ Stands
<1> DEFINE receipt == Frame(p, "OK", {}, e, NoStore)
<1>1. /\ ServingTypes /\ role' = role /\ MaxHops \in Nat
      /\ UNCHANGED <<peerSubs, source, requests, worker, publishing, pending, outcome, answers>>
  BY ServingAssumption DEF ServingInv, AcceptPublication, Received
<1>2. <<receipt>> \in Seq(FrameSet) /\ LiveOnly(<<receipt>>)
  <2>1. receipt \in FrameSet /\ receipt.store = NoStore
    BY DEF Frame, FrameSet
  <2> HIDE DEF receipt
  <2> QED
    BY <2>1, OneFrame DEF LiveOnly
<1>3. recent' \in RecentSet /\ outbox' \in Seq(FrameSet) /\ NothingPrivate' /\ Stands
  <2>1. CASE AcceptPublication(p, e)
    <3>1. \/ outbox' = Queued(recent, <<receipt>>) /\ recent' = recent
          \/ Spread(e, MaxHops, {p}, <<receipt>>)
      BY <2>1 DEF AcceptPublication
    <3> HIDE DEF receipt
    <3>2. CASE outbox' = Queued(recent, <<receipt>>) /\ recent' = recent
      BY <1>1, <1>2, <3>2, LiveSent DEF ServingTypes
    <3>3. CASE Spread(e, MaxHops, {p}, <<receipt>>)
      BY <1>1, <1>2, <3>3, SpreadKept
    <3> QED
      BY <3>1, <3>2, <3>3
  <2>2. ASSUME NEW hops \in 0..MaxHops, Received(p, e, hops)
        PROVE  recent' \in RecentSet /\ outbox' \in Seq(FrameSet) /\ NothingPrivate' /\ Stands
    <3>1. Spread(e, hops, {p}, <<>>) /\ hops \in Nat
      BY <1>1, <2>2 DEF Received
    <3> QED
      BY <1>1, <3>1, NoFrames, SpreadKept
  <2> QED
    BY <2>1, <2>2
<1>4. ServingTypes'
  BY <1>1, <1>3 DEF ServingTypes
<1>5. Awaiting' /\ ReceiptHonest'
  BY <1>1 DEF ServingInv, Awaiting, ReceiptHonest
<1> QED
  BY <1>3, <1>4, <1>5 DEF ServingInv

\* The transport takes what was queued first.
LEMMA TransmitKept ==
    ASSUME ServingInv, Transmit
    PROVE  ServingInv' /\ Stands
<1>1. /\ ServingTypes /\ role' = role /\ outbox # <<>> /\ outbox' = Tail(outbox)
      /\ UNCHANGED <<peerSubs, recent, source, requests, worker, publishing, pending, outcome, answers>>
  BY DEF ServingInv, Transmit
<1>2. /\ outbox' \in Seq(FrameSet) /\ Len(outbox') = Len(outbox) - 1 /\ Len(outbox) \in Nat
      /\ DOMAIN outbox' = 1..(Len(outbox) - 1)
      /\ \A i \in DOMAIN outbox' : i + 1 \in DOMAIN outbox /\ outbox'[i] = outbox[i + 1]
  BY <1>1 DEF ServingTypes
<1>3. NothingPrivate'
  BY <1>1, <1>2 DEF ServingInv, NothingPrivate, CanExport
<1>4. Stands
  BY <1>2 DEF Stands, Added
<1>5. ServingTypes'
  BY <1>1, <1>2 DEF ServingTypes
<1>6. Awaiting' /\ ReceiptHonest'
  BY <1>1 DEF ServingInv, Awaiting, ReceiptHonest
<1> QED
  BY <1>3, <1>4, <1>5, <1>6 DEF ServingInv

\* The application's publication: decided, and then sent.
LEMMA PublicationParts ==
    ASSUME publishing \in PublishingSet
    PROVE  /\ publishing.at = "deciding" => publishing.event \in Events
           /\ publishing.at = "sending" => publishing.event \in Events
                /\ \E T \in SUBSET Peers : publishing.subs \in [T -> SUBSET SubIds]
BY DEF PublishingSet, Idle

LEMMA PublishDecidedKept ==
    ASSUME ServingInv, PublishDecided
    PROVE  ServingInv' /\ Stands
<1>1. /\ ServingTypes /\ role' = role /\ publishing.at = "deciding"
      /\ UNCHANGED <<peerSubs, recent, outbox, source, requests, worker, pending, outcome, answers>>
  BY DEF ServingInv, PublishDecided
<1> DEFINE e == publishing.event
           Subs(chosen) == [p \in chosen |-> SubsFor(p, e)]
<1>2. e \in Events
  BY <1>1, PublicationParts DEF ServingTypes
<1>3. \E chosen \in SUBSET Peers :
        publishing' \in {Idle, [at |-> "sending", event |-> e, subs |-> Subs(chosen)]}
  BY DEF PublishDecided
<1> HIDE DEF e
<1>4. ASSUME NEW chosen \in SUBSET Peers
      PROVE  [at |-> "sending", event |-> e, subs |-> Subs(chosen)] \in PublishingSet
  <2>1. Subs(chosen) \in [chosen -> SUBSET SubIds]
    BY DEF SubsFor
  <2>2. Subs(chosen) \in UNION {[T -> SUBSET SubIds] : T \in SUBSET Peers}
    BY <2>1
  <2> HIDE DEF Subs
  <2> QED
    BY <1>2, <2>2 DEF PublishingSet
<1>5. publishing' \in PublishingSet
  BY <1>3, <1>4 DEF PublishingSet
<1>6. outbox' \in Seq(FrameSet) /\ NothingPrivate' /\ Stands
  BY <1>1, NothingSent
<1>7. ServingTypes'
  BY <1>1, <1>5 DEF ServingTypes
<1>8. Awaiting' /\ ReceiptHonest'
  BY <1>1 DEF ServingInv, Awaiting, ReceiptHonest
<1> QED
  BY <1>6, <1>7, <1>8 DEF ServingInv

LEMMA PublishSendKept ==
    ASSUME ServingInv, PublishSend
    PROVE  ServingInv' /\ Stands
<1>1. /\ ServingTypes /\ role' = role /\ publishing.at = "sending" /\ publishing' = Idle
      /\ UNCHANGED <<peerSubs, source, requests, worker, pending, outcome, answers>>
  BY DEF ServingInv, PublishSend
<1> DEFINE e == publishing.event
           inventories == Inventories(publishing.subs, e)
           frames == IF recent' = recent THEN <<>> ELSE inventories
<1>2. e \in Events /\ inventories \in Seq(FrameSet) /\ LiveOnly(inventories)
  <2>1. PICK T \in SUBSET Peers : publishing.subs \in [T -> SUBSET SubIds]
    BY <1>1, PublicationParts DEF ServingTypes
  <2>2. e \in Events
    BY <1>1, PublicationParts DEF ServingTypes
  <2> HIDE DEF e
  <2> QED
    BY <2>1, <2>2, InventoriesType
<1>3. \/ UNCHANGED <<recent, outbox>>
      \/ recent' = RememberPublished(recent, e, MaxHops) /\ outbox' = Queued(recent', frames)
  BY DEF PublishSend
<1>4. frames \in Seq(FrameSet) /\ LiveOnly(frames)
  BY <1>2, NoFrames
<1> HIDE DEF e, frames, inventories
<1>5. RememberPublished(recent, e, MaxHops) \in RecentSet
  BY <1>1, <1>2, RememberType, ServingAssumption DEF ServingTypes
<1>6. outbox' \in Seq(FrameSet) /\ NothingPrivate' /\ Stands
  BY <1>1, <1>3, <1>4, NothingSent, LiveSent
<1>7. ServingTypes'
  BY <1>1, <1>3, <1>5, <1>6 DEF ServingTypes, PublishingSet
<1>8. Awaiting' /\ ReceiptHonest'
  BY <1>1 DEF ServingInv, Awaiting, ReceiptHonest
<1> QED
  BY <1>6, <1>7, <1>8 DEF ServingInv

\* Requests move from the queue to a worker, and end there.
LEMMA WorkerKept ==
    ASSUME ServingInv, NEW w \in Workers, Take(w) \/ Answer(w) \/ Timeout(w)
    PROVE  ServingInv' /\ Stands
<1>1. /\ ServingTypes /\ role' = role
      /\ UNCHANGED <<peerSubs, recent, outbox, source, publishing, pending, outcome, answers>>
  BY DEF ServingInv, Take, Answer, Timeout
<1>2. worker' \in [Workers -> WorkerSet] /\ requests' \in Seq(RequestSet)
  <2>1. CASE Take(w)
    <3>1. Head(requests) \in RequestSet /\ Tail(requests) \in Seq(RequestSet)
      BY <1>1, <2>1 DEF Take, ServingTypes
    <3>2. [at |-> "querying", request |-> Head(requests)] \in WorkerSet
      BY <3>1 DEF WorkerSet
    <3> QED
      BY <1>1, <2>1, <3>1, <3>2 DEF Take, ServingTypes
  <2>2. CASE Answer(w)
    <3>1. PICK found \in SUBSET worker[w].request.events :
            worker' = [worker EXCEPT ![w] = [at |-> "serving", request |-> worker[w].request, left |-> found]]
      BY <2>2 DEF Answer
    <3>2. worker[w] \in WorkerSet /\ worker[w].at = "querying"
      BY <1>1, <2>2 DEF Answer, ServingTypes
    <3>3. worker[w].request \in RequestSet
      BY <3>2, WorkerParts
    <3>4. found \in SUBSET Events
      BY <3>3 DEF RequestSet
    <3>5. [at |-> "serving", request |-> worker[w].request, left |-> found] \in WorkerSet
      BY <3>3, <3>4 DEF WorkerSet
    <3> QED
      BY <1>1, <2>2, <3>1, <3>5 DEF Answer, ServingTypes
  <2>3. CASE Timeout(w)
    BY <1>1, <2>3 DEF Timeout, ServingTypes, WorkerSet
  <2> QED
    BY <2>1, <2>2, <2>3
<1>3. outbox' \in Seq(FrameSet) /\ NothingPrivate' /\ Stands
  BY <1>1, NothingSent
<1>4. ServingTypes'
  BY <1>1, <1>2 DEF ServingTypes
<1>5. Awaiting' /\ ReceiptHonest'
  BY <1>1 DEF ServingInv, Awaiting, ReceiptHonest
<1> QED
  BY <1>3, <1>4, <1>5 DEF ServingInv

\* serve: the store, the client and the subscription are looked at again for
\* every event.
LEMMA ServeKept ==
    ASSUME ServingInv, NEW w \in Workers, Serve(w)
    PROVE  ServingInv' /\ Stands
<1> DEFINE v == worker[w]
           request == v.request
<1>1. /\ ServingTypes /\ role' = role /\ v.at = "serving"
      /\ UNCHANGED <<peerSubs, source, requests, publishing, pending, outcome, answers>>
  BY DEF ServingInv, Serve
<1>2. /\ v \in WorkerSet /\ request \in RequestSet /\ v.left \in SUBSET Events
      /\ \A e : [v EXCEPT !.left = @ \ {e}] \in WorkerSet
  <2>1. v \in WorkerSet
    BY <1>1 DEF ServingTypes
  <2> HIDE DEF v
  <2> QED
    BY <1>1, <2>1, WorkerParts
<1>3. /\ worker' \in [Workers -> WorkerSet] /\ recent' \in RecentSet
      /\ outbox' \in Seq(FrameSet) /\ NothingPrivate' /\ Stands
  <2>1. CASE worker' = [worker EXCEPT ![w] = Idle] /\ UNCHANGED <<recent, outbox>>
    <3>1. worker' \in [Workers -> WorkerSet] /\ recent' \in RecentSet
      BY <1>1, <2>1 DEF ServingTypes, WorkerSet
    <3> QED
      BY <1>1, <2>1, <3>1, NothingSent
  <2>2. ASSUME NEW e \in v.left,
               LET subs == Standing(request, e)
                   refused == e \in Refused
                   stopped == ~refused /\ ~StillAttached(request)
                   asInv == request.sub # "any"
                   sent == ~refused /\ ~stopped /\ subs # {} /\ (asInv => CanExport(e))
               IN  /\ worker' = [worker EXCEPT
                                    ![w] = IF stopped THEN Idle ELSE [worker[w] EXCEPT !.left = @ \ {e}]]
                   /\ recent' = IF sent /\ asInv THEN KeptForWant(recent, <<e>>, MaxHops) ELSE recent
                   /\ outbox' = Queued(recent', IF ~sent THEN <<>>
                                    ELSE <<Frame(request.peer, IF asInv THEN "INV" ELSE "EVENT",
                                                 {CHOOSE s \in subs : TRUE}, e, request.store)>>)
        PROVE  /\ worker' \in [Workers -> WorkerSet] /\ recent' \in RecentSet
               /\ outbox' \in Seq(FrameSet) /\ NothingPrivate' /\ Stands
    <3> DEFINE subs == Standing(request, e)
               kind == IF request.sub # "any" THEN "INV" ELSE "EVENT"
               under == CHOOSE s \in subs : TRUE
               frame == Frame(request.peer, kind, {under}, e, request.store)
    <3>1. e \in Events
      BY <1>2, <2>2
    <3>2. worker' \in [Workers -> WorkerSet]
      <4>1. worker' = [worker EXCEPT ![w] = Idle] \/ worker' = [worker EXCEPT ![w] = [v EXCEPT !.left = @ \ {e}]]
        BY <2>2
      <4> HIDE DEF v
      <4>2. Idle \in WorkerSet /\ [v EXCEPT !.left = @ \ {e}] \in WorkerSet
        BY <1>2 DEF WorkerSet
      <4> QED
        BY <1>1, <4>1, <4>2 DEF ServingTypes
    <3>3. recent' \in RecentSet
      <4>1. <<e>> \in Seq(Events) /\ recent \in RecentSet /\ MaxHops \in Nat
        BY <1>1, <3>1, ServingAssumption DEF ServingTypes
      <4>2. KeptForWant(recent, <<e>>, MaxHops) \in RecentSet
        BY <4>1, KeptType
      <4>3. recent' = KeptForWant(recent, <<e>>, MaxHops) \/ recent' = recent
        BY <2>2
      <4> QED
        BY <4>1, <4>2, <4>3
    <3>4. \/ outbox' = Queued(recent', <<>>)
          \/ StillAttached(request) /\ subs # {} /\ outbox' = Queued(recent', <<frame>>)
      BY <2>2
    <3>5. CASE outbox' = Queued(recent', <<>>)
      BY <1>1, <3>2, <3>3, <3>5, NoFrames, LiveSent
    <3>6. CASE StillAttached(request) /\ subs # {} /\ outbox' = Queued(recent', <<frame>>)
      <4>1. subs \subseteq SubsFor(request.peer, e) /\ under \in subs
        BY <3>6 DEF Standing
      <4>2. /\ under \in SubIds /\ <<request.peer, under>> \in peerSubs
        BY <4>1 DEF SubsFor
      <4> HIDE DEF under
      <4>3. frame \in FrameSet /\ frame.to = request.peer /\ frame.subs = {under} /\ frame.store = request.store
        BY <1>2, <3>1, <4>2 DEF Frame, FrameSet, RequestSet
      <4>4. open /\ request.store = source
        BY <3>6 DEF StillAttached
      <4> HIDE DEF frame, request
      <4>5. <<frame>> \in Seq(FrameSet) /\ ToSet(<<frame>>) = {frame}
        BY <4>3, OneFrame
      <4>6. outbox' \in Seq(FrameSet) /\ NothingPrivate' /\ Added \subseteq {frame}
        BY <1>1, <3>6, <4>5, FramesSent
      <4>7. Stands
        BY <4>2, <4>3, <4>4, <4>6 DEF Stands
      <4> QED
        BY <3>2, <3>3, <4>6, <4>7
    <3> QED
      BY <3>4, <3>5, <3>6
  <2> QED
    BY <2>1, <2>2 DEF Serve
<1>4. ServingTypes'
  BY <1>1, <1>3 DEF ServingTypes
<1>5. Awaiting' /\ ReceiptHonest'
  BY <1>1 DEF ServingInv, Awaiting, ReceiptHonest
<1> QED
  BY <1>3, <1>4, <1>5 DEF ServingInv

\* publish_once: all of its providers are waited for.
LEMMA PublishOnceKept ==
    ASSUME ServingInv, NEW e \in Events, NEW providers \in SUBSET Peers, PublishOnce(e, providers)
    PROVE  ServingInv' /\ Stands
<1> DEFINE subs == [p \in providers |-> {}]
           set == {Frame(p, "PUBLISH", {}, e, NoStore) : p \in providers}
           frames == SetToSeq(set)
<1>1. /\ ServingTypes /\ role' = role /\ outcome = "none" /\ outbox' = Queued(recent, frames)
      /\ pending' = providers /\ answers' = [answers EXCEPT !.asked = providers]
      /\ outcome' \in {"none", "unsent"}
      /\ UNCHANGED <<peerSubs, recent, source, requests, worker, publishing>>
  BY DEF ServingInv, PublishOnce
<1>2. frames \in Seq(FrameSet) /\ LiveOnly(frames)
  <2>1. subs \in [providers -> SUBSET SubIds]
    OBVIOUS
  <2>2. set = {Frame(p, "PUBLISH", subs[p], e, NoStore) : p \in providers}
    OBVIOUS
  <2> HIDE DEF subs
  <2>3. frames \in Seq(FrameSet) /\ ToSet(frames) \subseteq set
    <3> DEFINE listed == {Frame(p, "PUBLISH", subs[p], e, NoStore) : p \in providers}
    <3>1. SetToSeq(listed) \in Seq(FrameSet) /\ ToSet(SetToSeq(listed)) \subseteq listed
      BY <2>1, FramesListed
    <3>2. set = listed
      BY <2>2
    <3> HIDE DEF listed, set
    <3> QED
      BY <3>1, <3>2
  <2>4. \A f \in set : f.store = NoStore
    BY DEF Frame
  <2> HIDE DEF set, frames
  <2> QED
    BY <2>3, <2>4 DEF LiveOnly
<1> HIDE DEF frames
<1>3. outbox' \in Seq(FrameSet) /\ NothingPrivate' /\ Stands
  BY <1>1, <1>2, LiveSent
<1>4. ServingTypes'
  BY <1>1, <1>3 DEF ServingTypes
<1>5. answers'.asked = providers
  BY <1>1 DEF ServingTypes
<1>6. Awaiting' /\ ReceiptHonest'
  BY <1>1, <1>5 DEF Awaiting, ReceiptHonest
<1> QED
  BY <1>3, <1>4, <1>6 DEF ServingInv

\* handle_publication_receipt: while one is waited for, all others rejected.
LEMMA ReceiptKept ==
    ASSUME ServingInv, NEW p \in Peers, NEW accepted \in BOOLEAN, Receipt(p, accepted)
    PROVE  ServingInv' /\ Stands
<1>1. /\ ServingTypes /\ role' = role /\ p \in pending
      /\ pending' = IF Settles(p, accepted) THEN {} ELSE pending \ {p}
      /\ outcome' = IF outcome = "none" /\ Settles(p, accepted)
                    THEN (IF accepted THEN "accepted" ELSE "rejected") ELSE outcome
      /\ answers' = [answers EXCEPT !.got = @ \cup {<<p, accepted>>}]
      /\ UNCHANGED <<peerSubs, recent, outbox, source, requests, worker, publishing>>
  BY DEF ServingInv, Receipt
<1>2. outbox' \in Seq(FrameSet) /\ NothingPrivate' /\ Stands
  BY <1>1, NothingSent
<1>3. /\ answers'.asked = answers.asked /\ answers'.got = answers.got \cup {<<p, accepted>>}
      /\ answers' \in [asked : SUBSET Peers, got : SUBSET (Peers \X BOOLEAN)]
  <2>1. answers \in [asked : SUBSET Peers, got : SUBSET (Peers \X BOOLEAN)]
    BY <1>1 DEF ServingTypes
  <2>2. answers.got \cup {<<p, accepted>>} \in SUBSET (Peers \X BOOLEAN)
    <3>1. answers.got \in SUBSET (Peers \X BOOLEAN)
      BY <2>1
    <3>2. <<p, accepted>> \in Peers \X BOOLEAN
      BY Zenon
    <3> QED
      BY <3>1, <3>2, Zenon
  <2> DEFINE got == answers.got \cup {<<p, accepted>>}
             G == SUBSET (Peers \X BOOLEAN)
  <2>3. answers' = [answers EXCEPT !.got = got] /\ got \in G /\ answers \in [asked : SUBSET Peers, got : G]
    BY <1>1, <2>1, <2>2
  <2> HIDE DEF got, G
  <2>4. answers'.asked = answers.asked /\ answers'.got = got /\ answers' \in [asked : SUBSET Peers, got : G]
    BY <2>3
  <2> QED
    BY <2>4 DEF got, G
<1>4. ServingTypes'
  BY <1>1, <1>3 DEF ServingTypes
<1>5. p \in answers.asked /\ \A q \in answers.asked \ pending : <<q, FALSE>> \in answers.got
  BY <1>1 DEF ServingInv, Awaiting
<1>6. Awaiting'
  <2>1. CASE Settles(p, accepted)
    BY <1>1, <2>1 DEF Awaiting
  <2>2. CASE ~Settles(p, accepted)
    <3>1. accepted = FALSE
      BY <2>2 DEF Settles
    <3>2. pending' = pending \ {p} /\ pending \subseteq answers.asked
      BY <1>1, <2>2 DEF ServingInv, Awaiting
    <3> QED
      BY <1>3, <1>5, <3>1, <3>2 DEF Awaiting
  <2> QED
    BY <2>1, <2>2
<1>7. ReceiptHonest'
  <2>1. CASE outcome = "none" /\ Settles(p, accepted)
    <3>1. CASE accepted
      <4>1. outcome' = "accepted" /\ <<p, TRUE>> \in answers'.got
        BY <1>1, <1>3, <2>1, <3>1
      <4> QED
        BY <1>3, <1>5, <4>1 DEF ReceiptHonest
    <3>2. CASE ~accepted
      <4>1. pending = {p} /\ accepted = FALSE /\ outcome' = "rejected"
        BY <1>1, <2>1, <3>2 DEF Settles
      <4>2. \A q \in answers'.asked : <<q, FALSE>> \in answers'.got
        BY <1>3, <1>5, <4>1
      <4> QED
        BY <4>1, <4>2 DEF ReceiptHonest
    <3> QED
      BY <3>1, <3>2
  <2>2. CASE ~(outcome = "none" /\ Settles(p, accepted))
    <3>1. outcome' = outcome
      BY <1>1, <2>2
    <3> QED
      BY <1>3, <3>1 DEF ServingInv, ReceiptHonest
  <2> QED
    BY <2>1, <2>2
<1> QED
  BY <1>2, <1>4, <1>6, <1>7 DEF ServingInv

\* The steps that only close, start, attach, detach or give up something.
LEMMA ControlKept ==
    ASSUME ServingInv,
           \/ \E p \in Peers, t \in SubIds : CloseReq(p, t)
           \/ \E p \in Peers : PeerDown(p)
           \/ \E e \in Events : PublishBegin(e)
           \/ \E store \in Stores \cup {NoStore} : SetReplaySource(store)
           \/ CloseAll \/ PublishTimeout
    PROVE  ServingInv' /\ Stands
<1>1. /\ ServingTypes /\ role' = role
      /\ UNCHANGED <<recent, outbox, requests, worker, answers>>
  BY DEF ServingInv, CloseReq, PeerDown, PublishBegin, SetReplaySource, CloseAll, PublishTimeout
<1>2. outbox' \in Seq(FrameSet) /\ NothingPrivate' /\ Stands
  BY <1>1, NothingSent
<1>3. /\ peerSubs' \subseteq Peers \X SubIds /\ source' \in Stores \cup {NoStore}
      /\ publishing' \in PublishingSet
  <2>1. /\ peerSubs' \subseteq peerSubs /\ source' \in Stores \cup {NoStore}
        /\ publishing' = publishing \/ \E e \in Events : publishing' = [at |-> "deciding", event |-> e]
    BY <1>1 DEF ServingTypes, CloseReq, PeerDown, PublishBegin, SetReplaySource, CloseAll, PublishTimeout
  <2>2. publishing' \in PublishingSet
    BY <1>1, <2>1 DEF ServingTypes, PublishingSet
  <2> QED
    BY <1>1, <2>1, <2>2 DEF ServingTypes
<1>4. /\ pending' \in {pending, {}}
      /\ outcome' \in {outcome, "closed", "timeout"}
  BY DEF CloseReq, PeerDown, PublishBegin, SetReplaySource, CloseAll, PublishTimeout
<1>5. ServingTypes'
  BY <1>1, <1>3 DEF ServingTypes
<1>6. Awaiting' /\ ReceiptHonest'
  BY <1>1, <1>4 DEF ServingInv, Awaiting, ReceiptHonest
<1> QED
  BY <1>2, <1>5, <1>6 DEF ServingInv

LEMMA ServingStep ==
    ASSUME ServingInv, Next
    PROVE  ServingInv' /\ Stands
<1>1. ASSUME NEW p \in Peers, NEW t \in SubIds, Req(p, t) PROVE ServingInv' /\ Stands
  BY <1>1, ReqKept
<1>2. ASSUME NEW p \in Peers, NEW e \in Events, Want(p, e) PROVE ServingInv' /\ Stands
  BY <1>2, WantKept
<1>3. ASSUME NEW p \in Peers, NEW e \in Events,
             AcceptPublication(p, e) \/ \E hops \in 0..MaxHops : Received(p, e, hops)
      PROVE  ServingInv' /\ Stands
  BY <1>3, ArrivalKept
<1>4. ASSUME NEW e \in Events, NEW providers \in SUBSET Peers, PublishOnce(e, providers)
      PROVE  ServingInv' /\ Stands
  BY <1>4, PublishOnceKept
<1>5. ASSUME NEW w \in Workers, Take(w) \/ Answer(w) \/ Timeout(w) PROVE ServingInv' /\ Stands
  BY <1>5, WorkerKept
<1>6. ASSUME NEW w \in Workers, Serve(w) PROVE ServingInv' /\ Stands
  BY <1>6, ServeKept
<1>7. ASSUME NEW p \in Peers, NEW accepted \in BOOLEAN, Receipt(p, accepted) PROVE ServingInv' /\ Stands
  BY <1>7, ReceiptKept
<1>8. CASE Transmit
  BY <1>8, TransmitKept
<1>9. CASE PublishDecided
  BY <1>9, PublishDecidedKept
<1>10. CASE PublishSend
  BY <1>10, PublishSendKept
<1> QED
  BY <1>1, <1>2, <1>3, <1>4, <1>5, <1>6, <1>7, <1>8, <1>9, <1>10, ControlKept, Zenon DEF Next

LEMMA ServingInitially == Init => ServingInv
<1> SUFFICES ASSUME Init PROVE ServingInv
  OBVIOUS
<1>1. ServingTypes
  BY DEF Init, ServingTypes, NoRecent, RecentSet, PublishingSet, WorkerSet
<1>2. NothingPrivate /\ Awaiting /\ ReceiptHonest
  BY DEF Init, NothingPrivate, Awaiting, ReceiptHonest
<1> QED
  BY <1>1, <1>2 DEF ServingInv

LEMMA ServingUnchanged == ServingInv /\ UNCHANGED servingVars => ServingInv' /\ Stands
<1> SUFFICES ASSUME ServingInv, UNCHANGED servingVars PROVE ServingInv' /\ Stands
  OBVIOUS
<1>1. UNCHANGED <<role, peerSubs, recent, outbox, source, requests, worker, publishing, pending, outcome, answers>>
  BY DEF servingVars, vars
<1>2. outbox' \in Seq(FrameSet) /\ NothingPrivate' /\ Stands
  BY <1>1, NothingSent
<1>3. ServingTypes'
  BY <1>1 DEF ServingInv, ServingTypes
<1>4. Awaiting' /\ ReceiptHonest'
  BY <1>1 DEF ServingInv, Awaiting, ReceiptHonest
<1> QED
  BY <1>2, <1>3, <1>4 DEF ServingInv

LEMMA ServingInductive ==
    ServingInv /\ [MCNext]_<<mode, servingVars, rosterVars, behaviorVars, seenVars, subsVars>>
        => ServingInv' /\ Stands
<1> SUFFICES ASSUME ServingInv,
                    [MCNext]_<<mode, servingVars, rosterVars, behaviorVars, seenVars, subsVars>>
             PROVE  ServingInv' /\ Stands
  OBVIOUS
<1>1. Next \/ UNCHANGED servingVars
  BY DEF MCNext
<1> QED
  BY <1>1, ServingStep, ServingUnchanged

\* A client never queues a frame that names or carries an event its role may not
\* export, and an anonymous publication reports only what its providers said: for
\* any number of peers, events, workers and any capacity (privacy_roles.rs,
\* client_publication.rs, anonymous_publication.rs).
THEOREM ServingStaysHonest == MCSpec => []ServesHonestly
<1>1. MCInit => ServingInv
  BY ServingInitially DEF MCInit
<1>2. ServingInv /\ [MCNext]_<<mode, servingVars, rosterVars, behaviorVars, seenVars, subsVars>>
        => ServingInv'
  BY ServingInductive
<1>3. ServingInv => ServesHonestly
  BY DEF ServingInv, ServesHonestly
<1> QED
  BY <1>1, <1>2, <1>3, PTL DEF MCSpec

\* What a replay worker queues is from the store attached at that moment, under
\* a subscription the peer has at that moment, whatever changed while the store
\* and the policy were awaited (replay_source.rs, serve).
THEOREM ReplayAlwaysStands == MCSpec => ReplayStands
<1>1. MCInit => ServingInv
  BY ServingInitially DEF MCInit
<1>2. ServingInv /\ [MCNext]_<<mode, servingVars, rosterVars, behaviorVars, seenVars, subsVars>>
        => ServingInv' /\ [Stands]_vars
  BY ServingInductive
<1> QED
  BY <1>1, <1>2, PTL DEF MCSpec, ReplayStands, Stands

-----------------------------------------------------------------------------
(* The ids seen *)

LEMMA SameOperators ==
    ASSUME NEW s, NEW S
    PROVE  /\ SeenIds!Only(s, S) = Only(s, S) /\ SeenIds!Abstract!Only(s, S) = Only(s, S)
           /\ SeenIds!Range(s) = ToSet(s) /\ SeenIds!Abstract!Range(s) = ToSet(s)
           /\ SeenIds!Min(S) = Min(S) /\ SeenIds!Abstract!Min(S) = Min(S)
           /\ SeenIds!Cardinality(S) = Cardinality(S) /\ SeenIds!Abstract!Cardinality(S) = Cardinality(S)
<1>1. SeenIds!Only(s, S) = Only(s, S) /\ SeenIds!Abstract!Only(s, S) = Only(s, S)
  BY Zenon DEF Only, SeenIds!Only, SeenIds!Abstract!Only
<1>2. SeenIds!Range(s) = ToSet(s) /\ SeenIds!Abstract!Range(s) = ToSet(s)
  BY DEF ToSet, SeenIds!Range, SeenIds!Abstract!Range
<1>3. SeenIds!Min(S) = Min(S) /\ SeenIds!Abstract!Min(S) = Min(S)
  BY Zenon DEF Min, SeenIds!Min, SeenIds!Abstract!Min
<1>5. SeenIds!Cardinality(S) = Cardinality(S) /\ SeenIds!Abstract!Cardinality(S) = Cardinality(S)
  BY Zenon DEF Cardinality, SeenIds!Cardinality, SeenIds!Abstract!Cardinality
<1> QED
  BY <1>1, <1>2, <1>3, <1>5

SeenScopes == Peers \X Subscriptions
SeenRecords == SeenScopes \X Ids \X Nat
Generation == [r \in SeenRecords |-> r[3]]

\* The queue of a scope holds its ids, oldest first, and nothing stale.
IdsSound(w) ==
    /\ w = [ids |-> w.ids, order |-> w.order]
    /\ DOMAIN w.ids \in SUBSET Ids
    /\ \A id \in DOMAIN w.ids : w.ids[id] \in [generation : Nat, matched : BOOLEAN]
    /\ w.order \in Seq(Ids \X Nat)
    /\ \A i \in DOMAIN w.order : SeenIds!Live(w, w.order[i])
    /\ \A id \in DOMAIN w.ids : \E i \in DOMAIN w.order : w.order[i][1] = id
    /\ \A i, j \in DOMAIN w.order : i < j => w.order[i][2] < w.order[j][2]

\* The ids remembered, with their scopes.
Known(s) == {h \in SeenScopes \X Ids : SeenIds!Seen(s, h[1], h[2])}

RecordOf(s, h) == <<h[1], h[2], s.scopes[h[1]].ids[h[2]].generation>>

LiveOf(s) == {RecordOf(s, h) : h \in Known(s)}

\* The global queue rises, and holds the record of every id that is known.
QueueSound(s) ==
    /\ s.globalOrder \in Seq(SeenRecords) /\ Rising(s.globalOrder, Generation)
    /\ \A i \in DOMAIN s.globalOrder : s.globalOrder[i][3] < s.next
    /\ LiveOf(s) \subseteq ToSet(s.globalOrder)

SeenShaped(s) ==
    /\ s = [scopes |-> s.scopes, globalOrder |-> s.globalOrder, total |-> s.total, next |-> s.next]
    /\ DOMAIN s.scopes \in SUBSET SeenScopes /\ s.next \in Nat
    /\ \A scope \in DOMAIN s.scopes : IdsSound(s.scopes[scope])

SeenSound(s) == SeenShaped(s) /\ QueueSound(s) /\ s.total = Cardinality(Known(s))

LEMMA KnownFinite == ASSUME NEW s PROVE IsFiniteSet(Known(s))
<1>1. IsFiniteSet(SeenScopes)
  BY ServingAssumption, SeenAssumption, FS_Product DEF SeenScopes
<1>2. IsFiniteSet(SeenScopes \X Ids)
  BY <1>1, SeenAssumption, FS_Product
<1>3. Known(s) \subseteq SeenScopes \X Ids
  BY DEF Known
<1> QED
  BY <1>2, <1>3, FS_Subset

\* What it is to be known.
LEMMA KnownIs ==
    ASSUME NEW s, SeenShaped(s)
    PROVE  /\ \A h \in Known(s) :
                /\ h = <<h[1], h[2]>> /\ h[1] \in SeenScopes /\ h[2] \in Ids
                /\ h[1] \in DOMAIN s.scopes /\ h[2] \in DOMAIN s.scopes[h[1]].ids
                /\ RecordOf(s, h) \in SeenRecords
           /\ \A scope \in DOMAIN s.scopes : \A id \in DOMAIN s.scopes[scope].ids :
                <<scope, id>> \in Known(s)
           /\ \A scope, id : SeenIds!Seen(s, scope, id) <=>
                scope \in DOMAIN s.scopes /\ id \in DOMAIN s.scopes[scope].ids
<1>1. \A scope, id : SeenIds!Seen(s, scope, id) <=>
                scope \in DOMAIN s.scopes /\ id \in DOMAIN s.scopes[scope].ids
  BY DEF SeenIds!Seen, SeenIds!WindowOf, SeenIds!NoWindow
<1>2. ASSUME NEW h \in Known(s)
      PROVE  /\ h = <<h[1], h[2]>> /\ h[1] \in SeenScopes /\ h[2] \in Ids
             /\ h[1] \in DOMAIN s.scopes /\ h[2] \in DOMAIN s.scopes[h[1]].ids
    BY <1>1 DEF Known
<1>3. ASSUME NEW h \in Known(s) PROVE RecordOf(s, h) \in SeenRecords
  <2>1. s.scopes[h[1]].ids[h[2]].generation \in Nat
    BY <1>2 DEF SeenShaped, IdsSound
  <2> QED
    BY <1>2, <2>1 DEF RecordOf, SeenRecords
<1>4. ASSUME NEW scope \in DOMAIN s.scopes, NEW id \in DOMAIN s.scopes[scope].ids
      PROVE  <<scope, id>> \in Known(s)
  <2>1. scope \in SeenScopes /\ id \in Ids
    BY DEF SeenShaped, IdsSound
  <2> QED
    BY <1>1, <2>1 DEF Known
<1> QED
  BY <1>1, <1>2, <1>3, <1>4

\* A record is live when it is that of an id that is known.
LEMMA LiveIs ==
    ASSUME NEW s, SeenShaped(s), NEW r \in SeenRecords
    PROVE  SeenIds!GlobalLive(s, r) <=> r \in LiveOf(s)
<1>1. r = <<r[1], r[2], r[3]>> /\ r[1] \in SeenScopes /\ r[2] \in Ids
  BY DEF SeenRecords
<1>2. ASSUME SeenIds!GlobalLive(s, r) PROVE r \in LiveOf(s)
  <2>1. /\ r[1] \in DOMAIN s.scopes /\ r[2] \in DOMAIN s.scopes[r[1]].ids
        /\ s.scopes[r[1]].ids[r[2]].generation = r[3]
    BY <1>2 DEF SeenIds!GlobalLive, SeenIds!Live, SeenIds!WindowOf, SeenIds!NoWindow
  <2>2. <<r[1], r[2]>> \in Known(s)
    BY <2>1, KnownIs
  <2>3. r = RecordOf(s, <<r[1], r[2]>>)
    BY <1>1, <2>1 DEF RecordOf
  <2> QED
    BY <2>2, <2>3 DEF LiveOf
<1>3. ASSUME r \in LiveOf(s) PROVE SeenIds!GlobalLive(s, r)
  <2>1. PICK h \in Known(s) : r = RecordOf(s, h)
    BY <1>3 DEF LiveOf
  <2>2. /\ r[1] = h[1] /\ r[2] = h[2] /\ r[3] = s.scopes[h[1]].ids[h[2]].generation
        /\ h[1] \in DOMAIN s.scopes /\ h[2] \in DOMAIN s.scopes[h[1]].ids
    BY <2>1, KnownIs DEF RecordOf
  <2> QED
    BY <2>2 DEF SeenIds!GlobalLive, SeenIds!Live, SeenIds!WindowOf
<1> QED
  BY <1>2, <1>3

LEMMA GenerationType == Generation \in [SeenRecords -> Nat] /\ \A r \in SeenRecords : Generation[r] = r[3]
BY DEF Generation, SeenRecords

\* The live records of the queue are those of what is known, in rising order,
\* and no other sequence is that.
LEMMA LiveRecordsAre ==
    ASSUME NEW s, SeenShaped(s), QueueSound(s)
    PROVE  /\ SeenIds!LiveRecords(s) \in Seq(SeenRecords)
           /\ Rising(SeenIds!LiveRecords(s), Generation)
           /\ ToSet(SeenIds!LiveRecords(s)) = LiveOf(s)
           /\ \A q \in Seq(SeenRecords) :
                Rising(q, Generation) /\ ToSet(q) = LiveOf(s) => q = SeenIds!LiveRecords(s)
<1> DEFINE g == s.globalOrder
           L == {r \in ToSet(g) : SeenIds!GlobalLive(s, r)}
           kept == SeenIds!LiveRecords(s)
<1>1. kept = Only(g, L)
  BY SameOperators DEF SeenIds!LiveRecords
<1>2. g \in Seq(SeenRecords) /\ Rising(g, Generation) /\ LiveOf(s) \subseteq ToSet(g)
  BY DEF QueueSound
<1>3. ToSet(g) \subseteq SeenRecords
  BY <1>2 DEF ToSet
<1>4. L = LiveOf(s)
  BY <1>2, <1>3, LiveIs
<1> HIDE DEF L, g
<1>5. ToSet(kept) = LiveOf(s)
  <2>1. ToSet(Only(g, L)) = ToSet(g) \cap L
    BY <1>2, OnlyRetains
  <2> QED
    BY <1>1, <1>2, <1>4, <2>1
<1>6. kept \in Seq(SeenRecords) /\ Rising(kept, Generation)
  BY <1>1, <1>2, GenerationType, RisingOnly
<1> HIDE DEF kept
<1>7. ASSUME NEW q \in Seq(SeenRecords), Rising(q, Generation), ToSet(q) = LiveOf(s) PROVE q = kept
  BY <1>5, <1>6, <1>7, GenerationType, RisingUnique
<1> QED
  BY <1>5, <1>6, <1>7 DEF kept

\* There are as many of them as ids are known.
LEMMA LiveRecordsCount ==
    ASSUME NEW s, SeenShaped(s), QueueSound(s)
    PROVE  Len(SeenIds!LiveRecords(s)) = Cardinality(Known(s))
<1> DEFINE q == SeenIds!LiveRecords(s)
           f == [h \in Known(s) |-> RecordOf(s, h)]
<1>1. q \in Seq(SeenRecords) /\ IsInjective(q) /\ ToSet(q) = LiveOf(s)
  BY LiveRecordsAre, GenerationType, RisingInjective
<1>2. Cardinality(LiveOf(s)) = Len(q)
  BY <1>1, DistinctCardinality
<1>3. f \in Bijection(Known(s), LiveOf(s))
  <2>1. f \in [Known(s) -> LiveOf(s)]
    BY DEF LiveOf
  <2>2. ASSUME NEW h \in Known(s), NEW k \in Known(s), f[h] = f[k] PROVE h = k
    <3>1. h = <<h[1], h[2]>> /\ k = <<k[1], k[2]>>
      BY KnownIs
    <3>2. RecordOf(s, h) = RecordOf(s, k)
      BY <2>2
    <3>3. h[1] = k[1] /\ h[2] = k[2]
      BY <3>2 DEF RecordOf
    <3> QED
      BY <3>1, <3>3
  <2>3. \A r \in LiveOf(s) : \E h \in Known(s) : f[h] = r
    BY DEF LiveOf
  <2> HIDE DEF f
  <2> QED
    BY <2>1, <2>2, <2>3 DEF Bijection, Injection, Surjection, IsInjective
<1>4. ExistsBijection(Known(s), LiveOf(s))
  BY <1>3 DEF ExistsBijection
<1> QED
  BY <1>2, <1>4, KnownFinite, FS_Bijection

\* t is s without what H says it knows.
Drops(s, t, H) ==
    /\ SeenShaped(t) /\ t.next = s.next
    /\ Known(t) = Known(s) \ H
    /\ \A h \in Known(t) : t.scopes[h[1]].ids[h[2]] = s.scopes[h[1]].ids[h[2]]

\* The queue of t is that of s without records that are not live in t.
Shortens(s, t) ==
    /\ t.globalOrder \in Seq(SeenRecords) /\ Rising(t.globalOrder, Generation)
    /\ ToSet(t.globalOrder) \subseteq ToSet(s.globalOrder)
    /\ \A r \in ToSet(s.globalOrder) : SeenIds!GlobalLive(t, r) => r \in ToSet(t.globalOrder)

LEMMA DropsLive ==
    ASSUME NEW s, SeenShaped(s), QueueSound(s), NEW t, NEW H, Drops(s, t, H), Shortens(s, t)
    PROVE  /\ QueueSound(t)
           /\ LiveOf(t) = {r \in LiveOf(s) : <<r[1], r[2]>> \notin H}
           /\ \A r \in LiveOf(t) : SeenIds!Observation(t, r) = SeenIds!Observation(s, r)
<1>0. SeenShaped(t)
  BY DEF Drops
<1>1. ASSUME NEW h \in Known(t) PROVE RecordOf(t, h) = RecordOf(s, h) /\ h \in Known(s) \ H
  BY DEF Drops, RecordOf
<1>2. LiveOf(t) = {r \in LiveOf(s) : <<r[1], r[2]>> \notin H}
  <2>1. ASSUME NEW r \in LiveOf(t) PROVE r \in LiveOf(s) /\ <<r[1], r[2]>> \notin H
    <3>1. PICK h \in Known(t) : r = RecordOf(t, h)
      BY DEF LiveOf
    <3>2. r = RecordOf(s, h) /\ h \in Known(s) /\ h \notin H
      BY <1>1, <3>1
    <3>3. r[1] = h[1] /\ r[2] = h[2] /\ h = <<h[1], h[2]>>
      BY <3>2, KnownIs DEF RecordOf
    <3> QED
      BY <3>2, <3>3 DEF LiveOf
  <2>2. ASSUME NEW r \in LiveOf(s), <<r[1], r[2]>> \notin H PROVE r \in LiveOf(t)
    <3>1. PICK h \in Known(s) : r = RecordOf(s, h)
      BY DEF LiveOf
    <3>2. r[1] = h[1] /\ r[2] = h[2] /\ h = <<h[1], h[2]>>
      BY <3>1, KnownIs DEF RecordOf
    <3>3. h \in Known(t)
      BY <2>2, <3>2 DEF Drops
    <3> QED
      BY <1>1, <3>1, <3>3 DEF LiveOf
  <2> QED
    BY <2>1, <2>2
<1>3. LiveOf(t) \subseteq ToSet(t.globalOrder)
  <2> SUFFICES ASSUME NEW r \in LiveOf(t) PROVE r \in ToSet(t.globalOrder)
    OBVIOUS
  <2>1. r \in ToSet(s.globalOrder)
    BY <1>2 DEF QueueSound
  <2>2. r \in SeenRecords
    BY <2>1 DEF QueueSound, ToSet
  <2>3. SeenIds!GlobalLive(t, r)
    BY <1>0, <2>2, LiveIs
  <2> QED
    BY <2>1, <2>3 DEF Shortens
<1>4. \A i \in DOMAIN t.globalOrder : t.globalOrder[i][3] < t.next
  <2> SUFFICES ASSUME NEW i \in DOMAIN t.globalOrder PROVE t.globalOrder[i][3] < t.next
    OBVIOUS
  <2>1. t.globalOrder[i] \in ToSet(s.globalOrder)
    BY DEF Shortens, ToSet
  <2>2. PICK j \in DOMAIN s.globalOrder : t.globalOrder[i] = s.globalOrder[j]
    BY <2>1 DEF ToSet
  <2> QED
    BY <2>2 DEF QueueSound, Drops
<1>5. ASSUME NEW r \in LiveOf(t) PROVE SeenIds!Observation(t, r) = SeenIds!Observation(s, r)
  <2>1. PICK h \in Known(t) : r = RecordOf(t, h)
    BY DEF LiveOf
  <2>2. r[1] = h[1] /\ r[2] = h[2]
    BY <2>1 DEF RecordOf
  <2>3. t.scopes[h[1]].ids[h[2]] = s.scopes[h[1]].ids[h[2]]
    BY DEF Drops
  <2> QED
    BY <2>2, <2>3 DEF SeenIds!Observation
<1> QED
  BY <1>2, <1>3, <1>4, <1>5 DEF QueueSound, Shortens

LEMMA WindowIs ==
    ASSUME NEW s, SeenShaped(s), QueueSound(s)
    PROVE  /\ SeenIds!WindowIn(s) \in Seq({SeenIds!Observation(s, r) : r \in LiveOf(s)})
           /\ Len(SeenIds!WindowIn(s)) = Len(SeenIds!LiveRecords(s))
           /\ \A i \in 1..Len(SeenIds!LiveRecords(s)) :
                /\ SeenIds!WindowIn(s)[i] = SeenIds!Observation(s, SeenIds!LiveRecords(s)[i])
                /\ SeenIds!LiveRecords(s)[i] \in LiveOf(s)
<1> DEFINE q == SeenIds!LiveRecords(s)
           w == SeenIds!WindowIn(s)
<1>1. q \in Seq(SeenRecords) /\ ToSet(q) = LiveOf(s)
  BY LiveRecordsAre
<1>2. w = [i \in DOMAIN q |-> SeenIds!Observation(s, q[i])]
  BY DEF SeenIds!WindowIn
<1> HIDE DEF q, w
<1>3. DOMAIN q = 1..Len(q) /\ Len(q) \in Nat /\ \A i \in 1..Len(q) : q[i] \in LiveOf(s)
  BY <1>1 DEF ToSet
<1>4. w \in [1..Len(q) -> {SeenIds!Observation(s, r) : r \in LiveOf(s)}]
  BY <1>2, <1>3
<1>5. /\ w \in Seq({SeenIds!Observation(s, r) : r \in LiveOf(s)}) /\ Len(w) = Len(q)
  BY <1>3, <1>4, NumberedIsSeq
<1>6. \A i \in 1..Len(q) : w[i] = SeenIds!Observation(s, q[i])
  BY <1>2, <1>3
<1> QED
  BY <1>3, <1>5, <1>6 DEF q, w

\* Forgetting the id of one record takes its place out of the window.
LEMMA DropsOne ==
    ASSUME NEW s, SeenShaped(s), QueueSound(s), NEW t, NEW h, Drops(s, t, {h}), Shortens(s, t),
           NEW m \in 1..Len(SeenIds!LiveRecords(s)),
           SeenIds!LiveRecords(s)[m] = RecordOf(s, h), h \in Known(s)
    PROVE  /\ QueueSound(t)
           /\ SeenIds!LiveRecords(t) = RemoveAt(SeenIds!LiveRecords(s), m)
           /\ SeenIds!WindowIn(t) = RemoveAt(SeenIds!WindowIn(s), m)
<1> DEFINE q == SeenIds!LiveRecords(s)
           w == SeenIds!WindowIn(s)
           p == RemoveAt(q, m)
           v == SeenIds!WindowIn(t)
<1>1. q \in Seq(SeenRecords) /\ Rising(q, Generation) /\ ToSet(q) = LiveOf(s)
  BY LiveRecordsAre
<1>2. /\ p \in Seq(SeenRecords) /\ Rising(p, Generation) /\ ToSet(p) = LiveOf(s) \ {RecordOf(s, h)}
      /\ Len(p) = Len(q) - 1
      /\ \A i \in 1..(Len(q) - 1) : p[i] = IF i < m THEN q[i] ELSE q[i + 1]
  <2>1. m \in 1..Len(q) /\ q[m] = RecordOf(s, h)
    OBVIOUS
  <2> HIDE DEF q
  <2>2. /\ p \in Seq(SeenRecords) /\ Rising(p, Generation) /\ ToSet(p) = ToSet(q) \ {q[m]}
    BY <1>1, <2>1, GenerationType, RisingRemove
  <2>3. /\ Len(p) = Len(q) - 1
        /\ \A i \in 1..(Len(q) - 1) : p[i] = IF i < m THEN q[i] ELSE q[i + 1]
    BY <1>1, <2>1, RemoveAtPlaces
  <2> QED
    BY <1>1, <2>1, <2>2, <2>3
<1>3. LiveOf(s) \ {RecordOf(s, h)} = {r \in LiveOf(s) : <<r[1], r[2]>> \notin {h}}
  <2> SUFFICES ASSUME NEW r \in LiveOf(s) PROVE r = RecordOf(s, h) <=> <<r[1], r[2]>> = h
    OBVIOUS
  <2>1. PICK k \in Known(s) : r = RecordOf(s, k)
    BY DEF LiveOf
  <2>2. r[1] = k[1] /\ r[2] = k[2] /\ k = <<k[1], k[2]>> /\ h = <<h[1], h[2]>>
    BY <2>1, KnownIs DEF RecordOf
  <2>3. RecordOf(s, h)[1] = h[1] /\ RecordOf(s, h)[2] = h[2]
    BY DEF RecordOf
  <2> QED
    BY <2>1, <2>2, <2>3
<1>4. QueueSound(t) /\ SeenShaped(t) /\ ToSet(p) = LiveOf(t)
  <2>1. QueueSound(t) /\ LiveOf(t) = {r \in LiveOf(s) : <<r[1], r[2]>> \notin {h}}
    BY DropsLive
  <2>2. SeenShaped(t)
    BY DEF Drops
  <2> QED
    BY <1>2, <1>3, <2>1, <2>2
<1>5. p = SeenIds!LiveRecords(t)
  BY <1>2, <1>4, LiveRecordsAre
<1>6. /\ w \in Seq({SeenIds!Observation(s, r) : r \in LiveOf(s)}) /\ Len(w) = Len(q)
      /\ \A i \in 1..Len(q) : w[i] = SeenIds!Observation(s, q[i])
  BY WindowIs
<1>7. /\ v \in Seq({SeenIds!Observation(t, r) : r \in LiveOf(t)}) /\ Len(v) = Len(p)
      /\ \A i \in 1..Len(p) : v[i] = SeenIds!Observation(t, p[i]) /\ p[i] \in LiveOf(t)
  BY <1>4, <1>5, WindowIs
<1>8. \A r \in LiveOf(t) : SeenIds!Observation(t, r) = SeenIds!Observation(s, r)
  BY DropsLive
<1> DEFINE u == RemoveAt(w, m)
<1>9. /\ u \in Seq({SeenIds!Observation(s, r) : r \in LiveOf(s)}) /\ Len(u) = Len(q) - 1
      /\ \A i \in 1..(Len(q) - 1) : u[i] = IF i < m THEN w[i] ELSE w[i + 1]
  BY <1>6, RemoveAtPlaces
<1>10. m \in 1..Len(q) /\ Len(q) \in Nat
  BY <1>1
<1> HIDE DEF q, w, p, v, u
<1>11. ASSUME NEW i \in 1..(Len(q) - 1) PROVE u[i] = v[i]
  <2>1. v[i] = SeenIds!Observation(s, p[i])
    BY <1>2, <1>7, <1>8
  <2>2. CASE i < m
    <3>1. i \in 1..Len(q) /\ p[i] = q[i] /\ u[i] = w[i]
      BY <1>2, <1>9, <1>10, <2>2
    <3> QED
      BY <1>6, <2>1, <3>1
  <2>3. CASE ~(i < m)
    <3>1. i + 1 \in 1..Len(q) /\ p[i] = q[i + 1] /\ u[i] = w[i + 1]
      BY <1>2, <1>9, <1>10, <2>3
    <3> QED
      BY <1>6, <2>1, <3>1
  <2> QED
    BY <2>2, <2>3
<1>12. Len(u) = Len(v) /\ Len(v) = Len(q) - 1
  BY <1>2, <1>7, <1>9
<1>13. u = v
  BY <1>7, <1>9, <1>11, <1>12
<1> QED
  BY <1>4, <1>5, <1>13 DEF q, w, p, v, u

LEMMA MinIs ==
    ASSUME NEW T \in SUBSET Nat, NEW m \in T, \A y \in T : m <= y
    PROVE  Min(T) = m /\ SeenIds!Min(T) = m /\ SeenIds!Abstract!Min(T) = m
<1>1. \A x \in T : (\A y \in T : x <= y) => x = m
  OBVIOUS
<1>2. \E x \in T : \A y \in T : x <= y
  OBVIOUS
<1>3. Min(T) \in T /\ \A y \in T : Min(T) <= y
  BY <1>2, Zenon DEF Min
<1>4. Min(T) = m
  BY <1>1, <1>3
<1> QED
  BY <1>4, SameOperators

LEMMA OneLess ==
    \A S : \A x \in S : IsFiniteSet(S) => Cardinality(S \ {x}) = Cardinality(S) - 1
<1> SUFFICES ASSUME NEW S, NEW x \in S, IsFiniteSet(S) PROVE Cardinality(S \ {x}) = Cardinality(S) - 1
  OBVIOUS
<1> QED
  BY FS_RemoveElement

\* The queue of a scope is as long as the scope has ids.
LEMMA OrderLength ==
    ASSUME NEW w, IdsSound(w)
    PROVE  /\ IsFiniteSet(DOMAIN w.ids) /\ Cardinality(DOMAIN w.ids) = Len(w.order)
           /\ Len(w.order) \in Nat
<1> DEFINE n == Len(w.order)
           f == [i \in 1..n |-> w.order[i][1]]
<1>1. n \in Nat /\ DOMAIN w.order = 1..n
  BY DEF IdsSound
<1>2. f \in [1..n -> DOMAIN w.ids]
  BY <1>1 DEF IdsSound, SeenIds!Live
<1>3. ASSUME NEW i \in 1..n, NEW j \in 1..n, f[i] = f[j] PROVE i = j
  <2>1. w.order[i][1] = w.order[j][1]
    BY <1>3
  <2>2. w.order[i][2] = w.order[j][2] /\ w.order[i][2] \in Nat
    <3>1. SeenIds!Live(w, w.order[i]) /\ SeenIds!Live(w, w.order[j])
      BY <1>1 DEF IdsSound
    <3>2. w.order[i] \in Ids \X Nat
      BY <1>1 DEF IdsSound
    <3>3. w.order[i][2] = w.ids[w.order[i][1]].generation /\ w.order[j][2] = w.ids[w.order[j][1]].generation
      BY <3>1 DEF SeenIds!Live
    <3> QED
      BY <2>1, <3>2, <3>3
  <2>3. ~(i < j) /\ ~(j < i)
    BY <1>1, <2>2 DEF IdsSound
  <2> QED
    BY <1>1, <2>3
<1>4. \A id \in DOMAIN w.ids : \E i \in 1..n : f[i] = id
  BY <1>1 DEF IdsSound
<1> HIDE DEF f
<1>5. f \in Bijection(1..n, DOMAIN w.ids)
  BY <1>2, <1>3, <1>4 DEF Bijection, Injection, Surjection, IsInjective
<1>6. IsFiniteSet(1..n) /\ Cardinality(1..n) = n
  <2>1. 1 \in Int /\ n \in Int
    BY <1>1
  <2>2. IsFiniteSet(1..n) /\ Cardinality(1..n) = IF 1 > n THEN 0 ELSE n - 1 + 1
    BY <2>1, FS_Interval
  <2> QED
    BY <1>1, <2>2
<1>7. ExistsBijection(1..n, DOMAIN w.ids)
  BY <1>5 DEF ExistsBijection
<1> QED
  BY <1>1, <1>6, <1>7, FS_Bijection

\* A scope that keeps its ids and their order.
LEMMA SameIds ==
    ASSUME NEW w, IdsSound(w), NEW v, v = [ids |-> v.ids, order |-> v.order],
           DOMAIN v.ids = DOMAIN w.ids, \A id \in DOMAIN v.ids : v.ids[id] = w.ids[id],
           v.order = w.order
    PROVE  IdsSound(v)
BY DEF IdsSound, SeenIds!Live

\* v has ids of w with their entries.
Entries(v, w) == \A id \in DOMAIN v.ids : v.ids[id] = w.ids[id]

\* v is w without its oldest id and the record of it.
Aged(w, v) ==
    /\ w.order # <<>> /\ v = [ids |-> v.ids, order |-> v.order]
    /\ DOMAIN v.ids = DOMAIN w.ids \ {w.order[1][1]} /\ Entries(v, w)
    /\ v.order = SubSeq(w.order, 2, Len(w.order))

LEMMA OldestGone == ASSUME NEW w, IdsSound(w), NEW v, Aged(w, v) PROVE IdsSound(v)
<1>0. /\ w.order # <<>> /\ v = [ids |-> v.ids, order |-> v.order]
      /\ DOMAIN v.ids = DOMAIN w.ids \ {w.order[1][1]}
      /\ v.order = SubSeq(w.order, 2, Len(w.order))
  BY DEF Aged
<1>7. \A id \in DOMAIN v.ids : v.ids[id] = w.ids[id]
  BY DEF Aged, Entries
<1>1. w.order \in Seq(Ids \X Nat) /\ Len(w.order) \in Nat /\ Len(w.order) # 0
  BY <1>0 DEF IdsSound
<1>2. /\ v.order \in Seq(Ids \X Nat) /\ Len(v.order) = Len(w.order) - 1
      /\ \A i \in 1..(Len(w.order) - 1) : v.order[i] = w.order[i + 1]
  <2>1. v.order = Tail(w.order)
    BY <1>0, <1>1
  <2> QED
    BY <1>1, <2>1
<1>3. DOMAIN v.order = 1..(Len(w.order) - 1) /\ DOMAIN w.order = 1..Len(w.order)
  BY <1>1, <1>2
<1>4. ASSUME NEW i \in DOMAIN v.order
      PROVE  SeenIds!Live(v, v.order[i]) /\ i + 1 \in DOMAIN w.order /\ v.order[i] = w.order[i + 1]
  <2>1. i + 1 \in DOMAIN w.order /\ 1 \in DOMAIN w.order /\ v.order[i] = w.order[i + 1] /\ 1 < i + 1
    <3>1. i \in 1..(Len(w.order) - 1)
      BY <1>3
    <3>2. i + 1 \in 1..Len(w.order) /\ 1 \in 1..Len(w.order) /\ 1 < i + 1
      BY <1>1, <3>1
    <3> QED
      BY <1>2, <1>3, <3>1, <3>2
  <2>2. SeenIds!Live(w, w.order[i + 1]) /\ SeenIds!Live(w, w.order[1]) /\ w.order[1][2] < w.order[i + 1][2]
        /\ w.order[1][2] \in Nat
    BY <1>1, <2>1 DEF IdsSound
  <2>3. w.order[i + 1][1] # w.order[1][1]
    BY <2>2 DEF SeenIds!Live
  <2> QED
    BY <1>0, <1>7, <2>1, <2>2, <2>3 DEF SeenIds!Live
<1>5. ASSUME NEW id \in DOMAIN v.ids PROVE \E i \in DOMAIN v.order : v.order[i][1] = id
  <2>1. PICK i \in DOMAIN w.order : w.order[i][1] = id
    BY <1>0 DEF IdsSound
  <2>2. i # 1
    BY <1>0, <2>1
  <2>3. i - 1 \in DOMAIN v.order /\ v.order[i - 1] = w.order[i]
    <3>1. i \in 1..Len(w.order)
      BY <1>3
    <3>2. i - 1 \in 1..(Len(w.order) - 1) /\ (i - 1) + 1 = i
      BY <1>1, <2>2, <3>1
    <3> QED
      BY <1>2, <1>3, <3>2
  <2> QED
    BY <2>1, <2>3
<1>6. ASSUME NEW i \in DOMAIN v.order, NEW j \in DOMAIN v.order, i < j PROVE v.order[i][2] < v.order[j][2]
  <2>1. i + 1 < j + 1
    BY <1>3, <1>6
  <2> QED
    BY <1>4, <2>1 DEF IdsSound
<1> QED
  BY <1>0, <1>7, <1>2, <1>4, <1>5, <1>6 DEF IdsSound

\* What EvictScope leaves of a scope with at most one id too many.
Evicted(w, v) ==
    IF Cardinality(DOMAIN w.ids) <= MaxPerScope
    THEN /\ v = [ids |-> v.ids, order |-> v.order] /\ Entries(v, w)
         /\ DOMAIN v.ids = DOMAIN w.ids /\ v.order = w.order
    ELSE Aged(w, v)

LEMMA EvictScopeIs ==
    ASSUME NEW w, IdsSound(w), Cardinality(DOMAIN w.ids) <= MaxPerScope + 1
    PROVE  Evicted(w, SeenIds!EvictScope(w))
<1> DEFINE n == Len(w.order)
           Gone(i) == SeenIds!LiveIds(w, w.order, i)
           Size(i) == Cardinality(DOMAIN w.ids \ Gone(i))
           T == {i \in 0..n : Size(i) <= MaxPerScope} \cup {n}
           k == Min(T)
           v == SeenIds!EvictScope(w)
<1>1. /\ IsFiniteSet(DOMAIN w.ids) /\ Cardinality(DOMAIN w.ids) = n /\ n \in Nat /\ DOMAIN w.order = 1..n
      /\ w.order \in Seq(Ids \X Nat)
  BY OrderLength DEF IdsSound
<1>2. v = [ids |-> [x \in DOMAIN w.ids \ Gone(k) |-> w.ids[x]], order |-> SubSeq(w.order, k + 1, n)]
  <2>1. SeenIds!Shortest(n, LAMBDA i : SeenIds!Cardinality(DOMAIN w.ids \ Gone(i)) <= MaxPerScope)
            = SeenIds!Min({i \in 0..n : SeenIds!Cardinality(DOMAIN w.ids \ Gone(i)) <= MaxPerScope} \cup {n})
    BY DEF SeenIds!Shortest
  <2>2. {i \in 0..n : SeenIds!Cardinality(DOMAIN w.ids \ Gone(i)) <= MaxPerScope} \cup {n} = T
    <3>1. \A S : SeenIds!Cardinality(S) = Cardinality(S)
      BY SameOperators
    <3> HIDE DEF Gone, n
    <3> QED
      BY <3>1
  <2>3. SeenIds!Min(T) = k
    BY SameOperators
  <2>4. SeenIds!Shortest(n, LAMBDA i : SeenIds!Cardinality(DOMAIN w.ids \ Gone(i)) <= MaxPerScope) = k
    <3> HIDE DEF T, k
    <3> QED
      BY <2>1, <2>2, <2>3
  <2> HIDE DEF T, k
  <2> QED
    BY <2>4 DEF SeenIds!EvictScope, SeenIds!Without, SeenIds!Restrict
<1>3. Gone(0) = {}
  BY DEF SeenIds!LiveIds
<1>4. Size(0) = n
  <2>1. DOMAIN w.ids \ Gone(0) = DOMAIN w.ids
    BY <1>3
  <2> QED
    BY <1>1, <2>1
<1>5. ASSUME n >= 1 PROVE Gone(1) = {w.order[1][1]} /\ Size(1) = n - 1
  <2>0. 1 \in DOMAIN w.order
    BY <1>1, <1>5
  <2>1. SeenIds!Live(w, w.order[1]) /\ 1..1 = {1}
    BY <2>0 DEF IdsSound
  <2>2. Gone(1) = {w.order[1][1]} /\ w.order[1][1] \in DOMAIN w.ids
    BY <2>1 DEF SeenIds!LiveIds, SeenIds!Live
  <2>3. Cardinality(DOMAIN w.ids \ {w.order[1][1]}) = n - 1
    <3>1. Cardinality(DOMAIN w.ids \ {w.order[1][1]}) = Cardinality(DOMAIN w.ids) - 1
      BY <1>1, <2>2, OneLess, Zenon
    <3> QED
      BY <1>1, <3>1
  <2> HIDE DEF Gone
  <2> QED
    BY <2>2, <2>3
<1> HIDE DEF Size, Gone
<1>6. CASE n <= MaxPerScope
  <2>1. 0 \in T
    BY <1>1, <1>4, <1>6
  <2>2. T \in SUBSET Nat /\ \A y \in T : 0 <= y
    BY <1>1
  <2> HIDE DEF T
  <2>3. k = 0
    BY <2>1, <2>2, MinIs
  <2>4. SubSeq(w.order, 1, n) = w.order
    BY <1>1
  <2> HIDE DEF k
  <2>5. v = [ids |-> [x \in DOMAIN w.ids |-> w.ids[x]], order |-> w.order]
    <3>1. DOMAIN w.ids \ Gone(k) = DOMAIN w.ids
      BY <1>3, <2>3
    <3>2. k + 1 = 1
      BY <2>3
    <3> QED
      BY <1>2, <2>4, <3>1, <3>2
  <2> QED
    BY <1>1, <1>6, <2>5 DEF Evicted, Entries
<1>7. CASE ~(n <= MaxPerScope)
  <2>1. n = MaxPerScope + 1 /\ n >= 1 /\ MaxPerScope \in Nat
    BY <1>1, <1>7, SeenAssumption
  <2>2. Gone(1) = {w.order[1][1]} /\ Size(1) = MaxPerScope
    BY <1>5, <2>1
  <2>3. 1 \in T
    BY <1>1, <2>1, <2>2
  <2>4. 0 \notin T
    BY <1>4, <1>7, <2>1
  <2>5. T \in SUBSET Nat
    BY <1>1
  <2> HIDE DEF T
  <2>6. \A y \in T : 1 <= y
    BY <2>4, <2>5
  <2>7. k = 1
    BY <2>3, <2>5, <2>6, MinIs
  <2> HIDE DEF k
  <2>8. v = [ids |-> [x \in DOMAIN w.ids \ {w.order[1][1]} |-> w.ids[x]], order |-> SubSeq(w.order, 2, n)]
    <3>1. DOMAIN w.ids \ Gone(k) = DOMAIN w.ids \ {w.order[1][1]}
      BY <2>2, <2>7
    <3>2. k + 1 = 2
      BY <2>7
    <3> QED
      BY <1>2, <3>1, <3>2
  <2>9. w.order # <<>>
    BY <2>1
  <2> QED
    BY <1>1, <1>7, <2>8, <2>9 DEF Evicted, Aged, Entries
<1> QED
  BY <1>6, <1>7

\* Forgetting nothing leaves the window as it is.
LEMMA DropsNone ==
    ASSUME NEW s, SeenShaped(s), QueueSound(s), NEW t, Drops(s, t, {}), Shortens(s, t)
    PROVE  /\ QueueSound(t) /\ SeenIds!LiveRecords(t) = SeenIds!LiveRecords(s)
           /\ SeenIds!WindowIn(t) = SeenIds!WindowIn(s)
<1> DEFINE q == SeenIds!LiveRecords(s)
           none == {}
<1>0. Drops(s, t, none)
  OBVIOUS
<1> HIDE DEF none
<1>1. QueueSound(t) /\ LiveOf(t) = {r \in LiveOf(s) : <<r[1], r[2]>> \notin none}
      /\ \A r \in LiveOf(t) : SeenIds!Observation(t, r) = SeenIds!Observation(s, r)
  BY <1>0, DropsLive
<1>2. LiveOf(t) = LiveOf(s) /\ SeenShaped(t)
  BY <1>1 DEF Drops, none
<1>3. q \in Seq(SeenRecords) /\ Rising(q, Generation) /\ ToSet(q) = LiveOf(t)
  BY <1>2, LiveRecordsAre
<1>4. SeenIds!LiveRecords(t) = q
  BY <1>1, <1>2, <1>3, LiveRecordsAre
<1>5. \A i \in DOMAIN q : q[i] \in LiveOf(t)
  BY <1>3 DEF ToSet
<1>6. SeenIds!WindowIn(s) = [i \in DOMAIN q |-> SeenIds!Observation(s, q[i])]
  BY DEF SeenIds!WindowIn
<1>7. SeenIds!WindowIn(t) = [i \in DOMAIN q |-> SeenIds!Observation(t, q[i])]
  BY <1>4 DEF SeenIds!WindowIn
<1> HIDE DEF q
<1>8. \A i \in DOMAIN q : SeenIds!Observation(t, q[i]) = SeenIds!Observation(s, q[i])
  BY <1>1, <1>5
<1>9. SeenIds!WindowIn(t) = SeenIds!WindowIn(s)
  BY <1>6, <1>7, <1>8
<1> QED
  BY <1>1, <1>4, <1>9 DEF q

-----------------------------------------------------------------------------
(* observe_with_match: an id comes *)

WithId(w, id, entry) ==
    [ids |-> SeenIds!With(w.ids, id, entry), order |-> Append(w.order, <<id, entry.generation>>)]

LEMMA WithIs ==
    ASSUME NEW f, NEW x, NEW v
    PROVE  /\ DOMAIN SeenIds!With(f, x, v) = DOMAIN f \cup {x}
           /\ SeenIds!With(f, x, v)[x] = v
           /\ \A y \in DOMAIN f : y # x => SeenIds!With(f, x, v)[y] = f[y]
BY DEF SeenIds!With

\* A scope with one more id, younger than all it has.
LEMMA YoungerSound ==
    ASSUME NEW w, IdsSound(w), NEW id \in Ids, id \notin DOMAIN w.ids,
           NEW entry \in [generation : Nat, matched : BOOLEAN],
           \A x \in DOMAIN w.ids : w.ids[x].generation < entry.generation
    PROVE  IdsSound(WithId(w, id, entry))
<1> DEFINE v == WithId(w, id, entry)
           n == Len(w.order)
<1>1. w.order \in Seq(Ids \X Nat) /\ n \in Nat /\ DOMAIN w.order = 1..n
  BY DEF IdsSound
<1>2. entry.generation \in Nat /\ <<id, entry.generation>> \in Ids \X Nat
  OBVIOUS
<1>3. /\ v = [ids |-> v.ids, order |-> v.order]
      /\ DOMAIN v.ids = DOMAIN w.ids \cup {id} /\ v.ids[id] = entry
      /\ \A x \in DOMAIN w.ids : v.ids[x] = w.ids[x]
  <2>1. v = [ids |-> v.ids, order |-> v.order] /\ v.ids = SeenIds!With(w.ids, id, entry)
    BY DEF WithId
  <2> HIDE DEF v
  <2> QED
    BY <2>1 DEF SeenIds!With
<1>4. v.order = Append(w.order, <<id, entry.generation>>)
  BY DEF WithId
<1>5. /\ v.order \in Seq(Ids \X Nat) /\ Len(v.order) = n + 1
      /\ v.order[n + 1] = <<id, entry.generation>> /\ \A i \in 1..n : v.order[i] = w.order[i]
  BY <1>1, <1>2, <1>4
<1>6. DOMAIN v.order = 1..(n + 1)
  BY <1>5
<1> HIDE DEF v, n
<1>7. ASSUME NEW i \in 1..n
      PROVE  /\ SeenIds!Live(w, w.order[i]) /\ w.order[i][1] \in DOMAIN w.ids
             /\ w.order[i][2] < entry.generation
  BY <1>1 DEF IdsSound, SeenIds!Live
<1>8. ASSUME NEW i \in DOMAIN v.order PROVE SeenIds!Live(v, v.order[i])
  <2>1. CASE i = n + 1
    BY <1>3, <1>5, <2>1 DEF SeenIds!Live
  <2>2. CASE i \in 1..n
    BY <1>3, <1>5, <1>7, <2>2 DEF SeenIds!Live
  <2> QED
    BY <1>1, <1>6, <2>1, <2>2
<1>9. ASSUME NEW x \in DOMAIN v.ids PROVE \E i \in DOMAIN v.order : v.order[i][1] = x
  <2>1. CASE x = id
    BY <1>1, <1>5, <1>6, <2>1
  <2>2. CASE x \in DOMAIN w.ids
    <3>1. PICK i \in 1..n : w.order[i][1] = x
      BY <1>1, <2>2 DEF IdsSound
    <3>2. i \in DOMAIN v.order /\ v.order[i] = w.order[i]
      BY <1>1, <1>5, <1>6
    <3> QED
      BY <3>1, <3>2
  <2> QED
    BY <1>3, <2>1, <2>2
<1>10. ASSUME NEW i \in DOMAIN v.order, NEW j \in DOMAIN v.order, i < j
       PROVE  v.order[i][2] < v.order[j][2]
  <2>1. i \in 1..n
    BY <1>1, <1>6, <1>10
  <2>2. CASE j = n + 1
    BY <1>5, <1>7, <2>1, <2>2
  <2>3. CASE j \in 1..n
    BY <1>1, <1>5, <1>10, <2>1, <2>3 DEF IdsSound
  <2> QED
    BY <1>1, <1>6, <2>2, <2>3
<1>11. DOMAIN v.ids \in SUBSET Ids /\ \A x \in DOMAIN v.ids : v.ids[x] \in [generation : Nat, matched : BOOLEAN]
  BY <1>3 DEF IdsSound
<1>12. IdsSound(v)
  BY <1>3, <1>5, <1>8, <1>9, <1>10, <1>11 DEF IdsSound
<1> QED
  BY <1>12 DEF v

\* Every id known is older than the next generation.
LEMMA KnownOlder ==
    ASSUME NEW s, SeenShaped(s), QueueSound(s), NEW scope \in DOMAIN s.scopes,
           NEW id \in DOMAIN s.scopes[scope].ids
    PROVE  s.scopes[scope].ids[id].generation < s.next
<1> DEFINE r == RecordOf(s, <<scope, id>>)
<1>1. <<scope, id>> \in Known(s)
  BY KnownIs
<1>2. r \in ToSet(s.globalOrder)
  BY <1>1 DEF QueueSound, LiveOf
<1>3. r[3] = s.scopes[scope].ids[id].generation
  BY DEF RecordOf
<1> HIDE DEF r
<1>4. PICK i \in DOMAIN s.globalOrder : r = s.globalOrder[i]
  BY <1>2 DEF ToSet
<1> QED
  BY <1>3, <1>4 DEF QueueSound

\* s with `entry` as the observation of id under scope.
AddedTo(s, scope, id, entry) ==
    [scopes |-> SeenIds!With(s.scopes, scope, WithId(SeenIds!WindowOf(s, scope), id, entry)),
     globalOrder |-> Append(s.globalOrder, <<scope, id, s.next>>),
     total |-> s.total + 1, next |-> s.next + 1]

LEMMA AddedSound ==
    ASSUME NEW s, SeenSound(s), NEW scope \in SeenScopes, NEW id \in Ids,
           ~SeenIds!Seen(s, scope, id), NEW matched \in BOOLEAN,
           NEW entry, entry = [generation |-> s.next, matched |-> matched],
           NEW t, t = AddedTo(s, scope, id, entry)
    PROVE  /\ SeenSound(t) /\ Known(t) = Known(s) \cup {<<scope, id>>}
           /\ DOMAIN t.scopes = DOMAIN s.scopes \cup {scope}
           /\ \A x \in DOMAIN s.scopes : x # scope => t.scopes[x] = s.scopes[x]
           /\ DOMAIN t.scopes[scope].ids = DOMAIN SeenIds!WindowOf(s, scope).ids \cup {id}
           /\ id \notin DOMAIN SeenIds!WindowOf(s, scope).ids
           /\ SeenIds!WindowIn(t) = Append(SeenIds!WindowIn(s), [scope |-> scope, id |-> id, matched |-> matched])
<1> DEFINE w == SeenIds!WindowOf(s, scope)
           v == WithId(w, id, entry)
           new == <<scope, id>>
           r == <<scope, id, s.next>>
           g == s.globalOrder
<1>0. SeenShaped(s) /\ QueueSound(s) /\ s.next \in Nat /\ entry.generation = s.next /\ entry.matched = matched
      /\ entry \in [generation : Nat, matched : BOOLEAN] /\ r \in SeenRecords /\ r[3] = s.next
  BY DEF SeenSound, SeenShaped, SeenRecords
<1>1. /\ t = [scopes |-> t.scopes, globalOrder |-> t.globalOrder, total |-> t.total, next |-> t.next]
      /\ t.globalOrder = Append(g, r) /\ t.total = s.total + 1 /\ t.next = s.next + 1
      /\ t.scopes = SeenIds!With(s.scopes, scope, v)
  BY DEF AddedTo
<1>2. IdsSound(w) /\ id \notin DOMAIN w.ids
  <2>1. id \notin DOMAIN w.ids
    BY DEF SeenIds!Seen
  <2>2. CASE scope \in DOMAIN s.scopes
    BY <1>0, <2>1, <2>2 DEF SeenIds!WindowOf, SeenShaped
  <2>3. CASE scope \notin DOMAIN s.scopes
    <3>1. w = SeenIds!NoWindow
      BY <2>3 DEF SeenIds!WindowOf
    <3>2. IdsSound(SeenIds!NoWindow)
      BY DEF SeenIds!NoWindow, IdsSound
    <3> QED
      BY <2>1, <3>1, <3>2
  <2> QED
    BY <2>2, <2>3
<1>3. \A x \in DOMAIN w.ids : w.ids[x].generation < s.next
  <2>1. CASE scope \in DOMAIN s.scopes
    BY <1>0, <2>1, KnownOlder DEF SeenIds!WindowOf
  <2>2. CASE scope \notin DOMAIN s.scopes
    BY <2>2 DEF SeenIds!WindowOf, SeenIds!NoWindow
  <2> QED
    BY <2>1, <2>2
<1> HIDE DEF w
<1>4. IdsSound(v)
  BY <1>0, <1>2, <1>3, YoungerSound
<1>5. /\ DOMAIN v.ids = DOMAIN w.ids \cup {id} /\ v.ids[id] = entry
      /\ \A x \in DOMAIN w.ids : x # id => v.ids[x] = w.ids[x]
  <2>1. v.ids = SeenIds!With(w.ids, id, entry)
    BY DEF WithId
  <2> HIDE DEF v
  <2> QED
    BY <2>1 DEF SeenIds!With
<1> HIDE DEF v
<1>6. /\ DOMAIN t.scopes = DOMAIN s.scopes \cup {scope} /\ t.scopes[scope] = v
      /\ \A x \in DOMAIN s.scopes : x # scope => t.scopes[x] = s.scopes[x]
  BY <1>1 DEF SeenIds!With
<1>7. SeenShaped(t)
  <2>1. ASSUME NEW x \in DOMAIN t.scopes PROVE IdsSound(t.scopes[x])
    <3>1. CASE x = scope
      BY <1>4, <1>6, <3>1
    <3>2. CASE x # scope
      BY <1>0, <1>6, <3>2 DEF SeenShaped
    <3> QED
      BY <3>1, <3>2
  <2>2. DOMAIN t.scopes \in SUBSET SeenScopes /\ t.next \in Nat
    BY <1>0, <1>1, <1>6 DEF SeenShaped
  <2> QED
    BY <1>1, <2>1, <2>2 DEF SeenShaped
<1>8. ASSUME NEW h \in SeenScopes \X Ids
      PROVE  /\ h \in Known(t) <=> h \in Known(s) \/ h = new
             /\ h \in Known(s) => t.scopes[h[1]].ids[h[2]] = s.scopes[h[1]].ids[h[2]]
  <2>0. h = <<h[1], h[2]>>
    OBVIOUS
  <2>1. h \in Known(t) <=> h[1] \in DOMAIN t.scopes /\ h[2] \in DOMAIN t.scopes[h[1]].ids
    BY <1>7, KnownIs DEF Known
  <2>2. h \in Known(s) <=> h[1] \in DOMAIN s.scopes /\ h[2] \in DOMAIN s.scopes[h[1]].ids
    BY <1>0, KnownIs DEF Known
  <2>3. CASE h[1] # scope
    BY <1>6, <2>0, <2>1, <2>2, <2>3
  <2>4. CASE h[1] = scope /\ scope \in DOMAIN s.scopes
    <3>1. w = s.scopes[scope]
      BY <2>4 DEF w, SeenIds!WindowOf
    <3>2. h = new <=> h[2] = id
      BY <2>0, <2>4
    <3> QED
      BY <1>2, <1>5, <1>6, <2>1, <2>2, <2>4, <3>1, <3>2
  <2>5. CASE h[1] = scope /\ scope \notin DOMAIN s.scopes
    <3>1. DOMAIN w.ids = {}
      BY <2>5 DEF w, SeenIds!WindowOf, SeenIds!NoWindow
    <3>2. h = new <=> h[2] = id
      BY <2>0, <2>5
    <3> QED
      BY <1>5, <1>6, <2>1, <2>2, <2>5, <3>1, <3>2
  <2> QED
    BY <2>3, <2>4, <2>5
<1>9. Known(t) = Known(s) \cup {new} /\ new \notin Known(s)
  <2>1. Known(t) \subseteq SeenScopes \X Ids /\ Known(s) \subseteq SeenScopes \X Ids /\ new \in SeenScopes \X Ids
    BY DEF Known
  <2>2. new \notin Known(s)
    BY DEF Known
  <2> HIDE DEF new
  <2> QED
    BY <1>8, <2>1, <2>2
<1>10. RecordOf(t, new) = r /\ \A h \in Known(s) : RecordOf(t, h) = RecordOf(s, h)
  <2>1. RecordOf(t, new) = r
    BY <1>0, <1>5, <1>6 DEF RecordOf
  <2>2. Known(s) \subseteq SeenScopes \X Ids
    BY DEF Known
  <2> QED
    BY <1>8, <2>1, <2>2 DEF RecordOf
<1>11. LiveOf(t) = LiveOf(s) \cup {r}
  BY <1>9, <1>10 DEF LiveOf
<1>12. g \in Seq(SeenRecords) /\ Rising(g, Generation) /\ \A i \in DOMAIN g : Generation[g[i]] < Generation[r]
  <2>1. g \in Seq(SeenRecords) /\ Rising(g, Generation) /\ \A i \in DOMAIN g : g[i][3] < s.next /\ g[i] \in SeenRecords
    BY <1>0 DEF QueueSound
  <2> QED
    BY <1>0, <2>1, GenerationType
<1>13. /\ t.globalOrder \in Seq(SeenRecords) /\ Rising(t.globalOrder, Generation)
       /\ ToSet(t.globalOrder) = ToSet(g) \cup {r}
  <2>1. r \in SeenRecords
    BY <1>0
  <2> HIDE DEF r, g
  <2>2. /\ Append(g, r) \in Seq(SeenRecords) /\ Rising(Append(g, r), Generation)
        /\ ToSet(Append(g, r)) = ToSet(g) \cup {r}
    BY <1>12, <2>1, GenerationType, RisingAppend
  <2> QED
    BY <1>1, <2>2
<1>14. QueueSound(t)
  <2>1. ASSUME NEW i \in DOMAIN t.globalOrder PROVE t.globalOrder[i][3] < t.next
    <3>1. t.globalOrder[i] \in ToSet(g) \cup {r}
      BY <1>13 DEF ToSet
    <3>2. CASE t.globalOrder[i] = r
      BY <1>0, <1>1, <3>2
    <3>3. CASE t.globalOrder[i] \in ToSet(g)
      <4>1. PICK j \in DOMAIN g : t.globalOrder[i] = g[j]
        BY <3>3 DEF ToSet
      <4>2. g[j][3] < s.next /\ g[j][3] \in Nat
        BY <1>0, <1>12 DEF QueueSound, SeenRecords
      <4> QED
        BY <1>0, <1>1, <4>1, <4>2
    <3> QED
      BY <3>1, <3>2, <3>3
  <2>2. LiveOf(t) \subseteq ToSet(t.globalOrder)
    BY <1>0, <1>11, <1>13 DEF QueueSound
  <2> QED
    BY <1>13, <2>1, <2>2 DEF QueueSound
<1>15. t.total = Cardinality(Known(t))
  <2>1. Cardinality(Known(s) \cup {new}) = Cardinality(Known(s)) + 1
    BY <1>9, KnownFinite, FS_AddElement
  <2> QED
    BY <1>1, <1>9, <2>1 DEF SeenSound
<1> DEFINE q == SeenIds!LiveRecords(s)
           p == Append(q, r)
<1>16. q \in Seq(SeenRecords) /\ Rising(q, Generation) /\ ToSet(q) = LiveOf(s)
  BY <1>0, LiveRecordsAre
<1>17. \A i \in DOMAIN q : Generation[q[i]] < Generation[r]
  <2> SUFFICES ASSUME NEW i \in DOMAIN q PROVE Generation[q[i]] < Generation[r]
    OBVIOUS
  <2>1. q[i] \in ToSet(g)
    BY <1>0, <1>16 DEF ToSet, QueueSound
  <2>2. PICK j \in DOMAIN g : q[i] = g[j]
    BY <2>1 DEF ToSet
  <2> QED
    BY <1>12, <2>2
<1>18. p \in Seq(SeenRecords) /\ Rising(p, Generation) /\ ToSet(p) = LiveOf(t)
  <2> HIDE DEF q, r
  <2>1. p \in Seq(SeenRecords) /\ Rising(p, Generation) /\ ToSet(p) = ToSet(q) \cup {r}
    BY <1>0, <1>16, <1>17, GenerationType, RisingAppend
  <2> QED
    BY <1>11, <1>16, <2>1
<1>19. SeenIds!LiveRecords(t) = p
  BY <1>7, <1>14, <1>18, LiveRecordsAre
<1> DEFINE W == SeenIds!WindowIn(s)
           V == SeenIds!WindowIn(t)
           o == [scope |-> scope, id |-> id, matched |-> matched]
<1>20. /\ W = [i \in DOMAIN q |-> SeenIds!Observation(s, q[i])]
       /\ V = [i \in DOMAIN p |-> SeenIds!Observation(t, p[i])]
  BY <1>19 DEF SeenIds!WindowIn
<1>21. SeenIds!Observation(t, r) = o
  BY <1>0, <1>5, <1>6 DEF SeenIds!Observation
<1>22. \A i \in DOMAIN q : SeenIds!Observation(t, q[i]) = SeenIds!Observation(s, q[i])
  <2> SUFFICES ASSUME NEW i \in DOMAIN q PROVE SeenIds!Observation(t, q[i]) = SeenIds!Observation(s, q[i])
    OBVIOUS
  <2>1. PICK h \in Known(s) : q[i] = RecordOf(s, h)
    BY <1>16 DEF ToSet, LiveOf
  <2>2. q[i][1] = h[1] /\ q[i][2] = h[2] /\ h \in SeenScopes \X Ids
    BY <2>1 DEF RecordOf, Known
  <2> QED
    BY <1>8, <2>2 DEF SeenIds!Observation
<1>23. V = Append(W, o)
  <2> HIDE DEF r, o
  <2>1. /\ DOMAIN q = 1..Len(q) /\ Len(q) \in Nat /\ DOMAIN p = 1..(Len(q) + 1) /\ p[Len(q) + 1] = r
        /\ \A i \in 1..Len(q) : p[i] = q[i]
    BY <1>0, <1>16
  <2> HIDE DEF q, p, V, W
  <2> DEFINE A == [i \in 1..(Len(q) + 1) |-> IF i = Len(q) + 1 THEN o ELSE W[i]]
  <2> DEFINE X == {o} \cup {W[i] : i \in 1..Len(q)}
  <2>2. W \in Seq(X) /\ Len(W) = Len(q) /\ o \in X
    <3>1. W \in [1..Len(q) -> X]
      BY <1>20, <2>1
    <3> HIDE DEF X
    <3>2. W \in Seq(X) /\ Len(W) = Len(q)
      BY <2>1, <3>1, NumberedIsSeq
    <3> QED
      BY <3>2 DEF X
  <2> HIDE DEF X
  <2>3. Append(W, o) = A
    <3> DEFINE B == Append(W, o)
    <3>1. /\ B \in Seq(X) /\ Len(B) = Len(q) + 1 /\ B[Len(q) + 1] = o
          /\ \A i \in 1..Len(q) : B[i] = W[i]
      BY <2>1, <2>2
    <3> HIDE DEF B
    <3>2. B = [i \in 1..(Len(q) + 1) |-> B[i]]
      BY <3>1
    <3>3. \A i \in 1..(Len(q) + 1) : B[i] = A[i]
      BY <2>1, <3>1
    <3> HIDE DEF A
    <3>4. B = A
      BY <3>2, <3>3 DEF A
    <3> QED
      BY <3>4 DEF B
  <2>4. ASSUME NEW i \in 1..(Len(q) + 1) PROVE V[i] = A[i]
    <3>1. CASE i = Len(q) + 1
      BY <1>20, <1>21, <2>1, <3>1
    <3>2. CASE i # Len(q) + 1
      <4>1. i \in 1..Len(q) /\ p[i] = q[i] /\ W[i] = SeenIds!Observation(s, q[i])
        BY <1>20, <2>1, <3>2
      <4>2. V[i] = SeenIds!Observation(t, q[i])
        BY <1>20, <2>1, <4>1
      <4>3. V[i] = W[i]
        BY <1>22, <2>1, <4>1, <4>2
      <4> QED
        BY <3>2, <4>3
    <3> QED
      BY <3>1, <3>2
  <2>5. V = [i \in 1..(Len(q) + 1) |-> V[i]]
    BY <1>20, <2>1
  <2> HIDE DEF A
  <2>6. V = A
    BY <2>4, <2>5 DEF A
  <2> QED
    BY <2>3, <2>6
<1>24. SeenSound(t)
  BY <1>7, <1>14, <1>15 DEF SeenSound
<1> QED
  BY <1>2, <1>5, <1>6, <1>9, <1>23, <1>24 DEF w

\* The place of an id that is known in the window, and what it says there.
LEMMA PlaceOf ==
    ASSUME NEW s, SeenShaped(s), QueueSound(s), NEW h \in Known(s)
    PROVE  \E m \in 1..Len(SeenIds!LiveRecords(s)) : SeenIds!LiveRecords(s)[m] = RecordOf(s, h)
<1>1. SeenIds!LiveRecords(s) \in Seq(SeenRecords) /\ ToSet(SeenIds!LiveRecords(s)) = LiveOf(s)
  BY LiveRecordsAre
<1>2. RecordOf(s, h) \in ToSet(SeenIds!LiveRecords(s))
  BY <1>1 DEF LiveOf
<1> QED
  BY <1>1, <1>2 DEF ToSet

\* Each place of the window is that of an id known.
LEMMA AtPlace ==
    ASSUME NEW s, SeenShaped(s), QueueSound(s), NEW i \in 1..Len(SeenIds!LiveRecords(s))
    PROVE  \E h \in Known(s) :
              /\ SeenIds!LiveRecords(s)[i] = RecordOf(s, h)
              /\ SeenIds!WindowIn(s)[i] = [scope |-> h[1], id |-> h[2], matched |-> s.scopes[h[1]].ids[h[2]].matched]
<1> DEFINE r == SeenIds!LiveRecords(s)[i]
<1>1. r \in LiveOf(s) /\ SeenIds!WindowIn(s)[i] = SeenIds!Observation(s, r)
  BY WindowIs
<1> HIDE DEF r
<1>2. PICK h \in Known(s) : r = RecordOf(s, h)
  BY <1>1 DEF LiveOf
<1>3. r[1] = h[1] /\ r[2] = h[2]
  BY <1>2 DEF RecordOf
<1>4. SeenIds!WindowIn(s)[i] = [scope |-> h[1], id |-> h[2], matched |-> s.scopes[h[1]].ids[h[2]].matched]
  BY <1>1, <1>3 DEF SeenIds!Observation
<1> QED
  BY <1>2, <1>4 DEF r

\* The window has a place for an id exactly when it is known, and the answer is
\* the same.
LEMMA SameAnswer ==
    ASSUME NEW s, SeenShaped(s), QueueSound(s), NEW scope \in SeenScopes, NEW id \in Ids
    PROVE  /\ SeenIds!Abstract!Places(scope, id, SeenIds!WindowIn(s)) # {} <=> SeenIds!Seen(s, scope, id)
           /\ SeenIds!Abstract!Answered(SeenIds!WindowIn(s), scope, id) = SeenIds!Answered(s, scope, id)
<1> DEFINE L == SeenIds!LiveRecords(s)
           W == SeenIds!WindowIn(s)
           P == SeenIds!Abstract!Places(scope, id, W)
           new == <<scope, id>>
<1>1. DOMAIN W = 1..Len(L)
  <2>1. W \in Seq({SeenIds!Observation(s, r) : r \in LiveOf(s)}) /\ Len(W) = Len(L)
    BY WindowIs
  <2> QED
    BY <2>1
<1>2. P = {i \in 1..Len(L) : W[i].scope = scope /\ W[i].id = id}
  BY <1>1 DEF SeenIds!Abstract!Places, SeenIds!Abstract!Of
<1>3. new \in Known(s) <=> SeenIds!Seen(s, scope, id)
  BY DEF Known
<1>4. ASSUME NEW i \in P PROVE new \in Known(s) /\ W[i].matched = s.scopes[scope].ids[id].matched
  <2>1. i \in 1..Len(L) /\ W[i].scope = scope /\ W[i].id = id
    BY <1>2
  <2>2. PICK h \in Known(s) : W[i] = [scope |-> h[1], id |-> h[2], matched |-> s.scopes[h[1]].ids[h[2]].matched]
    BY <2>1, AtPlace
  <2>3. h = <<h[1], h[2]>>
    BY KnownIs
  <2> HIDE DEF W, P, L
  <2>4. h[1] = scope /\ h[2] = id /\ W[i].matched = s.scopes[h[1]].ids[h[2]].matched
    BY <2>1, <2>2
  <2> QED
    BY <2>3, <2>4
<1>5. ASSUME new \in Known(s) PROVE P # {}
  <2>1. PICK i \in 1..Len(L) : L[i] = RecordOf(s, new)
    BY <1>5, PlaceOf
  <2>2. PICK h \in Known(s) : L[i] = RecordOf(s, h)
              /\ W[i] = [scope |-> h[1], id |-> h[2], matched |-> s.scopes[h[1]].ids[h[2]].matched]
    BY AtPlace
  <2> HIDE DEF W, P, L
  <2>3. h[1] = scope /\ h[2] = id
    BY <2>1, <2>2 DEF RecordOf
  <2>4. W[i].scope = scope /\ W[i].id = id
    BY <2>2, <2>3
  <2> QED
    BY <1>2, <2>4
<1>6. P # {} <=> SeenIds!Seen(s, scope, id)
  BY <1>3, <1>4, <1>5
<1>7. SeenIds!Abstract!Answered(W, scope, id) = SeenIds!Answered(s, scope, id)
  <2>1. CASE ~SeenIds!Seen(s, scope, id)
    <3>1. P = {}
      BY <1>6, <2>1
    <3> QED
      BY <2>1, <3>1 DEF SeenIds!Abstract!Answered, SeenIds!Answered, SeenIds!Abstract!First, SeenIds!First
  <2>2. CASE SeenIds!Seen(s, scope, id)
    <3>1. P # {}
      BY <1>6, <2>2
    <3>2. scope \in DOMAIN s.scopes /\ id \in DOMAIN s.scopes[scope].ids
      BY <2>2, KnownIs
    <3> DEFINE b == s.scopes[scope].ids[id].matched
    <3>3. b \in BOOLEAN
      BY <3>2 DEF SeenShaped, IdsSound
    <3>4. SeenIds!Answered(s, scope, id) = [first |-> FALSE, previouslyMatched |-> b]
      BY <2>2, <3>2 DEF SeenIds!Answered, SeenIds!WindowOf
    <3>5. SeenIds!Abstract!Answered(W, scope, id)
            = [first |-> FALSE, previouslyMatched |-> \E i \in P : W[i].matched]
      BY <3>1 DEF SeenIds!Abstract!Answered
    <3> HIDE DEF W, P, b
    <3>6. \A i \in P : W[i].matched = b
      BY <1>4 DEF b
    <3>7. (\E i \in P : W[i].matched) = b
      BY <3>1, <3>3, <3>6
    <3> QED
      BY <3>4, <3>5, <3>7
  <2> QED
    BY <2>1, <2>2
<1> QED
  BY <1>6, <1>7

\* The observations of one scope: as many as it has ids, and the first of them is
\* the front of its queue.
LEMMA OfScope ==
    ASSUME NEW s, SeenShaped(s), QueueSound(s), NEW scope \in DOMAIN s.scopes
    PROVE  /\ SeenIds!Abstract!Cardinality(SeenIds!Abstract!Of(scope, SeenIds!WindowIn(s)))
                = Cardinality(DOMAIN s.scopes[scope].ids)
           /\ \A i : i \in SeenIds!Abstract!Of(scope, SeenIds!WindowIn(s)) <=>
                i \in 1..Len(SeenIds!LiveRecords(s)) /\ SeenIds!LiveRecords(s)[i][1] = scope
<1> DEFINE L == SeenIds!LiveRecords(s)
           W == SeenIds!WindowIn(s)
           O == SeenIds!Abstract!Of(scope, W)
           ids == s.scopes[scope].ids
           f == [i \in O |-> L[i][2]]
<1>1. DOMAIN W = 1..Len(L)
  <2>1. W \in Seq({SeenIds!Observation(s, r) : r \in LiveOf(s)}) /\ Len(W) = Len(L)
    BY WindowIs
  <2> QED
    BY <2>1
<1>2. O = {i \in 1..Len(L) : W[i].scope = scope}
  BY <1>1 DEF SeenIds!Abstract!Of
<1>3. \A i \in 1..Len(L) : \E h \in Known(s) :
              /\ L[i] = RecordOf(s, h)
              /\ W[i] = [scope |-> h[1], id |-> h[2], matched |-> s.scopes[h[1]].ids[h[2]].matched]
  BY AtPlace
<1>4. L \in Seq(SeenRecords) /\ IsInjective(L)
  BY LiveRecordsAre, GenerationType, RisingInjective
<1>5. \A h \in Known(s) : \E i \in 1..Len(L) : L[i] = RecordOf(s, h)
  BY PlaceOf
<1> HIDE DEF L, W, O
<1>6. ASSUME NEW i \in 1..Len(L) PROVE W[i].scope = L[i][1]
  <2>1. PICK h \in Known(s) : /\ L[i] = RecordOf(s, h)
              /\ W[i] = [scope |-> h[1], id |-> h[2], matched |-> s.scopes[h[1]].ids[h[2]].matched]
    BY <1>3
  <2> QED
    BY <2>1 DEF RecordOf
<1>7. \A i : i \in O <=> i \in 1..Len(L) /\ L[i][1] = scope
  BY <1>2, <1>6
<1>8. ASSUME NEW i \in O PROVE L[i][2] \in DOMAIN ids /\ L[i] = RecordOf(s, <<scope, L[i][2]>>)
  <2>1. PICK h \in Known(s) : L[i] = RecordOf(s, h)
    BY <1>3, <1>7
  <2>2. L[i][1] = h[1] /\ L[i][2] = h[2] /\ L[i][1] = scope
    BY <1>7, <2>1 DEF RecordOf
  <2>3. h = <<scope, L[i][2]>> /\ h[2] \in DOMAIN s.scopes[h[1]].ids
    BY <2>2, KnownIs
  <2> QED
    BY <2>1, <2>2, <2>3
<1>9. ASSUME NEW i \in O, NEW j \in O, f[i] = f[j] PROVE i = j
  <2>1. L[i] = L[j]
    BY <1>8, <1>9
  <2> QED
    BY <1>4, <1>7, <2>1 DEF IsInjective
<1>10. ASSUME NEW x \in DOMAIN ids PROVE \E i \in O : f[i] = x
  <2>1. <<scope, x>> \in Known(s)
    BY KnownIs
  <2>2. PICK i \in 1..Len(L) : L[i] = RecordOf(s, <<scope, x>>)
    BY <1>5, <2>1
  <2>3. L[i][1] = scope /\ L[i][2] = x
    BY <2>2 DEF RecordOf
  <2> QED
    BY <1>7, <2>3
<1>11. f \in [O -> DOMAIN ids]
  BY <1>8
<1> HIDE DEF f
<1>12. f \in Bijection(O, DOMAIN ids)
  BY <1>9, <1>10, <1>11 DEF Bijection, Injection, Surjection, IsInjective
<1>13. ExistsBijection(O, DOMAIN ids)
  BY <1>12 DEF ExistsBijection
<1>14. IsFiniteSet(O)
  <2>1. IsFiniteSet(1..Len(L))
    BY <1>4, FS_Interval
  <2>2. O \subseteq 1..Len(L)
    BY <1>7
  <2> QED
    BY <2>1, <2>2, FS_Subset
<1>15. Cardinality(O) = Cardinality(DOMAIN ids)
  BY <1>13, <1>14, FS_Bijection
<1>16. SeenIds!Abstract!Cardinality(O) = Cardinality(O)
  BY SameOperators
<1> QED
  BY <1>7, <1>15, <1>16 DEF O, L, W

LEMMA FirstOfScope ==
    ASSUME NEW s, SeenShaped(s), QueueSound(s), NEW scope \in DOMAIN s.scopes,
           s.scopes[scope].order # <<>>
    PROVE  /\ <<scope, s.scopes[scope].order[1][1]>> \in Known(s)
           /\ \E m \in 1..Len(SeenIds!LiveRecords(s)) :
                /\ SeenIds!LiveRecords(s)[m] = RecordOf(s, <<scope, s.scopes[scope].order[1][1]>>)
                /\ SeenIds!Abstract!Min(SeenIds!Abstract!Of(scope, SeenIds!WindowIn(s))) = m
                /\ \A i \in 1..Len(SeenIds!LiveRecords(s)) :
                        SeenIds!LiveRecords(s)[i][1] = scope => m <= i
<1> DEFINE L == SeenIds!LiveRecords(s)
           w == s.scopes[scope]
           first == w.order[1][1]
           O == SeenIds!Abstract!Of(scope, SeenIds!WindowIn(s))
<1>1. IdsSound(w) /\ 1 \in DOMAIN w.order /\ DOMAIN w.order = 1..Len(w.order)
  <2>1. IdsSound(w)
    BY DEF SeenShaped
  <2>2. w.order \in Seq(Ids \X Nat) /\ w.order # <<>>
    BY <2>1 DEF IdsSound
  <2> QED
    BY <2>1, <2>2
<1>2. SeenIds!Live(w, w.order[1])
  BY <1>1 DEF IdsSound
<1>3. first \in DOMAIN w.ids /\ w.ids[first].generation = w.order[1][2]
  BY <1>2 DEF SeenIds!Live
<1>4. <<scope, first>> \in Known(s)
  BY <1>3, KnownIs
<1>5. PICK m \in 1..Len(L) : L[m] = RecordOf(s, <<scope, first>>)
  BY <1>4, PlaceOf
<1>6. \A i : i \in O <=> i \in 1..Len(L) /\ L[i][1] = scope
  BY OfScope
<1>7. L \in Seq(SeenRecords) /\ Rising(L, Generation)
  BY LiveRecordsAre
<1>8. \A i \in 1..Len(L) : \E h \in Known(s) : L[i] = RecordOf(s, h)
  BY AtPlace
<1> HIDE DEF L, O
<1>9. ASSUME NEW i \in 1..Len(L), L[i][1] = scope PROVE m <= i
  <2>1. PICK h \in Known(s) : L[i] = RecordOf(s, h)
    BY <1>8
  <2>2. h[1] = scope /\ h[2] \in DOMAIN w.ids /\ L[i][3] = w.ids[h[2]].generation
    <3>1. L[i][1] = h[1] /\ L[i][3] = s.scopes[h[1]].ids[h[2]].generation
      BY <2>1 DEF RecordOf
    <3>2. h[2] \in DOMAIN s.scopes[h[1]].ids
      BY KnownIs
    <3>3. h[1] = scope
      BY <1>9, <3>1
    <3> QED
      BY <3>1, <3>2, <3>3
  <2>3. PICK j \in DOMAIN w.order : w.order[j][1] = h[2]
    BY <1>1, <2>2 DEF IdsSound
  <2>4. w.order[j][2] = L[i][3]
    <3>1. SeenIds!Live(w, w.order[j])
      BY <1>1 DEF IdsSound
    <3>2. w.ids[w.order[j][1]].generation = w.order[j][2]
      BY <3>1 DEF SeenIds!Live
    <3> HIDE DEF w
    <3> QED
      BY <2>2, <2>3, <3>2
  <2>5. w.order[1][2] <= w.order[j][2] /\ w.order[1][2] \in Nat /\ w.order[j][2] \in Nat
    <3>1. j = 1 \/ 1 < j
      BY <1>1
    <3>2. w.order[1] \in Ids \X Nat /\ w.order[j] \in Ids \X Nat
      BY <1>1 DEF IdsSound
    <3>3. 1 < j => w.order[1][2] < w.order[j][2]
      BY <1>1 DEF IdsSound
    <3>4. w.order[1][2] \in Nat /\ w.order[j][2] \in Nat
      BY <3>2
    <3> QED
      BY <3>1, <3>3, <3>4
  <2>6. L[m][3] = w.order[1][2]
    BY <1>3, <1>5 DEF RecordOf
  <2>7. ~(i < m)
    <3>1. DOMAIN L = 1..Len(L) /\ L[i] \in SeenRecords /\ L[m] \in SeenRecords
      BY <1>7
    <3>2. Generation[L[i]] = L[i][3] /\ Generation[L[m]] = L[m][3]
      BY <3>1, GenerationType
    <3>3. i < m => Generation[L[i]] < Generation[L[m]]
      BY <1>7, <3>1 DEF Rising
    <3> QED
      BY <2>4, <2>5, <2>6, <3>2, <3>3
  <2> QED
    BY <2>7
<1>10. L[m][1] = scope
  BY <1>5 DEF RecordOf
<1>11. O \in SUBSET Nat /\ m \in O /\ \A i \in O : m <= i
  BY <1>6, <1>9, <1>10
<1>12. SeenIds!Abstract!Min(O) = m
  BY <1>11, MinIs
<1> QED
  BY <1>4, <1>5, <1>9, <1>12 DEF L, O

\* t is a table with the generation counter of s.
Table(t, s) ==
    /\ t = [scopes |-> t.scopes, globalOrder |-> t.globalOrder, total |-> t.total, next |-> t.next]
    /\ t.next = s.next

LEMMA LosesNone ==
    ASSUME NEW s, SeenShaped(s), NEW t, Table(t, s), DOMAIN t.scopes = DOMAIN s.scopes,
           \A x \in DOMAIN s.scopes :
                /\ IdsSound(t.scopes[x]) /\ Entries(t.scopes[x], s.scopes[x])
                /\ DOMAIN t.scopes[x].ids = DOMAIN s.scopes[x].ids
    PROVE  Drops(s, t, {}) /\ Known(t) = Known(s)
<1>1. SeenShaped(t)
  BY DEF SeenShaped, Table
<1>2. ASSUME NEW h \in SeenScopes \X Ids PROVE h \in Known(t) <=> h \in Known(s)
  <2>1. h \in Known(t) <=> h[1] \in DOMAIN t.scopes /\ h[2] \in DOMAIN t.scopes[h[1]].ids
    BY <1>1, KnownIs DEF Known
  <2>2. h \in Known(s) <=> h[1] \in DOMAIN s.scopes /\ h[2] \in DOMAIN s.scopes[h[1]].ids
    BY KnownIs DEF Known
  <2> QED
    BY <2>1, <2>2
<1>3. Known(t) = Known(s)
  BY <1>2 DEF Known
<1>4. ASSUME NEW h \in Known(t) PROVE t.scopes[h[1]].ids[h[2]] = s.scopes[h[1]].ids[h[2]]
  <2>1. h[1] \in DOMAIN t.scopes /\ h[2] \in DOMAIN t.scopes[h[1]].ids
    BY <1>1, KnownIs
  <2> QED
    BY <2>1 DEF Entries
<1> QED
  BY <1>1, <1>3, <1>4 DEF Drops, Table

\* One scope loses one id; when it was the last, the scope may go.
Loses(s, t, scope, first) ==
    /\ first \in DOMAIN s.scopes[scope].ids /\ DOMAIN t.scopes \subseteq DOMAIN s.scopes
    /\ \A x \in DOMAIN s.scopes : x # scope => x \in DOMAIN t.scopes /\ t.scopes[x] = s.scopes[x]
    /\ IF scope \in DOMAIN t.scopes
       THEN /\ IdsSound(t.scopes[scope]) /\ Entries(t.scopes[scope], s.scopes[scope])
            /\ DOMAIN t.scopes[scope].ids = DOMAIN s.scopes[scope].ids \ {first}
       ELSE DOMAIN s.scopes[scope].ids = {first}

LEMMA LosesOne ==
    ASSUME NEW s, SeenShaped(s), NEW t, Table(t, s),
           NEW scope \in DOMAIN s.scopes, NEW first, Loses(s, t, scope, first)
    PROVE  /\ Drops(s, t, {<<scope, first>>})
           /\ Cardinality(Known(t)) = Cardinality(Known(s)) - 1
<1> DEFINE old == <<scope, first>>
<1>0. /\ first \in DOMAIN s.scopes[scope].ids /\ DOMAIN t.scopes \subseteq DOMAIN s.scopes
      /\ \A x \in DOMAIN s.scopes : x # scope => x \in DOMAIN t.scopes /\ t.scopes[x] = s.scopes[x]
      /\ scope \in DOMAIN t.scopes =>
            /\ IdsSound(t.scopes[scope]) /\ Entries(t.scopes[scope], s.scopes[scope])
            /\ DOMAIN t.scopes[scope].ids = DOMAIN s.scopes[scope].ids \ {first}
      /\ scope \notin DOMAIN t.scopes => DOMAIN s.scopes[scope].ids = {first}
  BY DEF Loses
<1>1. SeenShaped(t)
  <2>1. ASSUME NEW x \in DOMAIN t.scopes PROVE IdsSound(t.scopes[x]) /\ x \in SeenScopes
    <3>1. CASE x = scope
      BY <1>0, <3>1 DEF SeenShaped
    <3>2. CASE x # scope
      BY <1>0, <3>2 DEF SeenShaped
    <3> QED
      BY <3>1, <3>2
  <2> QED
    BY <1>0, <2>1 DEF SeenShaped, Table
<1>2. ASSUME NEW h \in SeenScopes \X Ids PROVE h \in Known(t) <=> h \in Known(s) /\ h # old
  <2>0. h = <<h[1], h[2]>>
    OBVIOUS
  <2>1. h \in Known(t) <=> h[1] \in DOMAIN t.scopes /\ h[2] \in DOMAIN t.scopes[h[1]].ids
    BY <1>1, KnownIs DEF Known
  <2>2. h \in Known(s) <=> h[1] \in DOMAIN s.scopes /\ h[2] \in DOMAIN s.scopes[h[1]].ids
    BY KnownIs DEF Known
  <2>3. CASE h[1] # scope
    <3>1. h # old
      BY <2>0, <2>3
    <3> QED
      BY <1>0, <2>1, <2>2, <2>3, <3>1
  <2>4. CASE h[1] = scope
    <3>1. h = old <=> h[2] = first
      BY <2>0, <2>4
    <3>2. CASE scope \in DOMAIN t.scopes
      BY <1>0, <2>1, <2>2, <2>4, <3>1, <3>2
    <3>3. CASE scope \notin DOMAIN t.scopes
      BY <1>0, <2>1, <2>2, <2>4, <3>1, <3>3
    <3> QED
      BY <3>2, <3>3
  <2> QED
    BY <2>3, <2>4
<1>3. Known(t) = Known(s) \ {old}
  <2>1. Known(t) \subseteq SeenScopes \X Ids /\ Known(s) \subseteq SeenScopes \X Ids
    BY DEF Known
  <2> HIDE DEF old
  <2> QED
    BY <1>2, <2>1
<1>4. ASSUME NEW h \in Known(t) PROVE t.scopes[h[1]].ids[h[2]] = s.scopes[h[1]].ids[h[2]]
  <2>1. h[1] \in DOMAIN t.scopes /\ h[2] \in DOMAIN t.scopes[h[1]].ids
    BY <1>1, KnownIs
  <2>2. CASE h[1] = scope
    BY <1>0, <2>1, <2>2 DEF Entries
  <2>3. CASE h[1] # scope
    BY <1>0, <2>1, <2>3
  <2> QED
    BY <2>2, <2>3
<1>5. old \in Known(s)
  BY <1>0, KnownIs
<1>6. Cardinality(Known(s) \ {old}) = Cardinality(Known(s)) - 1
  BY <1>5, KnownFinite, OneLess, Zenon
<1> QED
  BY <1>1, <1>3, <1>4, <1>6 DEF Drops, Table

\* Nothing leaves the queue.
LEMMA SameQueue ==
    ASSUME NEW s, QueueSound(s), NEW t, t.globalOrder = s.globalOrder
    PROVE  Shortens(s, t)
BY DEF QueueSound, Shortens

Evicts(s, t, scope) ==
    /\ Table(t, s) /\ t.globalOrder = s.globalOrder /\ DOMAIN t.scopes = DOMAIN s.scopes
    /\ \A x \in DOMAIN s.scopes : x # scope => t.scopes[x] = s.scopes[x]
    /\ t.scopes[scope] = SeenIds!EvictScope(s.scopes[scope])
    /\ t.total = s.total - (Cardinality(DOMAIN s.scopes[scope].ids) - Cardinality(DOMAIN t.scopes[scope].ids))

\* The scope is brought back to its limit.
LEMMA EvictKeeps ==
    ASSUME NEW s, SeenSound(s), NEW scope \in DOMAIN s.scopes, DOMAIN s.scopes[scope].ids # {},
           Cardinality(DOMAIN s.scopes[scope].ids) <= MaxPerScope + 1, NEW t, Evicts(s, t, scope)
    PROVE  /\ SeenSound(t)
           /\ SeenIds!WindowIn(t) = SeenIds!Abstract!TrimScope(scope, SeenIds!WindowIn(s))
           /\ DOMAIN t.scopes[scope].ids # {} /\ Cardinality(DOMAIN t.scopes[scope].ids) <= MaxPerScope
           /\ t.total <= s.total
<1> DEFINE w == s.scopes[scope]
           v == t.scopes[scope]
<1>0. /\ Table(t, s) /\ t.globalOrder = s.globalOrder /\ DOMAIN t.scopes = DOMAIN s.scopes
      /\ \A x \in DOMAIN s.scopes : x # scope => t.scopes[x] = s.scopes[x]
      /\ v = SeenIds!EvictScope(w) /\ DOMAIN w.ids # {} /\ Cardinality(DOMAIN w.ids) <= MaxPerScope + 1
      /\ t.total = s.total - (Cardinality(DOMAIN w.ids) - Cardinality(DOMAIN v.ids))
      /\ w = s.scopes[scope] /\ v = t.scopes[scope]
  BY DEF Evicts
<1> HIDE DEF w, v
<1>1. SeenShaped(s) /\ QueueSound(s) /\ s.total = Cardinality(Known(s)) /\ IdsSound(w)
  BY <1>0 DEF SeenSound, SeenShaped
<1>2. Evicted(w, v)
  BY <1>0, <1>1, EvictScopeIs
<1>3. Shortens(s, t)
  BY <1>0, <1>1, SameQueue
<1>4. SeenIds!Abstract!Cardinality(SeenIds!Abstract!Of(scope, SeenIds!WindowIn(s))) = Cardinality(DOMAIN w.ids)
  BY <1>0, <1>1, OfScope
<1>5. IsFiniteSet(DOMAIN w.ids) /\ Cardinality(DOMAIN w.ids) = Len(w.order) /\ Len(w.order) \in Nat
  BY <1>0, <1>1, OrderLength
<1>6. s.total \in Nat
  BY <1>0, <1>1, KnownFinite, FS_CardinalityType
<1>7. MaxPerScope \in Nat \ {0}
  BY SeenAssumption
<1>8. CASE Cardinality(DOMAIN w.ids) <= MaxPerScope
  <2>1. v = [ids |-> v.ids, order |-> v.order] /\ DOMAIN v.ids = DOMAIN w.ids /\ v.order = w.order
        /\ Entries(v, w)
    BY <1>0, <1>2, <1>8 DEF Evicted
  <2>2. IdsSound(v)
    BY <1>0, <1>1, <2>1, SameIds DEF Entries
  <2>3. ASSUME NEW x \in DOMAIN s.scopes
        PROVE  /\ IdsSound(t.scopes[x]) /\ Entries(t.scopes[x], s.scopes[x])
               /\ DOMAIN t.scopes[x].ids = DOMAIN s.scopes[x].ids
    <3>1. CASE x = scope
      BY <1>0, <2>1, <2>2, <3>1
    <3>2. CASE x # scope
      BY <1>0, <1>1, <3>2 DEF SeenShaped, Entries
    <3> QED
      BY <1>0, <3>1, <3>2
  <2>4. Drops(s, t, {}) /\ Known(t) = Known(s)
    BY <1>0, <1>1, <2>3, LosesNone
  <2>5. QueueSound(t) /\ SeenIds!WindowIn(t) = SeenIds!WindowIn(s) /\ SeenShaped(t)
    <3>1. SeenShaped(t)
      BY <1>0, <2>4 DEF Drops
    <3> QED
      BY <1>0, <1>1, <1>3, <2>4, <3>1, DropsNone
  <2>6. t.total = Cardinality(Known(t))
    BY <1>0, <1>1, <1>5, <1>6, <2>1, <2>4
  <2>7. SeenIds!Abstract!TrimScope(scope, SeenIds!WindowIn(s)) = SeenIds!WindowIn(s)
    BY <1>0, <1>4, <1>5, <1>7, <1>8 DEF SeenIds!Abstract!TrimScope
  <2>8. t.total <= s.total
    BY <1>0, <1>1, <1>6, <2>4, <2>6
  <2> QED
    BY <1>0, <1>8, <2>1, <2>5, <2>6, <2>7, <2>8 DEF SeenSound
<1>9. CASE ~(Cardinality(DOMAIN w.ids) <= MaxPerScope)
  <2> DEFINE first == w.order[1][1]
  <2>1. /\ v = [ids |-> v.ids, order |-> v.order] /\ Entries(v, w) /\ w.order # <<>>
        /\ DOMAIN v.ids = DOMAIN w.ids \ {first} /\ v.order = SubSeq(w.order, 2, Len(w.order))
    BY <1>0, <1>2, <1>9 DEF Evicted, Aged
  <2>2. IdsSound(v)
    BY <1>0, <1>1, <1>2, <1>9, OldestGone DEF Evicted
  <2>3. <<scope, first>> \in Known(s)
    BY <1>0, <1>1, <2>1, FirstOfScope
  <2>4. first \in DOMAIN w.ids
    BY <1>0, <1>1, <2>3, KnownIs
  <2>5. Drops(s, t, {<<scope, first>>}) /\ Cardinality(Known(t)) = Cardinality(Known(s)) - 1
    <3>1. Loses(s, t, scope, first)
      BY <1>0, <2>1, <2>2, <2>4 DEF Loses
    <3> HIDE DEF first
    <3> QED
      BY <1>0, <1>1, <3>1, LosesOne
  <2>6. PICK m \in 1..Len(SeenIds!LiveRecords(s)) :
                /\ SeenIds!LiveRecords(s)[m] = RecordOf(s, <<scope, first>>)
                /\ SeenIds!Abstract!Min(SeenIds!Abstract!Of(scope, SeenIds!WindowIn(s))) = m
    BY <1>0, <1>1, <2>1, FirstOfScope
  <2>7. QueueSound(t) /\ SeenIds!WindowIn(t) = RemoveAt(SeenIds!WindowIn(s), m)
    BY <1>0, <1>1, <1>3, <2>3, <2>5, <2>6, DropsOne
  <2>8. SubSeq(SeenIds!WindowIn(s), 1, m - 1) \o SubSeq(SeenIds!WindowIn(s), m + 1, Len(SeenIds!WindowIn(s)))
            = RemoveAt(SeenIds!WindowIn(s), m)
    BY Zenon DEF RemoveAt
  <2>9. Cardinality(DOMAIN v.ids) = Cardinality(DOMAIN w.ids) - 1
    BY <1>0, <1>5, <2>1, <2>4, OneLess, Zenon
  <2>10. Cardinality(DOMAIN w.ids) > MaxPerScope
    BY <1>0, <1>5, <1>7, <1>9
  <2>11. SeenIds!WindowIn(t) = SeenIds!Abstract!TrimScope(scope, SeenIds!WindowIn(s))
    BY <1>0, <1>4, <2>6, <2>7, <2>8, <2>10 DEF SeenIds!Abstract!TrimScope
  <2>12. t.total = Cardinality(Known(t))
    BY <1>0, <1>1, <1>5, <1>6, <2>5, <2>9
  <2>13. SeenShaped(t)
    BY <1>0, <2>5 DEF Drops
  <2>14. Cardinality(DOMAIN v.ids) = MaxPerScope
    <3> DEFINE n == Cardinality(DOMAIN w.ids)
               k == Cardinality(DOMAIN v.ids)
    <3>1. n \in Nat /\ k = n - 1 /\ n > MaxPerScope /\ n <= MaxPerScope + 1
      BY <1>0, <1>5, <2>9, <2>10
    <3> HIDE DEF n, k
    <3>2. k = MaxPerScope
      BY <1>0, <1>7, <3>1
    <3> QED
      BY <1>0, <3>2 DEF k
  <2>15. DOMAIN v.ids # {}
    BY <1>0, <1>7, <2>14, FS_EmptySet
  <2>16. t.total <= s.total
    BY <1>0, <1>1, <1>6, <2>5, <2>12
  <2> QED
    BY <1>0, <1>7, <2>7, <2>11, <2>12, <2>13, <2>14, <2>15, <2>16 DEF SeenSound
<1> QED
  BY <1>0, <1>8, <1>9

-----------------------------------------------------------------------------
(* evict_global *)

\* Dropping the oldest id of a scope, trim_front drops its record and no more.
Beheaded(w, x) == x = [w EXCEPT !.ids = SeenIds!Without(@, {w.order[1][1]})]

LEMMA TrimFrontIs ==
    ASSUME NEW w, IdsSound(w), w.order # <<>>, NEW x, Beheaded(w, x)
    PROVE  Aged(w, SeenIds!TrimFront(x))
<1> DEFINE n == Len(w.order)
           first == w.order[1][1]
           rest == [id \in DOMAIN w.ids \ {first} |-> w.ids[id]]
           T == {i \in 0..n : i < n /\ SeenIds!Live(x, w.order[i + 1])} \cup {n}
           k == Min(T)
<1>1. /\ w = [ids |-> w.ids, order |-> w.order] /\ w.order \in Seq(Ids \X Nat) /\ DOMAIN w.order = 1..n
      /\ n \in Nat /\ n >= 1
  <2>1. w = [ids |-> w.ids, order |-> w.order] /\ w.order \in Seq(Ids \X Nat)
    BY DEF IdsSound
  <2> QED
    BY <2>1
<1>2. SeenIds!Without(w.ids, {first}) = rest
  BY DEF SeenIds!Without, SeenIds!Restrict
<1>3. x = [ids |-> rest, order |-> w.order] /\ x.order = w.order /\ x.ids = rest
  <2> HIDE DEF rest
  <2>1. x = [w EXCEPT !.ids = rest]
    BY <1>2 DEF Beheaded
  <2>2. x = [ids |-> rest, order |-> w.order]
    BY <1>1, <2>1
  <2> QED
    BY <2>2
<1>4. SeenIds!TrimFront(x) = [ids |-> rest, order |-> SubSeq(w.order, k + 1, n)]
  <2>1. x.order = w.order /\ x.ids = rest
    BY <1>3
  <2> HIDE DEF rest
  <2>2. SeenIds!Shortest(n, LAMBDA i : i < n /\ SeenIds!Live(x, w.order[i + 1])) = SeenIds!Min(T)
    BY DEF SeenIds!Shortest
  <2>3. SeenIds!Min(T) = k
    BY SameOperators
  <2>4. SeenIds!Shortest(Len(x.order), LAMBDA i : i < Len(x.order) /\ SeenIds!Live(x, x.order[i + 1])) = k
    <3> HIDE DEF T, k
    <3> QED
      BY <2>1, <2>2, <2>3
  <2> HIDE DEF T, k, rest
  <2>5. SeenIds!TrimFront(x) = [x EXCEPT !.order = SubSeq(x.order, k + 1, Len(x.order))]
    BY <2>4 DEF SeenIds!TrimFront
  <2> QED
    BY <1>3, <2>1, <2>5
<1>5. 0 \notin T
  <2>1. ~SeenIds!Live(x, w.order[1])
    BY <1>3 DEF SeenIds!Live
  <2>2. ~SeenIds!Live(x, w.order[0 + 1])
    BY <2>1
  <2> QED
    BY <1>1, <2>2
<1>6. 1 \in T
  <2>1. CASE n = 1
    BY <2>1
  <2>2. CASE n # 1
    <3>0. n \in Nat /\ n > 1
      <4>1. n \in Nat /\ n >= 1 /\ n # 1
        BY <1>1, <2>2
      <4> HIDE DEF n
      <4> QED
        BY <4>1
    <3>1. 1 \in DOMAIN w.order /\ 2 \in DOMAIN w.order /\ 1 < 2
      <4>1. 1 \in 1..n /\ 2 \in 1..n
        <5> HIDE DEF n
        <5> QED
          BY <3>0
      <4> QED
        BY <1>1, <4>1
    <3>2. SeenIds!Live(w, w.order[1]) /\ SeenIds!Live(w, w.order[2]) /\ w.order[1][2] < w.order[2][2]
          /\ w.order[1][2] \in Nat
      BY <1>1, <3>1 DEF IdsSound
    <3>3. w.order[2][1] # first
      BY <3>2 DEF SeenIds!Live
    <3>4. SeenIds!Live(x, w.order[2])
      BY <1>3, <3>2, <3>3 DEF SeenIds!Live
    <3>5. SeenIds!Live(x, w.order[1 + 1]) /\ 1 \in 0..n /\ 1 < n
      BY <3>0, <3>4
    <3> QED
      BY <3>5
  <2> QED
    BY <2>1, <2>2
<1>7. T \in SUBSET Nat
  BY <1>1
<1> HIDE DEF T
<1>8. \A y \in T : 1 <= y
  BY <1>5, <1>7
<1>9. k = 1
  BY <1>6, <1>7, <1>8, MinIs
<1> HIDE DEF k
<1>10. SeenIds!TrimFront(x) = [ids |-> rest, order |-> SubSeq(w.order, 2, n)]
  <2>1. k + 1 = 2
    BY <1>9
  <2> QED
    BY <1>4, <2>1
<1> QED
  BY <1>10 DEF Aged, Entries

\* The live records among the first n of the global queue, and the ids of one
\* scope that they stand for.
LiveTo(s, n) == {i \in 1..n : SeenIds!GlobalLive(s, s.globalOrder[i])}
GoneOf(s, n, scope) == {s.globalOrder[i][2] : i \in {j \in LiveTo(s, n) : s.globalOrder[j][1] = scope}}

\* t is s without the first k records of the global queue.
Popped(s, t, k) ==
    /\ Table(t, s) /\ t.total = s.total - Cardinality(LiveTo(s, k))
    /\ t.globalOrder = SubSeq(s.globalOrder, k + 1, Len(s.globalOrder))
    /\ DOMAIN t.scopes = {x \in DOMAIN s.scopes : GoneOf(s, k, x) = {} \/ DOMAIN s.scopes[x].ids # GoneOf(s, k, x)}
    /\ \A x \in DOMAIN t.scopes :
        t.scopes[x] = IF GoneOf(s, k, x) = {} THEN s.scopes[x]
                      ELSE SeenIds!TrimFront([s.scopes[x] EXCEPT !.ids = SeenIds!Without(@, GoneOf(s, k, x))])

Enough(s) == {n \in 0..Len(s.globalOrder) : s.total - Cardinality(LiveTo(s, n)) <= MaxTotal} \cup {Len(s.globalOrder)}

LEMMA PopGlobalIs ==
    ASSUME NEW s, SeenShaped(s)
    PROVE  Popped(s, SeenIds!PopGlobal(s), Min(Enough(s)))
<1> DEFINE g == s.globalOrder
           k == Min(Enough(s))
           t == SeenIds!PopGlobal(s)
           up(n) == {i \in 1..n : SeenIds!Stands(s, g[i])}
<1>1. \A n : up(n) = LiveTo(s, n)
  BY DEF LiveTo, SeenIds!Stands
<1>2. SeenIds!Shortest(Len(g), LAMBDA n : s.total - SeenIds!Cardinality(LiveTo(s, n)) <= MaxTotal) = k
  <2>1. SeenIds!Shortest(Len(g), LAMBDA n : s.total - SeenIds!Cardinality(LiveTo(s, n)) <= MaxTotal)
          = SeenIds!Min({n \in 0..Len(g) : s.total - SeenIds!Cardinality(LiveTo(s, n)) <= MaxTotal} \cup {Len(g)})
    BY DEF SeenIds!Shortest
  <2>2. {n \in 0..Len(g) : s.total - SeenIds!Cardinality(LiveTo(s, n)) <= MaxTotal} \cup {Len(g)} = Enough(s)
    <3>1. \A S : SeenIds!Cardinality(S) = Cardinality(S)
      BY SameOperators
    <3> QED
      BY <3>1 DEF Enough
  <2>3. SeenIds!Min(Enough(s)) = k
    BY SameOperators
  <2> HIDE DEF k, g
  <2> QED
    BY <2>1, <2>2, <2>3
<1>3. SeenIds!Cardinality(LiveTo(s, k)) = Cardinality(LiveTo(s, k))
  BY SameOperators
<1> HIDE DEF k
<1> DEFINE left == [scope \in {x \in DOMAIN s.scopes : GoneOf(s, k, x) = {} \/ DOMAIN s.scopes[x].ids # GoneOf(s, k, x)}
                        |-> IF GoneOf(s, k, scope) = {} THEN s.scopes[scope]
                            ELSE SeenIds!TrimFront([s.scopes[scope] EXCEPT !.ids = SeenIds!Without(@, GoneOf(s, k, scope))])]
<1>4. t = [s EXCEPT !.total = @ - SeenIds!Cardinality(LiveTo(s, k)),
                    !.globalOrder = SubSeq(@, k + 1, Len(@)), !.scopes = left]
  BY <1>2 DEF SeenIds!PopGlobal, SeenIds!Stands, LiveTo, GoneOf
<1>5. /\ DOMAIN left = {x \in DOMAIN s.scopes : GoneOf(s, k, x) = {} \/ DOMAIN s.scopes[x].ids # GoneOf(s, k, x)}
      /\ \A x \in DOMAIN left :
            left[x] = IF GoneOf(s, k, x) = {} THEN s.scopes[x]
                      ELSE SeenIds!TrimFront([s.scopes[x] EXCEPT !.ids = SeenIds!Without(@, GoneOf(s, k, x))])
  OBVIOUS
<1> HIDE DEF left, t
<1>6. s = [scopes |-> s.scopes, globalOrder |-> s.globalOrder, total |-> s.total, next |-> s.next]
  BY DEF SeenShaped
<1>7. t = [scopes |-> left, globalOrder |-> SubSeq(s.globalOrder, k + 1, Len(s.globalOrder)),
           total |-> s.total - Cardinality(LiveTo(s, k)), next |-> s.next]
  BY <1>3, <1>4, <1>6
<1>8. /\ Table(t, s) /\ t.scopes = left /\ t.total = s.total - Cardinality(LiveTo(s, k))
      /\ t.globalOrder = SubSeq(s.globalOrder, k + 1, Len(s.globalOrder))
  BY <1>7 DEF Table
<1>9. Popped(s, t, k)
  BY <1>5, <1>8 DEF Popped
<1> QED
  BY <1>9 DEF k, t

\* p is what is left of q after its first k elements.
LeftOf(p, q, k) ==
    /\ Len(p) = Len(q) - k /\ ToSet(p) \subseteq ToSet(q)
    /\ \A i \in 1..Len(q) : k < i => q[i] \in ToSet(p)

LEMMA RisingRest ==
    ASSUME NEW V, NEW key \in [V -> Nat], NEW q \in Seq(V), Rising(q, key), NEW k \in 0..Len(q),
           NEW p, p = SubSeq(q, k + 1, Len(q))
    PROVE  p \in Seq(V) /\ Rising(p, key) /\ LeftOf(p, q, k)
<1>1. p \in Seq(V) /\ Len(p) = Len(q) - k /\ \A i \in 1..(Len(q) - k) : p[i] = q[k + i]
  <2>1. CASE k = Len(q)
    BY <2>1
  <2>2. CASE k # Len(q)
    BY <2>2, SMTT(30)
  <2> QED
    BY <2>1, <2>2
<1>2. DOMAIN p = 1..(Len(q) - k) /\ DOMAIN q = 1..Len(q) /\ Len(q) \in Nat /\ k \in Nat
  BY <1>1
<1>3. ASSUME NEW i \in DOMAIN p PROVE k + i \in DOMAIN q /\ p[i] = q[k + i]
  <2>1. i \in 1..(Len(q) - k)
    BY <1>2
  <2>2. k + i \in 1..Len(q)
    BY <1>2, <2>1
  <2> QED
    BY <1>1, <1>2, <2>1, <2>2
<1>4. Rising(p, key)
  <2> SUFFICES ASSUME NEW i \in DOMAIN p, NEW j \in DOMAIN p, i < j PROVE key[p[i]] < key[p[j]]
    BY DEF Rising
  <2>1. k + i < k + j
    BY <1>2
  <2> QED
    BY <1>3, <2>1 DEF Rising
<1>5. ToSet(p) \subseteq ToSet(q)
  BY <1>3 DEF ToSet
<1>6. ASSUME NEW i \in 1..Len(q), k < i PROVE q[i] \in ToSet(p)
  <2>1. i - k \in DOMAIN p /\ k + (i - k) = i
    BY <1>2, <1>6
  <2>2. p[i - k] = q[i]
    BY <1>3, <2>1
  <2> QED
    BY <2>1, <2>2 DEF ToSet
<1> QED
  BY <1>1, <1>4, <1>5, <1>6 DEF LeftOf

\* Every scope has an id, and none too many.
ScopesWithin(s) ==
    \A x \in DOMAIN s.scopes :
        DOMAIN s.scopes[x].ids # {} /\ Cardinality(DOMAIN s.scopes[x].ids) <= MaxPerScope

LEMMA PopNothing ==
    ASSUME NEW s, SeenSound(s), ScopesWithin(s), s.total <= MaxTotal,
           NEW t, Popped(s, t, Min(Enough(s)))
    PROVE  /\ SeenSound(t) /\ ScopesWithin(t) /\ t.total <= MaxTotal
           /\ Len(t.globalOrder) = Len(s.globalOrder)
           /\ SeenIds!WindowIn(t) = SeenIds!WindowIn(s)
<1>1. SeenShaped(s) /\ QueueSound(s) /\ s.total = Cardinality(Known(s)) /\ s.total \in Nat
  BY KnownFinite, FS_CardinalityType DEF SeenSound
<1>2. LiveTo(s, 0) = {}
  BY DEF LiveTo
<1>3. Cardinality(LiveTo(s, 0)) = 0
  BY <1>2, FS_EmptySet
<1>4. s.globalOrder \in Seq(SeenRecords) /\ Len(s.globalOrder) \in Nat
  BY <1>1 DEF QueueSound
<1>5. Min(Enough(s)) = 0
  <2>1. 0 \in Enough(s)
    BY <1>1, <1>3, <1>4 DEF Enough
  <2>2. Enough(s) \in SUBSET Nat
    BY <1>4 DEF Enough
  <2>3. \A y \in Enough(s) : 0 <= y
    BY <2>2
  <2> QED
    BY <2>1, <2>2, <2>3, MinIs
<1>6. Popped(s, t, 0)
  BY <1>5
<1>7. \A x : GoneOf(s, 0, x) = {}
  BY <1>2 DEF GoneOf
<1>8. Table(t, s) /\ DOMAIN t.scopes = DOMAIN s.scopes /\ \A x \in DOMAIN s.scopes : t.scopes[x] = s.scopes[x]
  BY <1>6, <1>7 DEF Popped
<1>9. t.total = s.total
  BY <1>1, <1>3, <1>6 DEF Popped
<1>10. t.globalOrder = s.globalOrder
  <2>1. t.globalOrder = SubSeq(s.globalOrder, 0 + 1, Len(s.globalOrder))
    BY <1>6, Zenon DEF Popped
  <2>2. 0 + 1 = 1
    OBVIOUS
  <2>3. t.globalOrder = SubSeq(s.globalOrder, 1, Len(s.globalOrder))
    BY <2>1, <2>2
  <2> QED
    BY <1>4, <2>3
<1>11. Drops(s, t, {}) /\ Known(t) = Known(s)
  <2>1. \A x \in DOMAIN s.scopes : IdsSound(s.scopes[x])
    BY <1>1 DEF SeenShaped
  <2>2. \A x \in DOMAIN s.scopes :
                /\ IdsSound(t.scopes[x]) /\ Entries(t.scopes[x], s.scopes[x])
                /\ DOMAIN t.scopes[x].ids = DOMAIN s.scopes[x].ids
    BY <1>8, <2>1 DEF Entries
  <2> QED
    BY <1>1, <1>8, <2>2, LosesNone
<1>12. Shortens(s, t)
  BY <1>1, <1>10, SameQueue
<1>13. QueueSound(t) /\ SeenIds!WindowIn(t) = SeenIds!WindowIn(s)
  BY <1>1, <1>11, <1>12, DropsNone
<1>14. SeenSound(t)
  BY <1>1, <1>9, <1>11, <1>13 DEF SeenSound, Drops
<1>15. ScopesWithin(t)
  BY <1>8 DEF ScopesWithin
<1> QED
  BY <1>9, <1>10, <1>13, <1>14, <1>15

\* With one id too many, the records popped end with the first live one.
LEMMA PopsToFirstLive ==
    ASSUME NEW s, SeenSound(s), s.total = MaxTotal + 1
    PROVE  \E k \in 1..Len(s.globalOrder) :
              /\ Min(Enough(s)) = k /\ LiveTo(s, k) = {k}
              /\ s.globalOrder[k] = SeenIds!LiveRecords(s)[1]
              /\ 1 \in 1..Len(SeenIds!LiveRecords(s))
<1> DEFINE g == s.globalOrder
           L == SeenIds!LiveRecords(s)
<1>1. SeenShaped(s) /\ QueueSound(s) /\ s.total = Cardinality(Known(s)) /\ MaxTotal \in Nat
  BY SeenAssumption DEF SeenSound
<1>2. g \in Seq(SeenRecords) /\ Rising(g, Generation) /\ DOMAIN g = 1..Len(g) /\ Len(g) \in Nat
      /\ \A i \in 1..Len(g) : g[i] \in SeenRecords
  BY <1>1 DEF QueueSound
<1>3. /\ L \in Seq(SeenRecords) /\ Rising(L, Generation) /\ ToSet(L) = LiveOf(s) /\ DOMAIN L = 1..Len(L)
  BY <1>1, LiveRecordsAre
<1>4. 1 \in 1..Len(L)
  <2>1. Len(L) = MaxTotal + 1
    BY <1>1, LiveRecordsCount
  <2> QED
    BY <1>1, <2>1
<1>5. L[1] \in LiveOf(s) /\ LiveOf(s) \subseteq ToSet(g)
  BY <1>1, <1>3, <1>4 DEF ToSet, QueueSound
<1>6. PICK k \in 1..Len(g) : g[k] = L[1]
  BY <1>2, <1>5 DEF ToSet
<1> HIDE DEF L
<1>7. \A i \in 1..Len(g) : SeenIds!GlobalLive(s, g[i]) <=> g[i] \in LiveOf(s)
  BY <1>1, <1>2, LiveIs
<1>8. ASSUME NEW i \in 1..Len(g), i < k PROVE g[i] \notin LiveOf(s)
  <2> SUFFICES ASSUME g[i] \in LiveOf(s) PROVE FALSE
    OBVIOUS
  <2>1. PICK j \in 1..Len(L) : g[i] = L[j]
    BY <1>3 DEF ToSet
  <2>2. Generation[g[i]] < Generation[g[k]]
    BY <1>2, <1>8 DEF Rising
  <2>3. Generation[g[i]] \in Nat /\ Generation[g[k]] \in Nat
    BY <1>2, GenerationType
  <2>4. 1 < j => Generation[L[1]] < Generation[L[j]]
    BY <1>3, <1>4 DEF Rising
  <2>5. j = 1 \/ 1 < j
    OBVIOUS
  <2> QED
    BY <1>6, <2>1, <2>2, <2>3, <2>4, <2>5
<1>9. LiveTo(s, k) = {k}
  BY <1>5, <1>6, <1>7, <1>8 DEF LiveTo
<1>10. ASSUME NEW n \in 0..Len(g), n < k PROVE LiveTo(s, n) = {}
  <2> SUFFICES ASSUME NEW i \in 1..n PROVE ~SeenIds!GlobalLive(s, g[i])
    BY DEF LiveTo
  <2>1. i \in 1..Len(g) /\ i < k
    BY <1>10
  <2> QED
    BY <1>7, <1>8, <2>1
<1>11. k \in Enough(s)
  <2>1. Cardinality(LiveTo(s, k)) = 1
    BY <1>9, FS_Singleton
  <2>2. s.total - Cardinality(LiveTo(s, k)) <= MaxTotal
    BY <1>1, <2>1
  <2> QED
    BY <1>2, <2>2 DEF Enough
<1>12. ASSUME NEW n \in Enough(s) PROVE n \in Nat /\ k <= n
  <2>1. CASE n = Len(g)
    BY <1>2, <2>1
  <2>2. CASE n \in 0..Len(g) /\ s.total - Cardinality(LiveTo(s, n)) <= MaxTotal
    <3>1. SUFFICES ASSUME n < k PROVE FALSE
      BY <1>2, <2>2
    <3>2. Cardinality(LiveTo(s, n)) = 0
      BY <1>10, <2>2, <3>1, FS_EmptySet
    <3> QED
      BY <1>1, <2>2, <3>2
  <2> QED
    BY <2>1, <2>2 DEF Enough
<1>13. Enough(s) \in SUBSET Nat
  BY <1>12
<1>14. Min(Enough(s)) = k
  BY <1>11, <1>12, <1>13, MinIs
<1> QED
  BY <1>4, <1>6, <1>9, <1>14 DEF L

LEMMA PopOne ==
    ASSUME NEW s, SeenSound(s), ScopesWithin(s), s.total = MaxTotal + 1,
           NEW t, NEW k \in 1..Len(s.globalOrder), Popped(s, t, k), LiveTo(s, k) = {k},
           s.globalOrder[k] = SeenIds!LiveRecords(s)[1], 1 \in 1..Len(SeenIds!LiveRecords(s))
    PROVE  /\ SeenSound(t) /\ ScopesWithin(t) /\ t.total <= MaxTotal
           /\ Len(t.globalOrder) <= Len(s.globalOrder)
           /\ SeenIds!WindowIn(t) = RemoveAt(SeenIds!WindowIn(s), 1)
<1> DEFINE g == s.globalOrder
           L == SeenIds!LiveRecords(s)
<1>1. SeenShaped(s) /\ QueueSound(s) /\ s.total = Cardinality(Known(s)) /\ MaxTotal \in Nat
  BY SeenAssumption DEF SeenSound
<1>2. PICK h \in Known(s) : L[1] = RecordOf(s, h)
  BY <1>1, AtPlace
<1> DEFINE scope == h[1]
           first == h[2]
           w == s.scopes[scope]
<1>3. h = <<scope, first>> /\ scope \in DOMAIN s.scopes /\ first \in DOMAIN w.ids
  BY <1>1, KnownIs
<1>4. L[1][1] = scope /\ L[1][2] = first
  BY <1>2 DEF RecordOf
<1>5. IdsSound(w)
  BY <1>1, <1>3 DEF SeenShaped
<1>6. w.order # <<>>
  <2>1. PICK i \in DOMAIN w.order : w.order[i][1] = first
    BY <1>3, <1>5 DEF IdsSound
  <2> QED
    BY <2>1
<1>7. first = w.order[1][1]
  <2>1. PICK m \in 1..Len(L) :
                /\ L[m] = RecordOf(s, <<scope, w.order[1][1]>>)
                /\ \A i \in 1..Len(L) : L[i][1] = scope => m <= i
    BY <1>1, <1>3, <1>6, FirstOfScope
  <2>2. m <= 1 /\ m \in Nat /\ m >= 1
    BY <1>4, <2>1
  <2>3. m = 1
    BY <2>2
  <2>4. L[1] = RecordOf(s, <<scope, w.order[1][1]>>)
    BY <2>1, <2>3
  <2> HIDE DEF L
  <2> QED
    BY <1>4, <2>4 DEF RecordOf
<1> HIDE DEF scope, first, w
<1>8. g[k][1] = scope /\ g[k][2] = first
  BY <1>4
<1>9. GoneOf(s, k, scope) = {first} /\ \A x : x # scope => GoneOf(s, k, x) = {}
  BY <1>8 DEF GoneOf
<1>10. /\ Table(t, s) /\ t.total = s.total - Cardinality(LiveTo(s, k))
       /\ t.globalOrder = SubSeq(s.globalOrder, k + 1, Len(s.globalOrder))
       /\ DOMAIN t.scopes = {x \in DOMAIN s.scopes : GoneOf(s, k, x) = {} \/ DOMAIN s.scopes[x].ids # GoneOf(s, k, x)}
       /\ \A x \in DOMAIN t.scopes :
            t.scopes[x] = IF GoneOf(s, k, x) = {} THEN s.scopes[x]
                          ELSE SeenIds!TrimFront([s.scopes[x] EXCEPT !.ids = SeenIds!Without(@, GoneOf(s, k, x))])
  BY DEF Popped
<1>11. \A x \in DOMAIN s.scopes : x # scope => x \in DOMAIN t.scopes /\ t.scopes[x] = s.scopes[x]
  BY <1>9, <1>10
<1>12. scope \in DOMAIN t.scopes => Aged(w, t.scopes[scope])
  <2> SUFFICES ASSUME scope \in DOMAIN t.scopes PROVE Aged(w, t.scopes[scope])
    OBVIOUS
  <2> DEFINE x == [s.scopes[scope] EXCEPT !.ids = SeenIds!Without(@, GoneOf(s, k, scope))]
  <2>1. GoneOf(s, k, scope) # {}
    BY <1>9
  <2>2. t.scopes[scope] = SeenIds!TrimFront(x)
    BY <1>10, <2>1
  <2>3. Beheaded(w, x)
    BY <1>7, <1>9 DEF Beheaded, w
  <2> HIDE DEF x
  <2>4. Aged(w, SeenIds!TrimFront(x))
    BY <1>5, <1>6, <2>3, TrimFrontIs
  <2> QED
    BY <2>2, <2>4
<1>13. Loses(s, t, scope, first)
  <2>1. scope \in DOMAIN t.scopes =>
            /\ IdsSound(t.scopes[scope]) /\ Entries(t.scopes[scope], w)
            /\ DOMAIN t.scopes[scope].ids = DOMAIN w.ids \ {first}
    <3> SUFFICES ASSUME scope \in DOMAIN t.scopes
                 PROVE  /\ IdsSound(t.scopes[scope]) /\ Entries(t.scopes[scope], w)
                        /\ DOMAIN t.scopes[scope].ids = DOMAIN w.ids \ {first}
      OBVIOUS
    <3>1. Aged(w, t.scopes[scope])
      BY <1>12
    <3>2. IdsSound(t.scopes[scope])
      BY <1>5, <3>1, OldestGone
    <3> QED
      BY <1>7, <3>1, <3>2 DEF Aged
  <2>2. scope \notin DOMAIN t.scopes => DOMAIN w.ids = {first}
    BY <1>3, <1>9, <1>10 DEF w
  <2>3. DOMAIN t.scopes \subseteq DOMAIN s.scopes
    BY <1>10
  <2> QED
    BY <1>3, <1>11, <2>1, <2>2, <2>3 DEF Loses, w
<1>14. Drops(s, t, {h}) /\ Cardinality(Known(t)) = Cardinality(Known(s)) - 1
  BY <1>1, <1>3, <1>10, <1>13, LosesOne
<1>15. g \in Seq(SeenRecords) /\ Rising(g, Generation) /\ k \in 0..Len(g) /\ DOMAIN g = 1..Len(g)
       /\ Len(g) \in Nat
  BY <1>1 DEF QueueSound
<1>16. /\ t.globalOrder \in Seq(SeenRecords) /\ Rising(t.globalOrder, Generation)
       /\ Len(t.globalOrder) = Len(g) - k /\ ToSet(t.globalOrder) \subseteq ToSet(g)
       /\ \A i \in 1..Len(g) : k < i => g[i] \in ToSet(t.globalOrder)
  <2>1. t.globalOrder = SubSeq(g, k + 1, Len(g))
    BY <1>10
  <2> DEFINE p == t.globalOrder
  <2> HIDE DEF g, p
  <2>2. p \in Seq(SeenRecords) /\ Rising(p, Generation) /\ LeftOf(p, g, k)
    <3>1. p = SubSeq(g, k + 1, Len(g))
      BY <2>1 DEF p
    <3> QED
      BY <1>15, <3>1, GenerationType, RisingRest
  <2> QED
    BY <2>2 DEF LeftOf, p
<1>17. Shortens(s, t)
  <2> SUFFICES ASSUME NEW r \in ToSet(g), SeenIds!GlobalLive(t, r) PROVE r \in ToSet(t.globalOrder)
    BY <1>16 DEF Shortens
  <2>1. PICK i \in 1..Len(g) : r = g[i]
    BY <1>15 DEF ToSet
  <2>2. r \in SeenRecords /\ SeenShaped(t)
    BY <1>14, <1>15, <2>1 DEF Drops
  <2>3. r \in LiveOf(t)
    BY <2>2, LiveIs
  <2>4. PICK j \in Known(t) : r = RecordOf(t, j)
    BY <2>3 DEF LiveOf
  <2>5. j # h /\ j \in Known(s) /\ RecordOf(t, j) = RecordOf(s, j)
    BY <1>14, <2>4 DEF Drops, RecordOf
  <2>6. r \in LiveOf(s)
    BY <2>4, <2>5 DEF LiveOf
  <2>7. SeenIds!GlobalLive(s, g[i])
    BY <1>1, <2>1, <2>2, <2>6, LiveIs
  <2>8. i # k
    <3> SUFFICES ASSUME i = k PROVE FALSE
      OBVIOUS
    <3>1. RecordOf(s, j) = RecordOf(s, h)
      BY <1>2, <2>1, <2>4, <2>5
    <3>2. j = <<j[1], j[2]>> /\ h = <<h[1], h[2]>>
      BY <1>1, <2>5, KnownIs
    <3>3. j[1] = h[1] /\ j[2] = h[2]
      BY <3>1 DEF RecordOf
    <3> QED
      BY <2>5, <3>2, <3>3
  <2>9. k < i
    <3>1. i \in 1..k => i \in LiveTo(s, k)
      BY <2>7 DEF LiveTo
    <3>2. i \notin 1..k
      BY <2>8, <3>1
    <3> QED
      BY <1>15, <3>2
  <2> QED
    BY <1>16, <2>1, <2>9
<1>18. QueueSound(t) /\ SeenIds!WindowIn(t) = RemoveAt(SeenIds!WindowIn(s), 1)
  BY <1>1, <1>2, <1>14, <1>17, DropsOne
<1>19. t.total = MaxTotal /\ t.total = Cardinality(Known(t))
  <2>1. Cardinality(LiveTo(s, k)) = 1
    BY FS_Singleton
  <2> QED
    BY <1>1, <1>10, <1>14, <2>1
<1>20. SeenSound(t)
  BY <1>14, <1>18, <1>19 DEF SeenSound, Drops
<1>21. ScopesWithin(t)
  <2> SUFFICES ASSUME NEW x \in DOMAIN t.scopes
               PROVE  DOMAIN t.scopes[x].ids # {} /\ Cardinality(DOMAIN t.scopes[x].ids) <= MaxPerScope
    BY DEF ScopesWithin
  <2>1. CASE x # scope
    BY <1>10, <1>11, <2>1 DEF ScopesWithin
  <2>2. CASE x = scope
    <3>1. DOMAIN t.scopes[scope].ids = DOMAIN w.ids \ {first}
      BY <1>7, <1>12, <2>2 DEF Aged
    <3>2. DOMAIN w.ids # {first}
      BY <1>9, <1>10, <2>2 DEF w
    <3>3. DOMAIN w.ids \ {first} # {}
      BY <1>3, <3>2
    <3>4. IsFiniteSet(DOMAIN w.ids) /\ Cardinality(DOMAIN w.ids) = Len(w.order) /\ Len(w.order) \in Nat
      BY <1>5, OrderLength
    <3>5. Cardinality(DOMAIN w.ids \ {first}) = Cardinality(DOMAIN w.ids) - 1
      BY <1>3, <3>4, OneLess, Zenon
    <3>6. Cardinality(DOMAIN w.ids) <= MaxPerScope
      BY <1>3 DEF ScopesWithin, w
    <3>7. Cardinality(DOMAIN t.scopes[x].ids) <= MaxPerScope
      <4> DEFINE n == Cardinality(DOMAIN w.ids)
      <4>1. n \in Nat /\ n <= MaxPerScope /\ MaxPerScope \in Nat /\ Cardinality(DOMAIN t.scopes[x].ids) = n - 1
        BY <2>2, <3>1, <3>4, <3>5, <3>6, SeenAssumption
      <4> HIDE DEF n
      <4> QED
        BY <4>1
    <3> QED
      BY <2>2, <3>1, <3>3, <3>7
  <2> QED
    BY <2>1, <2>2
<1> QED
  BY <1>1, <1>15, <1>16, <1>18, <1>19, <1>20, <1>21

LEMMA TailRemoves ==
    ASSUME NEW V, NEW q \in Seq(V), Len(q) > 0
    PROVE  RemoveAt(q, 1) = Tail(q)
<1> DEFINE p == RemoveAt(q, 1)
           r == Tail(q)
<1>1. p \in Seq(V) /\ Len(p) = Len(q) - 1 /\ \A i \in 1..(Len(q) - 1) : p[i] = q[i + 1]
  <2>1. 1 \in 1..Len(q)
    OBVIOUS
  <2>2. /\ p \in Seq(V) /\ Len(p) = Len(q) - 1
        /\ \A i \in 1..(Len(q) - 1) : p[i] = IF i < 1 THEN q[i] ELSE q[i + 1]
    BY <2>1, RemoveAtPlaces
  <2> HIDE DEF p
  <2> QED
    BY <2>2
<1>2. r \in Seq(V) /\ Len(r) = Len(q) - 1 /\ \A i \in 1..(Len(q) - 1) : r[i] = q[i + 1]
  OBVIOUS
<1> HIDE DEF p, r
<1>3. p = r
  BY <1>1, <1>2
<1> QED
  BY <1>3 DEF p, r

\* What holds between two calls.
SeenKept(s) ==
    /\ SeenSound(s) /\ ScopesWithin(s)
    /\ s.total <= MaxTotal /\ Len(s.globalOrder) <= 2 * MaxTotal

LEMMA WindowLength ==
    ASSUME NEW s, SeenSound(s)
    PROVE  /\ Len(SeenIds!WindowIn(s)) = s.total /\ s.total \in Nat
           /\ SeenIds!WindowIn(s) \in Seq({SeenIds!Observation(s, r) : r \in LiveOf(s)})
<1>1. SeenShaped(s) /\ QueueSound(s) /\ s.total = Cardinality(Known(s))
  BY DEF SeenSound
<1> QED
  BY <1>1, WindowIs, LiveRecordsCount, KnownFinite, FS_CardinalityType

\* evict_global takes the oldest observation of all where there is one too many.
LEMMA PopKeeps ==
    ASSUME NEW s, SeenSound(s), ScopesWithin(s), s.total <= MaxTotal + 1,
           NEW t, t = SeenIds!PopGlobal(s)
    PROVE  /\ SeenSound(t) /\ ScopesWithin(t) /\ t.total <= MaxTotal
           /\ Len(t.globalOrder) <= Len(s.globalOrder)
           /\ SeenIds!WindowIn(t) = SeenIds!Abstract!TrimTotal(SeenIds!WindowIn(s))
<1> DEFINE W == SeenIds!WindowIn(s)
           X == {SeenIds!Observation(s, r) : r \in LiveOf(s)}
<1>1. Popped(s, t, Min(Enough(s)))
  BY PopGlobalIs DEF SeenSound
<1>2. Len(W) = s.total /\ s.total \in Nat /\ W \in Seq(X) /\ MaxTotal \in Nat /\ MaxTotal > 0
  BY WindowLength, SeenAssumption
<1> HIDE DEF W, X
<1>3. CASE s.total <= MaxTotal
  <2>1. SeenIds!Abstract!TrimTotal(W) = W
    BY <1>2, <1>3 DEF SeenIds!Abstract!TrimTotal
  <2>2. Len(s.globalOrder) \in Nat
    BY DEF SeenSound, QueueSound
  <2>3. /\ SeenSound(t) /\ ScopesWithin(t) /\ t.total <= MaxTotal
        /\ Len(t.globalOrder) = Len(s.globalOrder)
        /\ SeenIds!WindowIn(t) = SeenIds!WindowIn(s)
    BY <1>1, <1>3, PopNothing
  <2> QED
    BY <2>1, <2>2, <2>3 DEF W
<1>4. CASE ~(s.total <= MaxTotal)
  <2>1. s.total = MaxTotal + 1
    BY <1>2, <1>4
  <2>2. SeenIds!Abstract!TrimTotal(W) = Tail(W)
    BY <1>2, <2>1 DEF SeenIds!Abstract!TrimTotal
  <2>3. RemoveAt(W, 1) = Tail(W)
    BY <1>2, <2>1, TailRemoves
  <2>4. PICK k \in 1..Len(s.globalOrder) :
              /\ Min(Enough(s)) = k /\ LiveTo(s, k) = {k}
              /\ s.globalOrder[k] = SeenIds!LiveRecords(s)[1]
              /\ 1 \in 1..Len(SeenIds!LiveRecords(s))
    BY <2>1, PopsToFirstLive
  <2>5. Popped(s, t, k)
    BY <1>1, <2>4
  <2>6. /\ SeenSound(t) /\ ScopesWithin(t) /\ t.total <= MaxTotal
        /\ Len(t.globalOrder) <= Len(s.globalOrder)
        /\ SeenIds!WindowIn(t) = RemoveAt(SeenIds!WindowIn(s), 1)
    BY <2>1, <2>4, <2>5, PopOne
  <2> QED
    BY <2>2, <2>3, <2>6 DEF W
<1> QED
  BY <1>3, <1>4

\* Compaction changes nothing but the length of the global queue.
LEMMA CompactKeeps ==
    ASSUME NEW s, SeenSound(s), ScopesWithin(s), s.total <= MaxTotal, NEW t, t = SeenIds!Compact(s)
    PROVE  SeenKept(t) /\ SeenIds!WindowIn(t) = SeenIds!WindowIn(s)
<1>1. SeenShaped(s) /\ QueueSound(s) /\ s.total = Cardinality(Known(s)) /\ MaxTotal \in Nat
      /\ s.globalOrder \in Seq(SeenRecords)
  BY SeenAssumption DEF SeenSound, QueueSound
<1>2. CASE ~(Len(s.globalOrder) > 2 * MaxTotal)
  <2>1. t = s
    BY <1>2 DEF SeenIds!Compact
  <2>2. Len(s.globalOrder) <= 2 * MaxTotal
    BY <1>1, <1>2
  <2> QED
    BY <2>1, <2>2 DEF SeenKept
<1>3. CASE Len(s.globalOrder) > 2 * MaxTotal
  <2> DEFINE L == SeenIds!LiveRecords(s)
  <2>1. s = [scopes |-> s.scopes, globalOrder |-> s.globalOrder, total |-> s.total, next |-> s.next]
    BY <1>1 DEF SeenShaped
  <2>2. t = [s EXCEPT !.globalOrder = L]
    BY <1>3 DEF SeenIds!Compact
  <2> HIDE DEF L
  <2>3. /\ Table(t, s) /\ t.scopes = s.scopes /\ t.total = s.total /\ t.globalOrder = L
    BY <2>1, <2>2 DEF Table
  <2>4. \A x \in DOMAIN s.scopes :
                /\ IdsSound(t.scopes[x]) /\ Entries(t.scopes[x], s.scopes[x])
                /\ DOMAIN t.scopes[x].ids = DOMAIN s.scopes[x].ids
    BY <1>1, <2>3 DEF SeenShaped, Entries
  <2>5. Drops(s, t, {}) /\ Known(t) = Known(s)
    BY <1>1, <2>3, <2>4, LosesNone
  <2>6. L \in Seq(SeenRecords) /\ Rising(L, Generation) /\ ToSet(L) = LiveOf(s) /\ Len(L) = Cardinality(Known(s))
    BY <1>1, LiveRecordsAre, LiveRecordsCount DEF L
  <2>7. LiveOf(t) = LiveOf(s) /\ LiveOf(s) \subseteq ToSet(s.globalOrder)
    BY <1>1, <2>3, <2>5 DEF LiveOf, RecordOf, QueueSound
  <2>8. SeenShaped(t)
    BY <2>5 DEF Drops
  <2>9. Shortens(s, t)
    <3>1. ASSUME NEW r \in ToSet(s.globalOrder), SeenIds!GlobalLive(t, r) PROVE r \in ToSet(t.globalOrder)
      <4>1. r \in SeenRecords
        BY <1>1 DEF ToSet
      <4>2. r \in LiveOf(t)
        BY <2>8, <3>1, <4>1, LiveIs
      <4> QED
        BY <2>3, <2>6, <2>7, <4>2
    <3> QED
      BY <2>3, <2>6, <2>7, <3>1 DEF Shortens
  <2>10. QueueSound(t) /\ SeenIds!WindowIn(t) = SeenIds!WindowIn(s)
    BY <1>1, <2>5, <2>9, DropsNone
  <2>11. SeenSound(t)
    BY <1>1, <2>3, <2>5, <2>8, <2>10 DEF SeenSound
  <2>12. ScopesWithin(t)
    BY <2>3 DEF ScopesWithin
  <2>13. t.total <= MaxTotal /\ Len(t.globalOrder) <= 2 * MaxTotal
    <3>1. s.total \in Nat
      BY <1>1, KnownFinite, FS_CardinalityType
    <3>2. Len(t.globalOrder) = s.total /\ t.total = s.total
      BY <1>1, <2>3, <2>6
    <3> QED
      BY <1>1, <3>1, <3>2
  <2> QED
    BY <2>10, <2>11, <2>12, <2>13 DEF SeenKept
<1> QED
  BY <1>2, <1>3

\* observe_with_match: the same as in the plain queue.
LEMMA NotedKeeps ==
    ASSUME NEW s, SeenKept(s), NEW scope \in SeenScopes, NEW id \in Ids, NEW matched \in BOOLEAN
    PROVE  /\ SeenKept(SeenIds!Noted(s, scope, id, matched))
           /\ SeenIds!WindowIn(SeenIds!Noted(s, scope, id, matched))
                = SeenIds!Abstract!Noted(SeenIds!WindowIn(s), scope, id, matched)
<1>1. SeenSound(s) /\ SeenShaped(s) /\ QueueSound(s) /\ ScopesWithin(s)
      /\ s.total <= MaxTotal /\ Len(s.globalOrder) <= 2 * MaxTotal
      /\ MaxTotal \in Nat /\ MaxPerScope \in Nat /\ s.total \in Nat
  BY WindowLength, SeenAssumption DEF SeenKept, SeenSound
<1>2. SeenIds!Abstract!Places(scope, id, SeenIds!WindowIn(s)) # {} <=> SeenIds!Seen(s, scope, id)
  BY <1>1, SameAnswer
<1>3. CASE SeenIds!Seen(s, scope, id)
  BY <1>2, <1>3 DEF SeenIds!Noted, SeenIds!Abstract!Noted
<1>4. CASE ~SeenIds!Seen(s, scope, id)
  <2> DEFINE entry == [generation |-> s.next, matched |-> matched]
             before == SeenIds!WindowOf(s, scope)
             w == WithId(before, id, entry)
             a == AddedTo(s, scope, id, entry)
             v == SeenIds!EvictScope(w)
             t == [scopes |-> SeenIds!With(s.scopes, scope, v),
                   globalOrder |-> Append(s.globalOrder, <<scope, id, s.next>>),
                   total |-> s.total + 1 - (Cardinality(DOMAIN w.ids) - Cardinality(DOMAIN v.ids)),
                   next |-> s.next + 1]
             u == SeenIds!PopGlobal(t)
             o == [scope |-> scope, id |-> id, matched |-> matched]
             W == SeenIds!WindowIn(s)
  <2>1. SeenIds!Noted(s, scope, id, matched) = SeenIds!Compact(u)
    <3>1. w = [ids |-> SeenIds!With(before.ids, id, entry), order |-> Append(before.order, <<id, s.next>>)]
      BY DEF WithId
    <3>2. \A S : SeenIds!Cardinality(S) = Cardinality(S)
      BY SameOperators
    <3> HIDE DEF w
    <3> QED
      BY <1>4, <3>1, <3>2 DEF SeenIds!Noted
  <2>2. /\ SeenSound(a) /\ DOMAIN a.scopes = DOMAIN s.scopes \cup {scope}
        /\ \A x \in DOMAIN s.scopes : x # scope => a.scopes[x] = s.scopes[x]
        /\ DOMAIN a.scopes[scope].ids = DOMAIN before.ids \cup {id}
        /\ id \notin DOMAIN before.ids
        /\ SeenIds!WindowIn(a) = Append(W, o)
    <3> HIDE DEF entry, a
    <3>1. entry = [generation |-> s.next, matched |-> matched] /\ a = AddedTo(s, scope, id, entry)
      BY DEF entry, a
    <3> QED
      BY <1>1, <1>4, <3>1, AddedSound
  <2>3. /\ a.scopes[scope] = w /\ a.total = s.total + 1 /\ a.next = s.next + 1
        /\ a.globalOrder = Append(s.globalOrder, <<scope, id, s.next>>)
    <3>1. a.scopes = SeenIds!With(s.scopes, scope, w)
      BY DEF AddedTo
    <3> HIDE DEF w
    <3> QED
      BY <3>1 DEF SeenIds!With, AddedTo
  <2>4. /\ t.scopes = SeenIds!With(s.scopes, scope, v) /\ t.next = a.next /\ t.globalOrder = a.globalOrder
        /\ t.total = a.total - (Cardinality(DOMAIN w.ids) - Cardinality(DOMAIN v.ids))
        /\ Table(t, a)
    <3> DEFINE p1 == SeenIds!With(s.scopes, scope, v)
               p2 == Append(s.globalOrder, <<scope, id, s.next>>)
               p3 == s.total + 1 - (Cardinality(DOMAIN w.ids) - Cardinality(DOMAIN v.ids))
               p4 == s.next + 1
    <3>1. t = [scopes |-> p1, globalOrder |-> p2, total |-> p3, next |-> p4]
      BY Zenon
    <3>2. a.next = p4 /\ a.globalOrder = p2
          /\ p3 = a.total - (Cardinality(DOMAIN w.ids) - Cardinality(DOMAIN v.ids))
      <4>1. DOMAIN v.ids \subseteq DOMAIN w.ids
        <5> HIDE DEF w
        <5> QED
          BY DEF SeenIds!EvictScope, SeenIds!Without, SeenIds!Restrict
      <4>2. IsFiniteSet(DOMAIN w.ids)
        <5>1. w \in {a.scopes[x] : x \in DOMAIN a.scopes} /\ SeenShaped(a)
          <6> HIDE DEF w, a
          <6> QED
            BY <2>2, <2>3 DEF SeenSound
        <5>2. IdsSound(w)
          BY <5>1 DEF SeenShaped
        <5> QED
          BY <5>2, OrderLength
      <4> HIDE DEF w, v, a
      <4>3. IsFiniteSet(DOMAIN v.ids)
        BY <4>1, <4>2, FS_Subset
      <4>4. Cardinality(DOMAIN w.ids) \in Nat /\ Cardinality(DOMAIN v.ids) \in Nat
        BY <4>2, <4>3, FS_CardinalityType
      <4>5. a.total = s.total + 1
        BY <2>3
      <4>6. p3 = a.total - (Cardinality(DOMAIN w.ids) - Cardinality(DOMAIN v.ids))
        BY <1>1, <4>4, <4>5
      <4> QED
        BY <2>3, <4>6
    <3> HIDE DEF w, v, a, t, p1, p2, p3, p4
    <3>3. /\ t = [scopes |-> t.scopes, globalOrder |-> t.globalOrder, total |-> t.total, next |-> t.next]
          /\ t.scopes = p1 /\ t.globalOrder = p2 /\ t.total = p3 /\ t.next = p4
      BY <3>1
    <3> QED
      BY <3>2, <3>3 DEF Table, p1
  <2> HIDE DEF w, v, t, u, a, o, entry
  <2>5. /\ DOMAIN t.scopes = DOMAIN a.scopes /\ t.scopes[scope] = v
        /\ \A x \in DOMAIN a.scopes : x # scope => t.scopes[x] = a.scopes[x]
    <3>1. /\ DOMAIN t.scopes = DOMAIN s.scopes \cup {scope} /\ t.scopes[scope] = v
          /\ \A x \in DOMAIN s.scopes : x # scope => t.scopes[x] = s.scopes[x]
      <4>1. t.scopes = SeenIds!With(s.scopes, scope, v)
        BY <2>4
      <4> QED
        BY <4>1 DEF SeenIds!With
    <3> QED
      BY <2>2, <3>1
  <2>6. DOMAIN w.ids # {} /\ Cardinality(DOMAIN w.ids) <= MaxPerScope + 1
    <3>1. DOMAIN w.ids = DOMAIN before.ids \cup {id}
      BY <2>2, <2>3
    <3>2. IsFiniteSet(DOMAIN before.ids) /\ Cardinality(DOMAIN before.ids) <= MaxPerScope
      <4>1. CASE scope \in DOMAIN s.scopes
        <5>1. before = s.scopes[scope] /\ IdsSound(before)
          BY <1>1, <4>1 DEF SeenIds!WindowOf, SeenShaped
        <5>2. IsFiniteSet(DOMAIN before.ids)
          BY <5>1, OrderLength
        <5> QED
          BY <1>1, <4>1, <5>1, <5>2 DEF ScopesWithin
      <4>2. CASE scope \notin DOMAIN s.scopes
        <5>1. DOMAIN before.ids = {}
          BY <4>2 DEF SeenIds!WindowOf, SeenIds!NoWindow
        <5> QED
          BY <1>1, <5>1, FS_EmptySet
      <4> QED
        BY <4>1, <4>2
    <3> HIDE DEF before
    <3>3. Cardinality(DOMAIN w.ids) = Cardinality(DOMAIN before.ids) + 1
      BY <2>2, <3>1, <3>2, FS_AddElement
    <3>4. Cardinality(DOMAIN before.ids) \in Nat
      BY <3>2, FS_CardinalityType
    <3> QED
      BY <1>1, <3>1, <3>2, <3>3, <3>4
  <2>7. /\ SeenSound(t)
        /\ SeenIds!WindowIn(t) = SeenIds!Abstract!TrimScope(scope, SeenIds!WindowIn(a))
        /\ DOMAIN v.ids # {} /\ Cardinality(DOMAIN v.ids) <= MaxPerScope
        /\ t.total <= a.total
    <3>1. scope \in DOMAIN a.scopes /\ w = a.scopes[scope] /\ v = t.scopes[scope] /\ v = SeenIds!EvictScope(w)
      BY <2>2, <2>3, <2>5 DEF v
    <3>2. Evicts(a, t, scope)
      BY <2>4, <2>5, <3>1 DEF Evicts
    <3>3. DOMAIN a.scopes[scope].ids # {} /\ Cardinality(DOMAIN a.scopes[scope].ids) <= MaxPerScope + 1
      BY <2>6, <3>1
    <3>4. /\ SeenSound(t)
          /\ SeenIds!WindowIn(t) = SeenIds!Abstract!TrimScope(scope, SeenIds!WindowIn(a))
          /\ DOMAIN t.scopes[scope].ids # {} /\ Cardinality(DOMAIN t.scopes[scope].ids) <= MaxPerScope
          /\ t.total <= a.total
      BY <2>2, <3>1, <3>2, <3>3, EvictKeeps
    <3> QED
      BY <3>1, <3>4
  <2>8. ScopesWithin(t)
    <3> SUFFICES ASSUME NEW x \in DOMAIN t.scopes
                 PROVE  DOMAIN t.scopes[x].ids # {} /\ Cardinality(DOMAIN t.scopes[x].ids) <= MaxPerScope
      BY DEF ScopesWithin
    <3>1. CASE x = scope
      BY <2>5, <2>7, <3>1
    <3>2. CASE x # scope
      <4>1. x \in DOMAIN s.scopes /\ t.scopes[x] = s.scopes[x]
        BY <2>2, <2>5, <3>2
      <4> QED
        BY <1>1, <4>1 DEF ScopesWithin
    <3> QED
      BY <3>1, <3>2
  <2>9. t.total <= MaxTotal + 1
    <3>1. t.total \in Nat
      BY <2>7, WindowLength
    <3> QED
      BY <1>1, <2>3, <2>7, <3>1
  <2>10. /\ SeenSound(u) /\ ScopesWithin(u) /\ u.total <= MaxTotal
         /\ SeenIds!WindowIn(u) = SeenIds!Abstract!TrimTotal(SeenIds!WindowIn(t))
    BY <2>7, <2>8, <2>9, PopKeeps DEF u
  <2>11. SeenKept(SeenIds!Compact(u)) /\ SeenIds!WindowIn(SeenIds!Compact(u)) = SeenIds!WindowIn(u)
    BY <2>10, CompactKeeps
  <2>12. SeenIds!Abstract!Noted(W, scope, id, matched)
            = SeenIds!Abstract!TrimTotal(SeenIds!Abstract!TrimScope(scope, Append(W, o)))
    BY <1>2, <1>4 DEF SeenIds!Abstract!Noted, o
  <2> QED
    BY <2>1, <2>2, <2>7, <2>10, <2>11, <2>12
<1> QED
  BY <1>3, <1>4

-----------------------------------------------------------------------------
(* clear_peer and clear_subscription *)

Without(s, gone) ==
    LET removed == {h \in (DOMAIN s.scopes \cap gone) \X Ids : SeenIds!Seen(s, h[1], h[2])} IN
    [s EXCEPT !.scopes = SeenIds!Without(@, gone),
              !.total = IF Cardinality(removed) > @ THEN 0 ELSE @ - Cardinality(removed),
              !.globalOrder = Only(@, {record \in ToSet(@) : record[1] \notin gone})]

LEMMA ClearKeeps ==
    ASSUME NEW s, SeenKept(s), NEW gone, NEW t, t = Without(s, gone)
    PROVE  /\ SeenKept(t)
           /\ SeenIds!WindowIn(t)
                = Only(SeenIds!WindowIn(s), {o \in ToSet(SeenIds!WindowIn(s)) : o.scope \notin gone})
<1> DEFINE H == {h \in Known(s) : h[1] \in gone}
           g == s.globalOrder
           kept == {record \in ToSet(g) : record[1] \notin gone}
           removed == {h \in (DOMAIN s.scopes \cap gone) \X Ids : SeenIds!Seen(s, h[1], h[2])}
<1>1. SeenSound(s) /\ SeenShaped(s) /\ QueueSound(s) /\ ScopesWithin(s) /\ s.total = Cardinality(Known(s))
      /\ s.total <= MaxTotal /\ Len(g) <= 2 * MaxTotal
      /\ MaxTotal \in Nat /\ s.total \in Nat
  BY WindowLength, SeenAssumption DEF SeenKept, SeenSound
<1>2. removed = H
  <2>1. ASSUME NEW h \in removed PROVE h \in H
    <3>1. h = <<h[1], h[2]>> /\ h[1] \in DOMAIN s.scopes /\ h[1] \in gone /\ h[2] \in DOMAIN s.scopes[h[1]].ids
      BY <1>1, KnownIs
    <3>2. h \in Known(s)
      BY <1>1, <3>1, KnownIs
    <3> QED
      BY <3>1, <3>2
  <2>2. ASSUME NEW h \in H PROVE h \in removed
    <3>1. h = <<h[1], h[2]>> /\ h[1] \in DOMAIN s.scopes /\ h[2] \in Ids /\ SeenIds!Seen(s, h[1], h[2])
      BY <1>1, KnownIs DEF Known
    <3> QED
      BY <3>1
  <2> QED
    BY <2>1, <2>2
<1>3. /\ IsFiniteSet(H) /\ Cardinality(H) \in Nat /\ Cardinality(H) <= s.total
      /\ Cardinality(Known(s) \ H) = s.total - Cardinality(H)
  <2>1. IsFiniteSet(Known(s)) /\ H \in SUBSET Known(s) /\ Known(s) \cap H = H
    BY KnownFinite
  <2>2. IsFiniteSet(H) /\ Cardinality(H) <= Cardinality(Known(s))
    BY <2>1, FS_Subset
  <2>3. Cardinality(Known(s) \ H) = Cardinality(Known(s)) - Cardinality(H)
    BY <2>1, FS_Difference
  <2> QED
    BY <1>1, <2>2, <2>3, FS_CardinalityType
<1>4. /\ t.scopes = SeenIds!Without(s.scopes, gone) /\ t.total = s.total - Cardinality(H)
      /\ t.globalOrder = Only(g, kept) /\ Table(t, s)
  <2>1. s = [scopes |-> s.scopes, globalOrder |-> s.globalOrder, total |-> s.total, next |-> s.next]
    BY <1>1 DEF SeenShaped
  <2> DEFINE p1 == SeenIds!Without(s.scopes, gone)
             p2 == Only(g, kept)
             p3 == IF Cardinality(removed) > s.total THEN 0 ELSE s.total - Cardinality(removed)
  <2>2. t = [s EXCEPT !.scopes = p1, !.total = p3, !.globalOrder = p2]
    BY Zenon DEF Without
  <2>3. p3 = s.total - Cardinality(H)
    <3> HIDE DEF H, removed
    <3> QED
      BY <1>1, <1>2, <1>3
  <2> HIDE DEF p1, p2, p3
  <2>4. t = [scopes |-> p1, globalOrder |-> p2, total |-> p3, next |-> s.next]
    BY <2>1, <2>2
  <2>5. t.scopes = p1 /\ t.globalOrder = p2 /\ t.total = p3 /\ Table(t, s)
    BY <2>4 DEF Table
  <2> QED
    BY <2>3, <2>5 DEF p1, p2
<1> HIDE DEF removed
<1>5. DOMAIN t.scopes = DOMAIN s.scopes \ gone /\ \A x \in DOMAIN t.scopes : t.scopes[x] = s.scopes[x]
  BY <1>4 DEF SeenIds!Without, SeenIds!Restrict
<1>6. SeenShaped(t)
  BY <1>1, <1>4, <1>5 DEF SeenShaped, Table
<1>7. Drops(s, t, H)
  <2>1. ASSUME NEW h \in SeenScopes \X Ids PROVE h \in Known(t) <=> h \in Known(s) /\ h[1] \notin gone
    <3>1. h \in Known(t) <=> h[1] \in DOMAIN t.scopes /\ h[2] \in DOMAIN t.scopes[h[1]].ids
      BY <1>6, KnownIs DEF Known
    <3>2. h \in Known(s) <=> h[1] \in DOMAIN s.scopes /\ h[2] \in DOMAIN s.scopes[h[1]].ids
      BY <1>1, KnownIs DEF Known
    <3> QED
      BY <1>5, <3>1, <3>2
  <2>2. Known(t) = Known(s) \ H
    <3>1. Known(t) \subseteq SeenScopes \X Ids /\ Known(s) \subseteq SeenScopes \X Ids
      BY DEF Known
    <3> QED
      BY <2>1, <3>1
  <2>3. ASSUME NEW h \in Known(t) PROVE t.scopes[h[1]].ids[h[2]] = s.scopes[h[1]].ids[h[2]]
    <3>1. h[1] \in DOMAIN t.scopes
      BY <1>6, KnownIs
    <3> QED
      BY <1>5, <3>1
  <2> QED
    BY <1>4, <1>6, <2>2, <2>3 DEF Drops, Table
<1>8. g \in Seq(SeenRecords) /\ Rising(g, Generation)
  BY <1>1 DEF QueueSound
<1>9. /\ t.globalOrder \in Seq(SeenRecords) /\ Rising(t.globalOrder, Generation)
      /\ ToSet(t.globalOrder) = ToSet(g) \cap kept /\ Len(t.globalOrder) <= Len(g)
  <2> HIDE DEF g, kept
  <2>1. Only(g, kept) \in Seq(SeenRecords) /\ Rising(Only(g, kept), Generation)
    BY <1>8, GenerationType, RisingOnly
  <2>2. ToSet(Only(g, kept)) = ToSet(g) \cap kept /\ Len(Only(g, kept)) <= Len(g)
    BY <1>8, OnlyRetains
  <2> QED
    BY <1>4, <2>1, <2>2
<1>10. Shortens(s, t)
  <2>1. ASSUME NEW r \in ToSet(g), SeenIds!GlobalLive(t, r) PROVE r \in ToSet(t.globalOrder)
    <3>1. r[1] \in DOMAIN t.scopes
      BY <2>1 DEF SeenIds!GlobalLive, SeenIds!Live, SeenIds!WindowOf, SeenIds!NoWindow
    <3> QED
      BY <1>5, <1>9, <3>1
  <2> QED
    BY <1>9, <2>1 DEF Shortens
<1>11. /\ QueueSound(t) /\ LiveOf(t) = {r \in LiveOf(s) : <<r[1], r[2]>> \notin H}
       /\ \A r \in LiveOf(t) : SeenIds!Observation(t, r) = SeenIds!Observation(s, r)
  <2> HIDE DEF H
  <2> QED
    BY <1>1, <1>7, <1>10, DropsLive
<1>12. SeenKept(t)
  <2>1. t.total = Cardinality(Known(t))
    BY <1>3, <1>4, <1>7 DEF Drops
  <2>2. ScopesWithin(t)
    BY <1>1, <1>5 DEF ScopesWithin
  <2>3. t.total <= MaxTotal
    BY <1>1, <1>3, <1>4
  <2>4. Len(t.globalOrder) <= 2 * MaxTotal
    <3>1. Len(g) \in Nat /\ Len(t.globalOrder) \in Nat
      BY <1>8, <1>9
    <3> QED
      BY <1>1, <1>9, <3>1
  <2> QED
    BY <1>6, <1>11, <2>1, <2>2, <2>3, <2>4 DEF SeenKept, SeenSound
<1> DEFINE L == SeenIds!LiveRecords(s)
           W == SeenIds!WindowIn(s)
           S == {r \in SeenRecords : r[1] \notin gone}
           T == {o \in ToSet(W) : o.scope \notin gone}
           X == {SeenIds!Observation(s, r) : r \in LiveOf(s)}
           p == Only(L, S)
           V == Only(W, T)
<1>13. L \in Seq(SeenRecords) /\ Rising(L, Generation) /\ ToSet(L) = LiveOf(s)
  BY <1>1, LiveRecordsAre
<1>14. /\ W \in Seq(X) /\ Len(W) = Len(L)
       /\ \A i \in 1..Len(L) : W[i] = SeenIds!Observation(s, L[i]) /\ L[i] \in LiveOf(s)
  BY <1>1, WindowIs
<1>15. p \in Seq(SeenRecords) /\ Rising(p, Generation) /\ ToSet(p) = LiveOf(t)
  <2>1. p \in Seq(SeenRecords) /\ Rising(p, Generation) /\ ToSet(p) = ToSet(L) \cap S
    <3> HIDE DEF L, S
    <3> QED
      BY <1>13, GenerationType, RisingOnly, OnlyRetains
  <2>2. ASSUME NEW r \in LiveOf(s) PROVE r \in SeenRecords /\ (<<r[1], r[2]>> \in H <=> r[1] \in gone)
    <3>1. PICK h \in Known(s) : r = RecordOf(s, h)
      BY DEF LiveOf
    <3>2. r \in SeenRecords /\ h = <<h[1], h[2]>> /\ r[1] = h[1] /\ r[2] = h[2]
      BY <1>1, <3>1, KnownIs DEF RecordOf
    <3>3. <<r[1], r[2]>> = h
      BY <3>2
    <3> QED
      BY <3>2, <3>3
  <2> HIDE DEF H, L, p
  <2> QED
    BY <1>11, <1>13, <2>1, <2>2
<1>16. p = SeenIds!LiveRecords(t)
  <2> HIDE DEF p
  <2> QED
    BY <1>6, <1>11, <1>15, LiveRecordsAre
<1> DEFINE U == SeenIds!WindowIn(t)
<1>17. U = [i \in DOMAIN p |-> SeenIds!Observation(t, p[i])]
  BY <1>16 DEF SeenIds!WindowIn
<1>18. \A i \in 1..Len(L) : W[i] \in T <=> L[i] \in S
  <2> SUFFICES ASSUME NEW i \in 1..Len(L) PROVE W[i] \in T <=> L[i] \in S
    OBVIOUS
  <2>1. W[i] \in ToSet(W) /\ L[i] \in SeenRecords
    BY <1>13, <1>14 DEF ToSet
  <2>2. W[i].scope = L[i][1]
    <3>1. W[i] = SeenIds!Observation(s, L[i])
      BY <1>14
    <3> HIDE DEF W, L
    <3> QED
      BY <3>1 DEF SeenIds!Observation
  <2> QED
    BY <2>1, <2>2
<1> HIDE DEF L, W, S, T, X
<1>19. /\ Len(V) = Len(p)
       /\ \A j \in 1..Len(p) : \E i \in 1..Len(L) : p[j] = L[i] /\ V[j] = W[i]
  <2>1. SameSide(L, S, W, T)
    BY <1>14, <1>18 DEF SameSide
  <2>2. Paced(p, L, V, W)
    BY <1>13, <1>14, <2>1, OnlyInStep
  <2> QED
    BY <2>2 DEF Paced
<1>20. V \in Seq(X)
  BY <1>14, OnlyPlaces
<1> HIDE DEF V, p, U
<1>21. DOMAIN p = 1..Len(p) /\ DOMAIN V = 1..Len(p) /\ V = [j \in 1..Len(p) |-> V[j]]
  BY <1>15, <1>19, <1>20
<1>22. ASSUME NEW j \in 1..Len(p) PROVE V[j] = SeenIds!Observation(t, p[j])
  <2>1. PICK i \in 1..Len(L) : p[j] = L[i] /\ V[j] = W[i]
    BY <1>19
  <2>2. p[j] \in LiveOf(t)
    BY <1>15, <1>21 DEF ToSet
  <2> QED
    BY <1>11, <1>14, <2>1, <2>2
<1>23. U = V
  BY <1>17, <1>21, <1>22
<1> QED
  BY <1>12, <1>23 DEF U, V, W, T

-----------------------------------------------------------------------------
(* The refinement *)

SeenInv == SeenKept(seen)

LEMMA SeenInitially == ASSUME SeenIds!Init PROVE SeenInv /\ SeenIds!Abstract!Init
<1> DEFINE s == SeenIds!Empty
<1>1. seen = s /\ reply = SeenIds!NoReply
  BY DEF SeenIds!Init
<1>2. /\ s = [scopes |-> s.scopes, globalOrder |-> s.globalOrder, total |-> s.total, next |-> s.next]
      /\ s.scopes = <<>> /\ s.globalOrder = <<>> /\ s.total = 0 /\ s.next = 1
  BY DEF SeenIds!Empty
<1>3. DOMAIN s.scopes = {} /\ DOMAIN s.globalOrder = {}
  BY <1>2
<1> HIDE DEF s
<1>4. SeenShaped(s)
  BY <1>2, <1>3 DEF SeenShaped
<1>5. Known(s) = {}
  BY <1>3, <1>4, KnownIs
<1>6. QueueSound(s)
  <2>1. LiveOf(s) = {}
    BY <1>5 DEF LiveOf
  <2>2. s.globalOrder \in Seq(SeenRecords)
    BY <1>2
  <2> QED
    BY <1>3, <2>1, <2>2 DEF QueueSound, Rising
<1>7. SeenSound(s)
  BY <1>2, <1>4, <1>5, <1>6, FS_EmptySet DEF SeenSound
<1>8. SeenKept(s)
  <2>1. Len(s.globalOrder) = 0
    BY <1>2
  <2> QED
    BY <1>2, <1>3, <1>7, <2>1, SeenAssumption DEF SeenKept, ScopesWithin
<1>9. SeenIds!WindowIn(s) = <<>>
  <2>1. Len(SeenIds!WindowIn(s)) = 0 /\ SeenIds!WindowIn(s) \in Seq({SeenIds!Observation(s, r) : r \in LiveOf(s)})
    BY <1>2, <1>7, WindowLength
  <2> QED
    BY <2>1
<1> QED
  BY <1>1, <1>8, <1>9 DEF SeenInv, SeenIds!Abstract!Init, SeenIds!Window, SeenIds!NoReply, SeenIds!Abstract!NoReply

LEMMA SeenObserves ==
    ASSUME SeenInv, NEW scope \in SeenIds!Scopes, NEW id \in Ids, NEW matched \in BOOLEAN,
           SeenIds!Observe(scope, id, matched)
    PROVE  SeenInv' /\ SeenIds!Abstract!Observe(scope, id, matched)
<1>1. seen' = SeenIds!Noted(seen, scope, id, matched) /\ reply' = SeenIds!Answered(seen, scope, id)
  BY DEF SeenIds!Observe
<1>2. scope \in SeenScopes /\ SeenKept(seen) /\ SeenShaped(seen) /\ QueueSound(seen)
  BY DEF SeenIds!Scopes, SeenScopes, SeenInv, SeenKept, SeenSound
<1>3. SeenKept(seen') /\ SeenIds!WindowIn(seen') = SeenIds!Abstract!Noted(SeenIds!WindowIn(seen), scope, id, matched)
  BY <1>1, <1>2, NotedKeeps
<1>4. reply' = SeenIds!Abstract!Answered(SeenIds!WindowIn(seen), scope, id)
  BY <1>1, <1>2, SameAnswer
<1> QED
  BY <1>3, <1>4 DEF SeenInv, SeenIds!Window, SeenIds!Abstract!Observe

LEMMA SeenObservesResponse ==
    ASSUME SeenInv, NEW peer \in Peers, NEW wire \in Subscriptions, NEW subscription \in Subscriptions,
           NEW id \in Ids, NEW matched \in BOOLEAN,
           SeenIds!ObserveResponse(peer, wire, subscription, id, matched)
    PROVE  SeenInv' /\ SeenIds!Abstract!ObserveResponse(peer, wire, subscription, id, matched)
<1> DEFINE s == SeenIds!Noted(seen, <<peer, wire>>, id, matched)
<1>1. /\ wire # subscription /\ seen' = SeenIds!Noted(s, <<peer, subscription>>, id, matched)
      /\ reply' = SeenIds!Answered(s, <<peer, subscription>>, id)
  BY DEF SeenIds!ObserveResponse
<1>2. <<peer, wire>> \in SeenScopes /\ <<peer, subscription>> \in SeenScopes /\ SeenKept(seen)
  BY DEF SeenScopes, SeenInv
<1>3. SeenKept(s) /\ SeenIds!WindowIn(s) = SeenIds!Abstract!Noted(SeenIds!WindowIn(seen), <<peer, wire>>, id, matched)
  BY <1>2, NotedKeeps
<1> HIDE DEF s
<1>4. SeenShaped(s) /\ QueueSound(s)
  BY <1>3 DEF SeenKept, SeenSound
<1>5. SeenKept(seen') /\ SeenIds!WindowIn(seen') = SeenIds!Abstract!Noted(SeenIds!WindowIn(s), <<peer, subscription>>, id, matched)
  BY <1>1, <1>2, <1>3, NotedKeeps
<1>6. reply' = SeenIds!Abstract!Answered(SeenIds!WindowIn(s), <<peer, subscription>>, id)
  BY <1>1, <1>2, <1>4, SameAnswer
<1> QED
  BY <1>1, <1>3, <1>5, <1>6 DEF SeenInv, SeenIds!Window, SeenIds!Abstract!ObserveResponse

LEMMA SeenClears ==
    ASSUME SeenInv, NEW gone, SeenIds!Clear(gone)
    PROVE  SeenInv' /\ SeenIds!Abstract!Clear(gone)
<1>1. seen' = Without(seen, gone) /\ reply' = SeenIds!NoReply
  <2>1. \A S : SeenIds!Cardinality(S) = Cardinality(S) /\ SeenIds!Range(S) = ToSet(S)
    BY SameOperators
  <2>2. \A q, S : SeenIds!Only(q, S) = Only(q, S)
    BY SameOperators
  <2> QED
    BY <2>1, <2>2 DEF SeenIds!Clear, Without
<1>2. /\ SeenKept(seen')
      /\ SeenIds!WindowIn(seen')
            = Only(SeenIds!WindowIn(seen), {o \in ToSet(SeenIds!WindowIn(seen)) : o.scope \notin gone})
  BY <1>1, ClearKeeps DEF SeenInv
<1>3. /\ \A S : SeenIds!Abstract!Range(S) = ToSet(S)
      /\ \A q, S : SeenIds!Abstract!Only(q, S) = Only(q, S)
  BY SameOperators
<1> QED
  BY <1>1, <1>2, <1>3 DEF SeenInv, SeenIds!Window, SeenIds!Abstract!Clear, SeenIds!NoReply, SeenIds!Abstract!NoReply

LEMMA SeenRefines ==
    ASSUME SeenInv, SeenIds!Next
    PROVE  SeenInv' /\ SeenIds!Abstract!Next
<1>1. CASE \E scope \in SeenIds!Scopes, id \in Ids, matched \in BOOLEAN : SeenIds!Observe(scope, id, matched)
  <2>1. PICK scope \in SeenIds!Scopes, id \in Ids, matched \in BOOLEAN : SeenIds!Observe(scope, id, matched)
    BY <1>1
  <2>2. SeenInv' /\ SeenIds!Abstract!Observe(scope, id, matched)
    BY <2>1, SeenObserves
  <2>3. scope \in SeenIds!Abstract!Scopes
    BY DEF SeenIds!Scopes, SeenIds!Abstract!Scopes
  <2> QED
    BY <2>2, <2>3 DEF SeenIds!Abstract!Next
<1>2. CASE \E peer \in Peers, wire, subscription \in Subscriptions, id \in Ids, matched \in BOOLEAN :
                SeenIds!ObserveResponse(peer, wire, subscription, id, matched)
  <2>1. PICK peer \in Peers, wire \in Subscriptions, subscription \in Subscriptions, id \in Ids, matched \in BOOLEAN :
                SeenIds!ObserveResponse(peer, wire, subscription, id, matched)
    BY <1>2
  <2>2. SeenInv' /\ SeenIds!Abstract!ObserveResponse(peer, wire, subscription, id, matched)
    BY <2>1, SeenObservesResponse
  <2> QED
    BY <2>2 DEF SeenIds!Abstract!Next
<1>3. CASE \E peer \in Peers : SeenIds!ClearPeer(peer)
  <2>1. PICK peer \in Peers : SeenIds!Clear({peer} \X Subscriptions)
    BY <1>3 DEF SeenIds!ClearPeer
  <2>2. SeenInv' /\ SeenIds!Abstract!Clear({peer} \X Subscriptions)
    BY <2>1, SeenClears
  <2> QED
    BY <2>2 DEF SeenIds!Abstract!Next
<1>4. CASE \E subscription \in Subscriptions : SeenIds!ClearSubscription(subscription)
  <2>1. PICK subscription \in Subscriptions : SeenIds!Clear(Peers \X {subscription})
    BY <1>4 DEF SeenIds!ClearSubscription
  <2>2. SeenInv' /\ SeenIds!Abstract!Clear(Peers \X {subscription})
    BY <2>1, SeenClears
  <2> QED
    BY <2>2 DEF SeenIds!Abstract!Next
<1> QED
  BY <1>1, <1>2, <1>3, <1>4 DEF SeenIds!Next

WindowStep == mode = "seen" => SeenIds!Abstract!Next

LEMMA SeenInductive ==
    ASSUME SeenInv, [MCNext]_<<mode, servingVars, rosterVars, behaviorVars, seenVars, subsVars>>
    PROVE  SeenInv' /\ [WindowStep]_<<SeenIds!Window, reply>>
<1>1. CASE mode = "seen" /\ SeenIds!Next
  BY <1>1, SeenRefines DEF WindowStep
<1>2. CASE UNCHANGED seenVars
  BY <1>2 DEF seenVars, SeenInv, SeenIds!Window
<1> QED
  BY <1>1, <1>2 DEF MCNext

\* Two queues, generation numbers and compaction amount to one plain FIFO window,
\* for every number of peers, subscriptions and ids and every limit
\* (seen_ids.rs, observe_with_match and evict_global).
THEOREM SeenIdsAreAWindow == MCSpec => ImplementsWindow
<1>1. MCInit => SeenInv /\ SeenIds!Abstract!Init
  BY SeenInitially DEF MCInit
<1>2. SeenInv /\ [MCNext]_<<mode, servingVars, rosterVars, behaviorVars, seenVars, subsVars>>
        => SeenInv' /\ [WindowStep]_<<SeenIds!Window, reply>>
  BY SeenInductive
<1> QED
  BY <1>1, <1>2, PTL DEF MCSpec, ImplementsWindow, WindowStep

LEMMA KeptIsBounded == ASSUME SeenInv PROVE SeenIds!Bounded
<1>1. SeenSound(seen) /\ SeenShaped(seen) /\ ScopesWithin(seen) /\ seen.total <= MaxTotal
      /\ Len(seen.globalOrder) <= 2 * MaxTotal /\ seen.total = Cardinality(Known(seen))
  BY DEF SeenInv, SeenKept, SeenSound
<1>2. seen.total = SeenIds!Cardinality({h \in SeenIds!Scopes \X Ids : SeenIds!Seen(seen, h[1], h[2])})
  <2>1. {h \in SeenIds!Scopes \X Ids : SeenIds!Seen(seen, h[1], h[2])} = Known(seen)
    BY DEF Known, SeenScopes, SeenIds!Scopes
  <2> QED
    BY <1>1, <2>1, SameOperators
<1>3. ASSUME NEW scope \in DOMAIN seen.scopes
      PROVE  /\ DOMAIN seen.scopes[scope].ids # {}
             /\ SeenIds!Cardinality(DOMAIN seen.scopes[scope].ids) <= MaxPerScope
             /\ Len(seen.scopes[scope].order) <= MaxPerScope
  <2>1. IdsSound(seen.scopes[scope])
    BY <1>1 DEF SeenShaped
  <2>2. Cardinality(DOMAIN seen.scopes[scope].ids) = Len(seen.scopes[scope].order)
    BY <2>1, OrderLength
  <2>3. DOMAIN seen.scopes[scope].ids # {} /\ Cardinality(DOMAIN seen.scopes[scope].ids) <= MaxPerScope
    BY <1>1 DEF ScopesWithin
  <2>4. SeenIds!Cardinality(DOMAIN seen.scopes[scope].ids) = Cardinality(DOMAIN seen.scopes[scope].ids)
    BY SameOperators
  <2> QED
    BY <2>2, <2>3, <2>4
<1> QED
  BY <1>1, <1>2, <1>3 DEF SeenIds!Bounded

\* The total is the number of ids remembered, and neither queue grows with stale
\* records (seen_ids.rs, evict_global).
THEOREM SeenIdsStayBounded == MCSpec => []SeenIds!Bounded
<1>1. MCInit => SeenInv
  BY SeenInitially DEF MCInit
<1>2. SeenInv /\ [MCNext]_<<mode, servingVars, rosterVars, behaviorVars, seenVars, subsVars>> => SeenInv'
  BY SeenInductive
<1>3. SeenInv => SeenIds!Bounded
  BY KeptIsBounded
<1> QED
  BY <1>1, <1>2, <1>3, PTL DEF MCSpec

-----------------------------------------------------------------------------
(* The subscriptions of the peers *)

LEMMA StoreOperators ==
    ASSUME NEW s, NEW S
    PROVE  /\ PeerSubs!Only(s, S) = Only(s, S) /\ PeerSubs!Abstract!Only(s, S) = Only(s, S)
           /\ PeerSubs!Range(s) = ToSet(s) /\ PeerSubs!Abstract!Range(s) = ToSet(s)
           /\ PeerSubs!Cardinality(S) = Cardinality(S)
           /\ PeerSubs!SumFunctionOnSet(s, S) = SumFunctionOnSet(s, S)
           /\ PeerSubs!Restrict(s, S) = [x \in S |-> s[x]]
           /\ PeerSubs!Min(S) = Min(S)
<1>1. PeerSubs!Only(s, S) = Only(s, S) /\ PeerSubs!Abstract!Only(s, S) = Only(s, S)
  BY Zenon DEF Only, PeerSubs!Only, PeerSubs!Abstract!Only
<1>2. PeerSubs!Range(s) = ToSet(s) /\ PeerSubs!Abstract!Range(s) = ToSet(s)
  BY DEF ToSet, PeerSubs!Range, PeerSubs!Abstract!Range
<1>3. PeerSubs!Min(S) = Min(S)
  BY Zenon DEF Min, PeerSubs!Min
<1>4. PeerSubs!Restrict(s, S) = [x \in S |-> s[x]]
  BY DEF PeerSubs!Restrict
<1>5. PeerSubs!Cardinality(S) = Cardinality(S)
  BY Zenon DEF Cardinality, PeerSubs!Cardinality
<1>6. PeerSubs!SumFunctionOnSet(s, S) = SumFunctionOnSet(s, S)
  BY Zenon DEF SumFunctionOnSet, FoldFunctionOnSet, MapThenFoldSet,
               PeerSubs!SumFunctionOnSet, PeerSubs!FoldFunctionOnSet, PeerSubs!MapThenFoldSet
<1> QED
  BY <1>1, <1>2, <1>3, <1>4, <1>5, <1>6

\* The request of a subscription, and the sum of f over some of them.
RequestOf(store, h) == store[h[1]].subscriptions[h[2]]
Summed(store, f, H) == SumFunctionOnSet([h \in H |-> f[RequestOf(store, h)]], H)

\* r holds the totals of the subscriptions H of a store.
TotalsOf(r, store, H) ==
    r = [peers |-> r.peers, subscriptions |-> Cardinality(H), filters |-> Summed(store, FilterCount, H),
         bytes |-> Summed(store, EncodedBytes, H)]

\* The subscriptions H are a finite part of the store, with requests.
Holds(store, H) == IsFiniteSet(H) /\ \A h \in H : RequestOf(store, h) \in Requests

\* The sum over H is that over G and that over the rest.
InParts(store, f, H, G) ==
    /\ Summed(store, f, G) \in Nat /\ Summed(store, f, H \ G) \in Nat
    /\ Summed(store, f, H) = Summed(store, f, G) + Summed(store, f, H \ G)

\* The sum goes by parts.
LEMMA SummedParts ==
    ASSUME NEW store, NEW f \in [Requests -> Nat], NEW H, Holds(store, H), NEW G \in SUBSET H
    PROVE  InParts(store, f, H, G)
<1> DEFINE g == [h \in H |-> f[RequestOf(store, h)]]
           a == [h \in G |-> f[RequestOf(store, h)]]
           b == [h \in H \ G |-> f[RequestOf(store, h)]]
<1>1. IsFiniteSet(H) /\ \A h \in H : g[h] \in Nat
  BY DEF Holds
<1>2. IsFiniteSet(G) /\ IsFiniteSet(H \ G)
  BY <1>1, FS_Subset
<1>3. (\A h \in G : a[h] = g[h]) /\ (\A h \in H \ G : b[h] = g[h])
  OBVIOUS
<1>4. /\ Summed(store, f, H) = SumFunctionOnSet(g, H)
      /\ Summed(store, f, G) = SumFunctionOnSet(a, G)
      /\ Summed(store, f, H \ G) = SumFunctionOnSet(b, H \ G)
  BY DEF Summed
<1> HIDE DEF g, a, b
<1>5. SumFunctionOnSet(a, G) = SumFunctionOnSet(g, G)
  BY <1>2, <1>3, SumSame
<1>6. SumFunctionOnSet(b, H \ G) = SumFunctionOnSet(g, H \ G)
  BY <1>2, <1>3, SumSame
<1>7. SumFunctionOnSet(g, H) = SumFunctionOnSet(g, G) + SumFunctionOnSet(g, H \ G)
  BY <1>1, SumSplit
<1>8. SumFunctionOnSet(g, G) \in Nat
  BY <1>1, <1>2, SumRemove
<1>9. SumFunctionOnSet(g, H \ G) \in Nat
  BY <1>1, <1>2, SumRemove
<1> QED
  BY <1>4, <1>5, <1>6, <1>7, <1>8, <1>9 DEF InParts

\* A set is the sum of its parts.
LEMMA CountParts ==
    ASSUME NEW H, IsFiniteSet(H), NEW G \in SUBSET H
    PROVE  /\ Cardinality(G) \in Nat /\ Cardinality(H \ G) \in Nat
           /\ Cardinality(H) = Cardinality(G) + Cardinality(H \ G)
<1>1. IsFiniteSet(G) /\ IsFiniteSet(H \ G)
  BY FS_Subset
<1>2. Cardinality(G) \in Nat /\ Cardinality(H \ G) \in Nat
  BY <1>1, FS_CardinalityType
<1>3. G \cup (H \ G) = H /\ G \cap (H \ G) = {}
  OBVIOUS
<1>4. Cardinality(H) = Cardinality(G) + Cardinality(H \ G) - Cardinality({})
  BY <1>1, <1>3, FS_Union
<1>5. Cardinality({}) = 0
  BY FS_EmptySet
<1> QED
  BY <1>2, <1>4, <1>5

\* What the totals are after three of them changed.
LEMMA TotalsUpdated ==
    ASSUME NEW r, NEW p, NEW a, NEW b, NEW c, NEW x, NEW y, NEW z,
           r = [peers |-> p, subscriptions |-> a, filters |-> b, bytes |-> c]
    PROVE  [r EXCEPT !.subscriptions = x, !.filters = y, !.bytes = z]
               = [peers |-> p, subscriptions |-> x, filters |-> y, bytes |-> z]
<1> DEFINE s == [r EXCEPT !.subscriptions = x]
           u == [s EXCEPT !.filters = y]
           v == [u EXCEPT !.bytes = z]
<1>1. s = [peers |-> p, subscriptions |-> x, filters |-> b, bytes |-> c]
  OBVIOUS
<1> HIDE DEF s
<1>2. u = [peers |-> p, subscriptions |-> x, filters |-> y, bytes |-> c]
  BY <1>1
<1> HIDE DEF u
<1>3. v = [peers |-> p, subscriptions |-> x, filters |-> y, bytes |-> z]
  BY <1>2
<1> HIDE DEF v
<1> QED
  BY <1>3 DEF s, u, v

\* subtract_retained leaves the totals of the rest.
LEMMA SubtractKeeps ==
    ASSUME NEW r, NEW store, NEW H, Holds(store, H), TotalsOf(r, store, H), NEW G \in SUBSET H
    PROVE  /\ TotalsOf(PeerSubs!SubtractAll(r, store, G), store, H \ G)
           /\ PeerSubs!SubtractAll(r, store, G).peers = r.peers
<1> DEFINE n == PeerSubs!SubtractAll(r, store, G)
           c == Cardinality(G) k == Cardinality(H \ G)
           fg == Summed(store, FilterCount, G) fr == Summed(store, FilterCount, H \ G)
           bg == Summed(store, EncodedBytes, G) br == Summed(store, EncodedBytes, H \ G)
<1>1. c \in Nat /\ k \in Nat /\ Cardinality(H) = c + k
  BY CountParts DEF Holds
<1>0. FilterCount \in [Requests -> Nat] /\ EncodedBytes \in [Requests -> Nat]
  BY StoreAssumption
<1>2. fg \in Nat /\ fr \in Nat /\ Summed(store, FilterCount, H) = fg + fr
  BY <1>0, SummedParts DEF InParts
<1>3. bg \in Nat /\ br \in Nat /\ Summed(store, EncodedBytes, H) = bg + br
  BY <1>0, SummedParts DEF InParts
<1>4. PeerSubs!Sum(store, FilterCount, G) = fg /\ PeerSubs!Sum(store, EncodedBytes, G) = bg
  BY StoreOperators DEF PeerSubs!Sum, Summed, RequestOf
<1>5. n = [r EXCEPT !.subscriptions = PeerSubs!SaturatingSub(@, c),
                    !.filters = PeerSubs!SaturatingSub(@, fg), !.bytes = PeerSubs!SaturatingSub(@, bg)]
  BY <1>4, StoreOperators DEF PeerSubs!SubtractAll
<1> HIDE DEF n, c, k, fg, fr, bg, br
<1>6. r = [peers |-> r.peers, subscriptions |-> c + k, filters |-> fg + fr, bytes |-> bg + br]
  BY <1>1, <1>2, <1>3 DEF TotalsOf
<1>7. \A x, y \in Nat : PeerSubs!SaturatingSub(x + y, x) = y
  BY DEF PeerSubs!SaturatingSub
<1>8. n = [peers |-> r.peers, subscriptions |-> PeerSubs!SaturatingSub(c + k, c),
           filters |-> PeerSubs!SaturatingSub(fg + fr, fg), bytes |-> PeerSubs!SaturatingSub(bg + br, bg)]
  <2>1. r.subscriptions = c + k /\ r.filters = fg + fr /\ r.bytes = bg + br
    BY <1>6
  <2> QED
    BY <1>5, <1>6, <2>1, TotalsUpdated, Zenon
<1>9. n = [peers |-> r.peers, subscriptions |-> k, filters |-> fr, bytes |-> br]
  BY <1>1, <1>2, <1>3, <1>7, <1>8
<1> QED
  BY <1>9 DEF TotalsOf, n, k, fr, br

\* add_retained adds one subscription to the totals.
LEMMA AddKeeps ==
    ASSUME NEW r, NEW store, NEW H, NEW h, h \notin H, Holds(store, H \cup {h}), TotalsOf(r, store, H)
    PROVE  /\ TotalsOf(PeerSubs!AddRetained(r, RequestOf(store, h)), store, H \cup {h})
           /\ PeerSubs!AddRetained(r, RequestOf(store, h)).peers = r.peers
<1> DEFINE q == RequestOf(store, h)
           n == PeerSubs!AddRetained(r, q)
           all == H \cup {h}
           c == Cardinality(H)
           f == Summed(store, FilterCount, H) b == Summed(store, EncodedBytes, H)
<1>1. q \in Requests /\ IsFiniteSet(all) /\ all \ {h} = H /\ {h} \in SUBSET all
  BY DEF Holds
<1>2. c \in Nat /\ Cardinality(all) = c + 1
  <2>1. IsFiniteSet(H)
    BY <1>1, FS_RemoveElement
  <2> QED
    BY <2>1, FS_AddElement, FS_CardinalityType
<1>3. ASSUME NEW g \in [Requests -> Nat]
      PROVE  Summed(store, g, H) \in Nat /\ Summed(store, g, all) = Summed(store, g, H) + g[q]
  <2> DEFINE e == [x \in {h} |-> g[RequestOf(store, x)]]
  <2>1. /\ Summed(store, g, {h}) \in Nat /\ Summed(store, g, H) \in Nat
        /\ Summed(store, g, all) = Summed(store, g, {h}) + Summed(store, g, H)
    BY <1>1, SummedParts DEF InParts
  <2>2. Summed(store, g, {h}) = SumFunctionOnSet(e, {h}) /\ e[h] = g[q]
    BY DEF Summed
  <2>3. \A x \in {h} : e[x] \in Nat
    BY <1>1
  <2> HIDE DEF e
  <2>4. IsFiniteSet({h}) /\ {h} \ {h} = {}
    BY FS_Singleton
  <2>5. SumFunctionOnSet(e, {h}) = e[h] + SumFunctionOnSet(e, {})
    BY <2>3, <2>4, SumRemove
  <2>6. SumFunctionOnSet(e, {}) = 0
    BY FS_EmptySet, SumStep
  <2>7. g[q] \in Nat
    BY <1>1
  <2> QED
    BY <2>1, <2>2, <2>5, <2>6, <2>7
<1>4. /\ f \in Nat /\ Summed(store, FilterCount, all) = f + FilterCount[q]
      /\ b \in Nat /\ Summed(store, EncodedBytes, all) = b + EncodedBytes[q]
  BY <1>3, StoreAssumption
<1>5. n = [r EXCEPT !.subscriptions = @ + 1, !.filters = @ + FilterCount[q], !.bytes = @ + EncodedBytes[q]]
  BY DEF PeerSubs!AddRetained
<1>6. r = [peers |-> r.peers, subscriptions |-> c, filters |-> f, bytes |-> b]
  BY DEF TotalsOf
<1> HIDE DEF n, q, c, f, b, all
<1>7. n = [peers |-> r.peers, subscriptions |-> c + 1, filters |-> f + FilterCount[q], bytes |-> b + EncodedBytes[q]]
  <2>1. r.subscriptions = c /\ r.filters = f /\ r.bytes = b
    BY <1>6
  <2> QED
    BY <1>5, <1>6, <2>1, TotalsUpdated, Zenon
<1>8. TotalsOf(n, store, all) /\ n.peers = r.peers
  BY <1>2, <1>4, <1>7 DEF TotalsOf
<1> QED
  BY <1>8 DEF n, q, all

\* The totals are those of every store with the same requests.
LEMMA TotalsMove ==
    ASSUME NEW r, NEW store, NEW t, NEW H, TotalsOf(r, store, H),
           \A h \in H : RequestOf(t, h) = RequestOf(store, h)
    PROVE  TotalsOf(r, t, H)
<1>1. ASSUME NEW f PROVE Summed(t, f, H) = Summed(store, f, H)
  <2>1. [h \in H |-> f[RequestOf(t, h)]] = [h \in H |-> f[RequestOf(store, h)]]
    OBVIOUS
  <2> QED
    BY <2>1 DEF Summed
<1> QED
  BY <1>1 DEF TotalsOf

-----------------------------------------------------------------------------
(* Queues *)

\* A queue without one of its keys.
LEMMA RetainQueue ==
    ASSUME NEW V, NEW q \in Seq(V), IsInjective(q), NEW v
    PROVE  /\ PeerSubs!Retain(q, v) = Only(q, ToSet(q) \ {v})
           /\ PeerSubs!Retain(q, v) \in Seq(V) /\ IsInjective(PeerSubs!Retain(q, v))
           /\ ToSet(PeerSubs!Retain(q, v)) = ToSet(q) \ {v}
<1> DEFINE S == ToSet(q) \ {v}
<1>1. PeerSubs!Retain(q, v) = Only(q, S)
  BY StoreOperators DEF PeerSubs!Retain
<1>2. ToSet(q) \cap S = S
  OBVIOUS
<1> HIDE DEF S
<1>3. Only(q, S) \in Seq(V) /\ ToSet(Only(q, S)) = S /\ IsInjective(Only(q, S))
  BY <1>2, OnlyRetains
<1> QED
  BY <1>1, <1>3 DEF S

MovedBack(V, q, v, b) ==
    /\ b \in Seq(V) /\ IsInjective(b) /\ ToSet(b) = ToSet(q) \cup {v} /\ Len(b) >= 1
    /\ Len(b) > 1 => b[1] # v

\* A key is moved to the end of a queue.
LEMMA ToBackQueue ==
    ASSUME NEW V, NEW q \in Seq(V), IsInjective(q), NEW v \in V
    PROVE  /\ PeerSubs!ToBack(q, v) = Append(Only(q, ToSet(q) \ {v}), v)
           /\ MovedBack(V, q, v, PeerSubs!ToBack(q, v))
<1> DEFINE k == PeerSubs!Retain(q, v) b == Append(k, v)
<1>1. /\ k = Only(q, ToSet(q) \ {v}) /\ k \in Seq(V) /\ IsInjective(k) /\ ToSet(k) = ToSet(q) \ {v}
  BY RetainQueue
<1>2. PeerSubs!ToBack(q, v) = b
  BY DEF PeerSubs!ToBack
<1> HIDE DEF k
<1>3. v \notin ToSet(k)
  BY <1>1
<1>4. IsInjective(b) /\ ToSet(b) = ToSet(k) \cup {v}
  BY <1>1, <1>3, DistinctEnds
<1>5. b \in Seq(V) /\ Len(b) = Len(k) + 1 /\ b[Len(k) + 1] = v
  BY <1>1
<1>6. Len(b) > 1 => b[1] # v
  <2>1. Len(k) \in Nat /\ DOMAIN b = 1..(Len(k) + 1)
    BY <1>1, <1>5
  <2> HIDE DEF b
  <2> QED
    BY <1>4, <1>5, <2>1 DEF IsInjective
<1>7. Len(k) \in Nat
  BY <1>1
<1>8. b = Append(Only(q, ToSet(q) \ {v}), v)
  BY <1>1
<1>9. ToSet(b) = ToSet(q) \cup {v}
  BY <1>1, <1>4
<1> HIDE DEF b
<1>10. Len(b) >= 1
  BY <1>5, <1>7
<1> QED
  BY <1>2, <1>4, <1>5, <1>6, <1>8, <1>9, <1>10 DEF MovedBack

\* A queue whose first key is in the map loses just that one.
LEMMA PopQueue ==
    ASSUME NEW V, NEW q \in Seq(V), IsInjective(q), NEW keys, Len(q) >= 1, q[1] \in keys
    PROVE  /\ PeerSubs!FirstOf(q, keys) = 1
           /\ PeerSubs!Popped(q, keys) = Tail(q) /\ Tail(q) \in Seq(V) /\ IsInjective(Tail(q))
           /\ ToSet(Tail(q)) = ToSet(q) \ {q[1]}
<1> DEFINE I == {i \in DOMAIN q : q[i] \in keys}
<1>1. I \in SUBSET Nat /\ 1 \in I /\ \A y \in I : 1 <= y
  OBVIOUS
<1>2. PeerSubs!FirstOf(q, keys) = IF I = {} THEN 0 ELSE PeerSubs!Min(I)
  BY Zenon DEF PeerSubs!FirstOf
<1> HIDE DEF I
<1>3. Min(I) = 1
  <2>1. Min(I) \in I /\ \A y \in I : Min(I) <= y
    BY <1>1, Zenon DEF Min
  <2>2. Min(I) <= 1 /\ 1 <= Min(I) /\ Min(I) \in Nat
    BY <1>1, <2>1
  <2> QED
    BY <2>2
<1>4. PeerSubs!FirstOf(q, keys) = 1
  BY <1>1, <1>2, <1>3, StoreOperators
<1>5. PeerSubs!Popped(q, keys) = SubSeq(q, 2, Len(q))
  BY <1>4 DEF PeerSubs!Popped
<1>6. q # <<>> /\ Head(q) = q[1]
  OBVIOUS
<1>7. SubSeq(q, 2, Len(q)) = Tail(q)
  BY <1>6
<1>8. IsInjective(Tail(q)) /\ ToSet(Tail(q)) = ToSet(q) \ {Head(q)}
  BY <1>6, DistinctEnds
<1> QED
  BY <1>4, <1>5, <1>6, <1>7, <1>8

-----------------------------------------------------------------------------
(* The subscriptions of one peer *)

SubscriptionMaps == UNION {[S -> Requests] : S \in SUBSET SubscriptionIds}

\* The queue of a peer holds its ids, each once.
SetSound(set) ==
    /\ set \in [subscriptions : SubscriptionMaps, order : Seq(SubscriptionIds)]
    /\ IsInjective(set.order) /\ ToSet(set.order) = DOMAIN set.subscriptions

LEMMA SetFacts ==
    ASSUME NEW set, SetSound(set)
    PROVE  /\ set.subscriptions \in [DOMAIN set.subscriptions -> Requests]
           /\ DOMAIN set.subscriptions \in SUBSET SubscriptionIds
           /\ IsFiniteSet(DOMAIN set.subscriptions)
           /\ set.order \in Seq(SubscriptionIds)
           /\ Cardinality(DOMAIN set.subscriptions) = Len(set.order)
<1>1. set.subscriptions \in SubscriptionMaps /\ set.order \in Seq(SubscriptionIds)
  BY DEF SetSound
<1>2. PICK S \in SUBSET SubscriptionIds : set.subscriptions \in [S -> Requests]
  BY <1>1 DEF SubscriptionMaps
<1>3. IsFiniteSet(ToSet(set.order)) /\ Cardinality(ToSet(set.order)) = Len(set.order)
  BY <1>1, DistinctCardinality DEF SetSound
<1> QED
  BY <1>1, <1>2, <1>3 DEF SetSound

\* A map of requests is one of SubscriptionMaps.
LEMMA MapIsOne ==
    ASSUME NEW S \in SUBSET SubscriptionIds, NEW f \in [S -> Requests]
    PROVE  f \in SubscriptionMaps
BY DEF SubscriptionMaps

\* What is left of a set without id.
Reduced(set, id, left) ==
    /\ SetSound(left) /\ DOMAIN left.subscriptions = DOMAIN set.subscriptions \ {id}
    /\ \A x \in DOMAIN left.subscriptions : left.subscriptions[x] = set.subscriptions[x]
    /\ left.order = Only(set.order, ToSet(set.order) \ {id})

\* PeerSubscriptionSet::remove
LEMMA SetRemove ==
    ASSUME NEW set, SetSound(set), NEW id
    PROVE  Reduced(set, id, [subscriptions |-> PeerSubs!Without(set.subscriptions, id),
                             order |-> PeerSubs!Retain(set.order, id)])
<1> DEFINE m == PeerSubs!Without(set.subscriptions, id)
           o == PeerSubs!Retain(set.order, id)
           S == DOMAIN set.subscriptions \ {id}
<1>1. m = [x \in S |-> set.subscriptions[x]]
  BY StoreOperators DEF PeerSubs!Without
<1>2. S \in SUBSET SubscriptionIds /\ m \in [S -> Requests]
  BY <1>1, SetFacts
<1>0. set.order \in Seq(SubscriptionIds) /\ IsInjective(set.order) /\ ToSet(set.order) = DOMAIN set.subscriptions
  BY DEF SetSound
<1>3. o \in Seq(SubscriptionIds) /\ IsInjective(o) /\ ToSet(o) = S
  BY <1>0, RetainQueue
<1>4. m \in SubscriptionMaps /\ DOMAIN m = S
  BY <1>2, MapIsOne
<1>5. o = Only(set.order, ToSet(set.order) \ {id})
  BY <1>0, RetainQueue
<1> HIDE DEF m, o, S
<1>6. SetSound([subscriptions |-> m, order |-> o])
  BY <1>3, <1>4 DEF SetSound
<1> DEFINE left == [subscriptions |-> m, order |-> o]
<1>7. left.subscriptions = m /\ left.order = o
  OBVIOUS
<1>8. \A x \in S : m[x] = set.subscriptions[x]
  BY <1>1
<1> HIDE DEF left
<1>9. Reduced(set, id, left)
  BY <1>4, <1>5, <1>6, <1>7, <1>8 DEF Reduced, S, left
<1> QED
  BY <1>9 DEF left, m, o

\* A queue with a key at its end, without its first when it is over the limit.
Renewed(q, v, limit) ==
    LET b == Append(Only(q, ToSet(q) \ {v}), v) IN IF Len(b) > limit THEN Tail(b) ELSE b

\* What upsert makes of the subscriptions of a peer.
Upserted(set, id, request, u) ==
    /\ SetSound(u.set) /\ Len(u.set.order) <= MaxSubscriptions
    /\ DOMAIN u.set.subscriptions = (DOMAIN set.subscriptions \cup {id}) \ u.evicted
    /\ u.evicted \subseteq DOMAIN set.subscriptions \ {id}
    /\ u.set.subscriptions[id] = request
    /\ \A x \in DOMAIN u.set.subscriptions : x # id => u.set.subscriptions[x] = set.subscriptions[x]
    /\ u.set.order = Renewed(set.order, id, MaxSubscriptions)

\* PeerSubscriptionSet::upsert
LEMMA SetUpsert ==
    ASSUME NEW set, SetSound(set), Len(set.order) <= MaxSubscriptions, MaxSubscriptions > 0,
           NEW id \in SubscriptionIds, NEW request \in Requests
    PROVE  Upserted(set, id, request, PeerSubs!UpsertSet(set, id, request))
<1> DEFINE D == DOMAIN set.subscriptions
           m == PeerSubs!With(set.subscriptions, id, request)
           b == PeerSubs!ToBack(set.order, id)
           first == PeerSubs!FirstOf(b, DOMAIN m)
           over == id \notin D /\ Cardinality(DOMAIN m) > MaxSubscriptions
           u == PeerSubs!UpsertSet(set, id, request)
<1>0. set.order \in Seq(SubscriptionIds) /\ IsInjective(set.order) /\ ToSet(set.order) = D
  BY DEF SetSound
<1>1. set.subscriptions \in [D -> Requests] /\ D \in SUBSET SubscriptionIds
  BY SetFacts
<1>2. m = [x \in D \cup {id} |-> IF x = id THEN request ELSE set.subscriptions[x]]
  BY DEF PeerSubs!With
<1>3. m \in [D \cup {id} -> Requests]
  BY <1>1, <1>2
<1>11. b = Append(Only(set.order, ToSet(set.order) \ {id}), id)
       /\ MovedBack(SubscriptionIds, set.order, id, b)
  BY <1>0, ToBackQueue, Zenon
<1>4. /\ b \in Seq(SubscriptionIds) /\ IsInjective(b) /\ ToSet(b) = D \cup {id}
      /\ Len(b) >= 1 /\ (Len(b) > 1 => b[1] # id)
  BY <1>0, <1>11 DEF MovedBack
<1>5. u = IF over
          THEN [set |-> [subscriptions |-> PeerSubs!Without(m, b[first]),
                         order |-> PeerSubs!Popped(b, DOMAIN m)],
                evicted |-> {b[first]}]
          ELSE [set |-> [subscriptions |-> m, order |-> b], evicted |-> {}]
  BY StoreOperators DEF PeerSubs!UpsertSet
<1>6. DOMAIN m = D \cup {id} /\ Cardinality(DOMAIN m) = Len(b) /\ Len(b) \in Nat
  <2>1. DOMAIN m = D \cup {id}
    BY <1>3
  <2> HIDE DEF m, b, D
  <2>2. b \in Seq(SubscriptionIds) /\ IsInjective(b)
    BY <1>4
  <2>3. Cardinality(ToSet(b)) = Len(b)
    BY <2>2, DistinctCardinality
  <2> QED
    BY <1>4, <2>1, <2>2, <2>3
<1>7. MaxSubscriptions \in Nat
  BY StoreAssumption
<1>8. Renewed(set.order, id, MaxSubscriptions) = IF Len(b) > MaxSubscriptions THEN Tail(b) ELSE b
  BY <1>11 DEF Renewed
<1> HIDE DEF m, b, u, D
<1>9. CASE over
  <2>1. Len(b) > MaxSubscriptions /\ Len(b) > 1
    BY <1>6, <1>7, <1>9
  <2>2. 1 \in DOMAIN b /\ b[1] \in DOMAIN m
    <3>1. 1 \in DOMAIN b
      BY <1>4, <1>6, <2>1
    <3>2. b[1] \in ToSet(b)
      BY <3>1 DEF ToSet
    <3> QED
      BY <1>4, <1>6, <3>1, <3>2
  <2>3. first = 1 /\ PeerSubs!Popped(b, DOMAIN m) = Tail(b) /\ Tail(b) \in Seq(SubscriptionIds)
        /\ IsInjective(Tail(b)) /\ ToSet(Tail(b)) = ToSet(b) \ {b[1]}
    BY <1>4, <2>2, PopQueue
  <2> DEFINE gone == b[1] rest == DOMAIN m \ {gone} left == [x \in rest |-> m[x]]
  <2>4. PeerSubs!Without(m, gone) = left
    BY StoreOperators DEF PeerSubs!Without
  <2>5. gone \in D /\ gone # id
    BY <1>4, <1>6, <2>1, <2>2
  <2>6. u = [set |-> [subscriptions |-> left, order |-> Tail(b)], evicted |-> {gone}]
    BY <1>5, <1>9, <2>3, <2>4
  <2>7. left \in SubscriptionMaps
    <3>1. rest \in SUBSET SubscriptionIds /\ left \in [rest -> Requests]
      BY <1>1, <1>3, <1>6
    <3> QED
      BY <3>1, MapIsOne
  <2>8. SetSound(u.set)
    BY <1>4, <1>6, <2>3, <2>6, <2>7 DEF SetSound
  <2>9. Len(Tail(b)) <= MaxSubscriptions
    <3>1. Len(Tail(b)) = Len(b) - 1
      BY <1>4, <2>1
    <3>2. Cardinality(D \cup {id}) = Cardinality(D) + 1 /\ Cardinality(D) = Len(set.order)
      BY <1>9, SetFacts, FS_AddElement DEF D
    <3>3. Len(set.order) \in Nat
      BY <1>0
    <3> QED
      BY <1>6, <1>7, <3>1, <3>2, <3>3
  <2>10. DOMAIN left = (D \cup {id}) \ {gone} /\ left[id] = request
    BY <1>2, <1>6, <2>5
  <2>11. \A x \in DOMAIN left : x # id => left[x] = set.subscriptions[x]
    BY <1>2, <1>6
  <2>12. Renewed(set.order, id, MaxSubscriptions) = Tail(b)
    BY <1>8, <2>1
  <2>13. u.set.order = Tail(b) /\ u.evicted = {gone} /\ u.set.subscriptions = left
    BY <2>6
  <2> HIDE DEF left, gone, rest
  <2> QED
    BY <2>5, <2>8, <2>9, <2>10, <2>11, <2>12, <2>13 DEF Upserted, u, D
<1>10. CASE ~over
  <2>1. u.set = [subscriptions |-> m, order |-> b] /\ u.evicted = {}
    BY <1>5, <1>10
  <2>2. Len(b) <= MaxSubscriptions
    <3>1. CASE id \notin D
      BY <1>6, <1>7, <1>10, <3>1
    <3>2. CASE id \in D
      <4>1. D \cup {id} = D
        BY <3>2
      <4>2. Cardinality(D) = Len(set.order)
        BY SetFacts DEF D
      <4> QED
        BY <1>6, <4>1, <4>2
    <3> QED
      BY <3>1, <3>2
  <2>3. m \in SubscriptionMaps
    <3>1. D \cup {id} \in SUBSET SubscriptionIds
      BY <1>1
    <3> QED
      BY <1>3, <3>1, MapIsOne
  <2>4. SetSound(u.set)
    BY <1>4, <1>6, <2>1, <2>3 DEF SetSound
  <2>5. m[id] = request /\ \A x \in DOMAIN m : x # id => m[x] = set.subscriptions[x]
    BY <1>2
  <2>6. Renewed(set.order, id, MaxSubscriptions) = b
    BY <1>6, <1>7, <1>8, <2>2
  <2>7. u.set.order = b /\ u.set.subscriptions = m
    BY <2>1
  <2> QED
    BY <1>6, <2>1, <2>2, <2>4, <2>5, <2>6, <2>7 DEF Upserted, u, D
<1> QED
  BY <1>9, <1>10

-----------------------------------------------------------------------------
(* The subscriptions of all the peers *)

\* The queue of the peers holds each peer once, and each peer's is sound.
StoreSound(store, order) ==
    /\ order \in Seq(StorePeers) /\ IsInjective(order) /\ ToSet(order) = DOMAIN store
    /\ store = [p \in DOMAIN store |-> store[p]]
    /\ \A p \in DOMAIN store : SetSound(store[p])

LEMMA HeldMember ==
    ASSUME NEW store, NEW h
    PROVE  h \in PeerSubs!Held(store)
               <=> \E p \in DOMAIN store : \E id \in DOMAIN store[p].subscriptions : h = <<p, id>>
<1>1. h \in PeerSubs!Held(store) <=> \E p \in DOMAIN store : h \in {p} \X DOMAIN store[p].subscriptions
  BY DEF PeerSubs!Held
<1>2. ASSUME NEW p, NEW S PROVE h \in {p} \X S <=> \E id \in S : h = <<p, id>>
  OBVIOUS
<1> QED
  BY <1>1, <1>2

\* As a pair.
LEMMA HeldPair ==
    ASSUME NEW store, NEW p, NEW id
    PROVE  <<p, id>> \in PeerSubs!Held(store) <=> p \in DOMAIN store /\ id \in DOMAIN store[p].subscriptions
<1>1. ASSUME NEW q, NEW x, <<p, id>> = <<q, x>> PROVE p = q /\ id = x
  BY <1>1
<1> QED
  BY <1>1, HeldMember

\* What a store holds is finite, and requests.
LEMMA HeldFinite ==
    ASSUME NEW store, NEW order, StoreSound(store, order)
    PROVE  Holds(store, PeerSubs!Held(store))
<1> DEFINE D == DOMAIN store
           Of(p) == {p} \X DOMAIN store[p].subscriptions
           parts == {Of(p) : p \in D}
<1>1. IsFiniteSet(D)
  <2>1. order \in Seq(StorePeers) /\ IsInjective(order) /\ ToSet(order) = D
    BY DEF StoreSound
  <2> QED
    BY <2>1, DistinctCardinality
<1>2. ASSUME NEW p \in D PROVE IsFiniteSet(Of(p))
  <2>1. IsFiniteSet(DOMAIN store[p].subscriptions)
    BY SetFacts DEF StoreSound
  <2>2. IsFiniteSet({p})
    BY FS_Singleton
  <2> QED
    BY <2>1, <2>2, FS_Product
<1>3. IsFiniteSet(parts)
  <2> DEFINE f == [p \in D |-> Of(p)]
  <2>1. f \in Surjection(D, parts)
    BY DEF Surjection
  <2> HIDE DEF f, parts
  <2> QED
    BY <1>1, <2>1, FS_Surjection
<1>4. \A T \in parts : IsFiniteSet(T)
  BY <1>2
<1>5. PeerSubs!Held(store) = UNION parts
  BY DEF PeerSubs!Held
<1>6. IsFiniteSet(UNION parts)
  <2> HIDE DEF parts
  <2> QED
    BY <1>3, <1>4, FS_UNION
<1>7. ASSUME NEW h \in PeerSubs!Held(store) PROVE RequestOf(store, h) \in Requests
  <2>1. PICK p \in D : \E id \in DOMAIN store[p].subscriptions : h = <<p, id>>
    BY HeldMember
  <2>2. PICK id \in DOMAIN store[p].subscriptions : h = <<p, id>>
    BY <2>1
  <2>3. store[p].subscriptions \in [DOMAIN store[p].subscriptions -> Requests]
    BY SetFacts DEF StoreSound
  <2>4. store[p].subscriptions[id] \in Requests
    BY <2>3
  <2> QED
    BY <2>2, <2>4 DEF RequestOf
<1> QED
  BY <1>5, <1>6, <1>7 DEF Holds

\* The totals of a store are r's.
TotalsKept(r, store) == TotalsOf(r, store, PeerSubs!Held(store))

HeldByAll(store, gone) == UNION {PeerSubs!HeldBy(store, q) : q \in gone}

\* With some peers, their subscriptions leave the totals.
LEMMA DropTotals ==
    ASSUME NEW store, NEW order, StoreSound(store, order), NEW r, TotalsKept(r, store), NEW gone
    PROVE  LET n == PeerSubs!SubtractAll(r, store, HeldByAll(store, gone)) IN
           /\ TotalsKept(n, [p \in DOMAIN store \ gone |-> store[p]]) /\ n.peers = r.peers
           /\ Holds([p \in DOMAIN store \ gone |-> store[p]],
                    PeerSubs!Held([p \in DOMAIN store \ gone |-> store[p]]))
<1> DEFINE G == HeldByAll(store, gone)
           H == PeerSubs!Held(store)
           kept == [p \in DOMAIN store \ gone |-> store[p]]
           n == PeerSubs!SubtractAll(r, store, G)
<1>1. \A h : h \in G <=> h \in H /\ h[1] \in gone
  BY DEF HeldByAll, PeerSubs!HeldBy
<1>2. G \in SUBSET H
  BY <1>1
<1>3. ASSUME NEW h PROVE h \in PeerSubs!Held(kept) <=> h \in H \ G
  <2>1. h \in PeerSubs!Held(kept)
            <=> \E p \in DOMAIN kept : \E id \in DOMAIN kept[p].subscriptions : h = <<p, id>>
    BY HeldMember
  <2>2. h \in H <=> \E p \in DOMAIN store : \E id \in DOMAIN store[p].subscriptions : h = <<p, id>>
    BY HeldMember
  <2>3. DOMAIN kept = DOMAIN store \ gone /\ \A p \in DOMAIN kept : kept[p] = store[p]
    OBVIOUS
  <2>4. \A p, id : h = <<p, id>> => h[1] = p
    OBVIOUS
  <2> HIDE DEF kept, G, H
  <2> QED
    BY <1>1, <2>1, <2>2, <2>3, <2>4
<1>4. PeerSubs!Held(kept) = H \ G
  BY <1>3
<1>5. ASSUME NEW h \in H \ G PROVE RequestOf(kept, h) = RequestOf(store, h)
  <2>1. h \in H /\ h[1] \notin gone
    BY <1>1
  <2>2. PICK p \in DOMAIN store : \E id \in DOMAIN store[p].subscriptions : h = <<p, id>>
    BY <2>1, HeldMember
  <2>3. h[1] = p
    BY <2>2
  <2>4. kept[h[1]] = store[h[1]]
    BY <2>1, <2>3
  <2> QED
    BY <2>4 DEF RequestOf
<1>6. Holds(store, H)
  BY HeldFinite
<1>7. TotalsOf(r, store, H)
  BY DEF TotalsKept
<1> HIDE DEF G, H, kept, n
<1>8. TotalsOf(n, store, H \ G) /\ n.peers = r.peers
  BY <1>2, <1>6, <1>7, SubtractKeeps DEF n
<1>9. TotalsOf(n, kept, H \ G)
  BY <1>5, <1>8, TotalsMove
<1>10. Holds(kept, H \ G)
  <2>1. IsFiniteSet(H \ G)
    BY <1>6, FS_Subset DEF Holds
  <2> QED
    BY <1>5, <1>6, <2>1 DEF Holds
<1> QED
  BY <1>4, <1>8, <1>9, <1>10 DEF TotalsKept, G, H, kept, n

\* t is the store with another set for p.
Puts(store, t, p) == DOMAIN t = DOMAIN store \cup {p} /\ \A q \in DOMAIN store : q # p => t[q] = store[q]

\* What t holds is what the store holds, but for p's.
HoldsLike(store, t, p, h) ==
    /\ h \in PeerSubs!Held(t) <=> \/ h \in PeerSubs!Held(store) /\ h[1] # p
                                 \/ \E id \in DOMAIN t[p].subscriptions : h = <<p, id>>
    /\ h \in PeerSubs!Held(store) /\ h[1] # p => RequestOf(t, h) = RequestOf(store, h)

\* What a store holds when one peer's subscriptions are put into it.
LEMMA HeldPut ==
    ASSUME NEW store, NEW t, NEW p, Puts(store, t, p), NEW h
    PROVE  HoldsLike(store, t, p, h)
<1>0. DOMAIN t = DOMAIN store \cup {p} /\ \A q \in DOMAIN store : q # p => t[q] = store[q]
  BY DEF Puts
<1>1. h \in PeerSubs!Held(t) <=> \E q \in DOMAIN t : \E id \in DOMAIN t[q].subscriptions : h = <<q, id>>
  BY HeldMember
<1>2. h \in PeerSubs!Held(store)
          <=> \E q \in DOMAIN store : \E id \in DOMAIN store[q].subscriptions : h = <<q, id>>
  BY HeldMember
<1>3. \A q, id : h = <<q, id>> => h[1] = q
  OBVIOUS
<1>4. h \in PeerSubs!Held(store) => h[1] \in DOMAIN store
  BY <1>2, <1>3
<1>5. h \in PeerSubs!Held(store) /\ h[1] # p => t[h[1]] = store[h[1]]
  BY <1>0, <1>4
<1>6. h \in PeerSubs!Held(t) <=> \/ h \in PeerSubs!Held(store) /\ h[1] # p
                                \/ \E id \in DOMAIN t[p].subscriptions : h = <<p, id>>
  BY <1>0, <1>1, <1>2, <1>3
<1>7. h \in PeerSubs!Held(store) /\ h[1] # p => RequestOf(t, h) = RequestOf(store, h)
  BY <1>5 DEF RequestOf
<1> QED
  BY <1>6, <1>7 DEF HoldsLike

\* Every peer of the store has subscriptions, and no more than it may.
Filled(store, S) ==
    \A p \in S : Len(store[p].order) >= 1 /\ Len(store[p].order) <= MaxSubscriptions

StoreKept(store, order, r) ==
    /\ StoreSound(store, order) /\ Filled(store, DOMAIN store) /\ Len(order) <= MaxPeers
    /\ TotalsKept(r, store) /\ r.peers = Cardinality(DOMAIN store)

\* A peer leaves the totals with its set.
LEMMA PeersUpdated ==
    ASSUME NEW r, NEW store, TotalsKept(r, store), NEW n
    PROVE  TotalsKept([r EXCEPT !.peers = n], store) /\ [r EXCEPT !.peers = n].peers = n
<1> DEFINE a == Cardinality(PeerSubs!Held(store))
           b == Summed(store, FilterCount, PeerSubs!Held(store))
           c == Summed(store, EncodedBytes, PeerSubs!Held(store))
           s == [r EXCEPT !.peers = n]
<1>1. r = [peers |-> r.peers, subscriptions |-> a, filters |-> b, bytes |-> c]
  BY DEF TotalsKept, TotalsOf
<1> HIDE DEF a, b, c
<1> DEFINE k == r.peers
<1> HIDE DEF k
<1>2. r = [peers |-> k, subscriptions |-> a, filters |-> b, bytes |-> c]
  BY <1>1 DEF k
<1>3. s = [peers |-> n, subscriptions |-> a, filters |-> b, bytes |-> c]
  BY <1>2
<1> HIDE DEF s
<1>4. s.peers = n /\ s = [peers |-> s.peers, subscriptions |-> a, filters |-> b, bytes |-> c]
  BY <1>3
<1> QED
  BY <1>4 DEF TotalsKept, TotalsOf, s, a, b, c

\* remove_peer
LEMMA DropKeeps ==
    ASSUME NEW store, NEW order, StoreSound(store, order), NEW p, Filled(store, DOMAIN store \ {p}),
           Len(order) <= MaxPeers, NEW r, TotalsKept(r, store)
    PROVE  StoreKept(PeerSubs!Without(store, p), PeerSubs!Retain(order, p),
                     [PeerSubs!SubtractAll(r, store, PeerSubs!HeldBy(store, p))
                          EXCEPT !.peers = Cardinality(DOMAIN store \ {p})])
<1> DEFINE t == [q \in DOMAIN store \ {p} |-> store[q]]
           o == PeerSubs!Retain(order, p)
           s == PeerSubs!SubtractAll(r, store, PeerSubs!HeldBy(store, p))
           n == Cardinality(DOMAIN store \ {p})
<1>1. PeerSubs!Without(store, p) = t
  BY StoreOperators DEF PeerSubs!Without
<1>2. HeldByAll(store, {p}) = PeerSubs!HeldBy(store, p)
  BY DEF HeldByAll
<1>3. TotalsKept(s, t)
  BY <1>2, DropTotals
<1>4. order \in Seq(StorePeers) /\ IsInjective(order) /\ ToSet(order) = DOMAIN store
  BY DEF StoreSound
<1>5. /\ o = Only(order, ToSet(order) \ {p}) /\ o \in Seq(StorePeers) /\ IsInjective(o)
      /\ ToSet(o) = DOMAIN store \ {p}
  BY <1>4, RetainQueue
<1>6. DOMAIN t = DOMAIN store \ {p} /\ \A q \in DOMAIN t : t[q] = store[q]
  OBVIOUS
<1>7. t = [q \in DOMAIN t |-> t[q]]
  OBVIOUS
<1> HIDE DEF t, o, s, n
<1>8. Len(o) <= MaxPeers
  <2>1. Len(o) <= Len(order)
    BY <1>4, <1>5, OnlyRetains
  <2> QED
    BY <1>4, <1>5, <2>1, StoreAssumption
<1>9. StoreSound(t, o)
  BY <1>5, <1>6, <1>7 DEF StoreSound
<1>10. Filled(t, DOMAIN t)
  BY <1>6 DEF Filled
<1>11. TotalsKept([s EXCEPT !.peers = n], t) /\ [s EXCEPT !.peers = n].peers = n
  BY <1>3, PeersUpdated
<1>12. n = Cardinality(DOMAIN t)
  BY <1>6 DEF n
<1> QED
  BY <1>1, <1>8, <1>9, <1>10, <1>11, <1>12 DEF StoreKept, o, s, n

PutIn(t, store, p, set) == t = [store EXCEPT ![p] = set]
Subtracts(n, r, store, p, id) == n = PeerSubs!SubtractAll(r, store, {<<p, id>>} \cap PeerSubs!Held(store))

\* A subscription leaves the set of its peer.
LEMMA ReduceKeeps ==
    ASSUME NEW store, NEW order, StoreSound(store, order), NEW p \in DOMAIN store, NEW id,
           NEW r, TotalsKept(r, store), NEW left, Reduced(store[p], id, left),
           NEW t, PutIn(t, store, p, left), NEW n, Subtracts(n, r, store, p, id)
    PROVE  StoreSound(t, order) /\ TotalsKept(n, t) /\ n.peers = r.peers
<1> DEFINE H == PeerSubs!Held(store)
           G == {<<p, id>>} \cap H
<1>0. /\ SetSound(left) /\ DOMAIN left.subscriptions = DOMAIN store[p].subscriptions \ {id}
      /\ \A x \in DOMAIN left.subscriptions : left.subscriptions[x] = store[p].subscriptions[x]
  BY DEF Reduced
<1>1. /\ DOMAIN t = DOMAIN store /\ t[p] = left /\ (\A q \in DOMAIN store : q # p => t[q] = store[q])
      /\ t = [q \in DOMAIN t |-> t[q]]
  BY DEF StoreSound, PutIn
<1>2. Puts(store, t, p)
  BY <1>1 DEF Puts
<1>3. StoreSound(t, order)
  BY <1>0, <1>1 DEF StoreSound
<1>4. ASSUME NEW h
      PROVE  /\ h \in PeerSubs!Held(t) <=> h \in H \ G
             /\ h \in H \ G => RequestOf(t, h) = RequestOf(store, h)
  <2>1. /\ h \in PeerSubs!Held(t)
             <=> (h \in H /\ h[1] # p) \/ \E x \in DOMAIN left.subscriptions : h = <<p, x>>
        /\ h \in H /\ h[1] # p => RequestOf(t, h) = RequestOf(store, h)
    BY <1>1, <1>2, HeldPut DEF HoldsLike
  <2>2. h \in H <=> \E q \in DOMAIN store : \E x \in DOMAIN store[q].subscriptions : h = <<q, x>>
    BY HeldMember
  <2>3. \A q, x : h = <<q, x>> => h[1] = q /\ h[2] = x
    OBVIOUS
  <2>4. h \in G <=> h \in H /\ h = <<p, id>>
    OBVIOUS
  <2>5. CASE h \in H /\ h[1] = p
    <3>1. PICK x \in DOMAIN store[p].subscriptions : h = <<p, x>>
      BY <2>2, <2>3, <2>5
    <3>2. h[2] = x /\ h[1] = p
      BY <2>3, <3>1
    <3>3. h \in G <=> x = id
      BY <2>3, <2>4, <2>5, <3>1
    <3>4. h \in PeerSubs!Held(t) <=> x # id
      BY <1>0, <2>1, <2>3, <2>5, <3>1
    <3>5. x # id => RequestOf(t, h) = RequestOf(store, h)
      BY <1>0, <1>1, <3>1, <3>2 DEF RequestOf
    <3> HIDE DEF G, H
    <3> QED
      BY <2>5, <3>3, <3>4, <3>5
  <2>6. CASE h \in H /\ h[1] # p
    <3>1. h \notin G
      BY <2>3, <2>4, <2>6
    <3> QED
      BY <2>1, <2>6, <3>1
  <2>7. CASE h \notin H
    <3>1. ~\E x \in DOMAIN left.subscriptions : h = <<p, x>>
      BY <1>0, <2>2, <2>7
    <3> QED
      BY <2>1, <2>7, <3>1
  <2> QED
    BY <2>5, <2>6, <2>7
<1>5. Holds(store, H) /\ TotalsOf(r, store, H) /\ G \in SUBSET H
  BY HeldFinite DEF TotalsKept
<1>9. n = PeerSubs!SubtractAll(r, store, G)
  BY DEF Subtracts
<1> HIDE DEF G, H
<1>6. TotalsOf(n, store, H \ G) /\ n.peers = r.peers
  BY <1>5, <1>9, SubtractKeeps
<1>7. TotalsOf(n, t, H \ G)
  BY <1>4, <1>6, TotalsMove
<1>8. PeerSubs!Held(t) = H \ G
  BY <1>4
<1> QED
  BY <1>3, <1>6, <1>7, <1>8 DEF TotalsKept, G, H

StoreInv == StoreKept(peers, peerOrder, retained)

LEMMA RemovePeerKeeps ==
    ASSUME StoreInv, NEW p, PeerSubs!RemovePeer(p)
    PROVE  StoreInv'
<1>1. /\ StoreSound(peers, peerOrder) /\ Filled(peers, DOMAIN peers \ {p}) /\ Len(peerOrder) <= MaxPeers
      /\ TotalsKept(retained, peers)
  BY DEF StoreInv, StoreKept, Filled
<1>2. /\ peers' = PeerSubs!Without(peers, p) /\ peerOrder' = PeerSubs!Retain(peerOrder, p)
      /\ retained' = [PeerSubs!SubtractAll(retained, peers, PeerSubs!HeldBy(peers, p))
                          EXCEPT !.peers = Cardinality(DOMAIN peers \ {p})]
  BY StoreOperators DEF PeerSubs!RemovePeer, PeerSubs!Dropped
<1>3. StoreKept(peers', peerOrder', retained')
  BY <1>1, <1>2, DropKeeps
<1> QED
  BY <1>3 DEF StoreInv

LEMMA RemoveSubscriptionKeeps ==
    ASSUME StoreInv, NEW p, NEW id, PeerSubs!RemoveSubscription(p, id)
    PROVE  StoreInv'
<1> DEFINE set == PeerSubs!SetOf(peers, p)
           left == [subscriptions |-> PeerSubs!Without(set.subscriptions, id),
                    order |-> PeerSubs!Retain(set.order, id)]
           n == PeerSubs!SubtractAll(retained, peers, {<<p, id>>} \cap PeerSubs!Held(peers))
           t == [peers EXCEPT ![p] = left]
<1>1. /\ StoreSound(peers, peerOrder) /\ Filled(peers, DOMAIN peers) /\ Len(peerOrder) <= MaxPeers
      /\ TotalsKept(retained, peers) /\ retained.peers = Cardinality(DOMAIN peers)
  BY DEF StoreInv, StoreKept
<1>2. /\ p \in DOMAIN peers
      /\ IF DOMAIN left.subscriptions = {} THEN PeerSubs!Dropped(t, n, p)
         ELSE peers' = t /\ retained' = n /\ peerOrder' = peerOrder
  BY DEF PeerSubs!RemoveSubscription
<1>3. set = peers[p] /\ SetSound(set)
  BY <1>1, <1>2 DEF PeerSubs!SetOf, StoreSound
<1>4. Reduced(set, id, left)
  <2> HIDE DEF set
  <2> QED
    BY <1>3, SetRemove
<1> HIDE DEF left, set
<1>10. SetSound(left) /\ left.order = Only(set.order, ToSet(set.order) \ {id})
  BY <1>4 DEF Reduced
<1>5. StoreSound(t, peerOrder) /\ TotalsKept(n, t) /\ n.peers = retained.peers
  <2>1. Reduced(peers[p], id, left)
    BY <1>3, <1>4
  <2>2. PutIn(t, peers, p, left) /\ Subtracts(n, retained, peers, p, id)
    BY DEF PutIn, Subtracts
  <2>4. p \in DOMAIN peers /\ StoreSound(peers, peerOrder) /\ TotalsKept(retained, peers)
    BY <1>1, <1>2
  <2> HIDE DEF t, n
  <2> QED
    BY <2>1, <2>2, <2>4, ReduceKeeps
<1>6. DOMAIN t = DOMAIN peers /\ t[p] = left /\ \A q \in DOMAIN peers : q # p => t[q] = peers[q]
  BY <1>2
<1> HIDE DEF t, n
<1>7. Filled(t, DOMAIN t \ {p})
  BY <1>1, <1>6 DEF Filled
<1>8. CASE DOMAIN left.subscriptions = {}
  <2>1. /\ peers' = PeerSubs!Without(t, p) /\ peerOrder' = PeerSubs!Retain(peerOrder, p)
        /\ retained' = [PeerSubs!SubtractAll(n, t, PeerSubs!HeldBy(t, p))
                            EXCEPT !.peers = Cardinality(DOMAIN t \ {p})]
    BY <1>2, <1>8, StoreOperators DEF PeerSubs!Dropped
  <2>2. StoreKept(peers', peerOrder', retained')
    BY <1>1, <1>5, <1>7, <2>1, DropKeeps
  <2> QED
    BY <2>2 DEF StoreInv
<1>9. CASE DOMAIN left.subscriptions # {}
  <2>1. peers' = t /\ retained' = n /\ peerOrder' = peerOrder
    BY <1>2, <1>9
  <2>2. Len(left.order) >= 1 /\ Len(left.order) <= MaxSubscriptions
    <3>1. left.order \in Seq(SubscriptionIds) /\ set.order \in Seq(SubscriptionIds)
      BY <1>3, <1>10, SetFacts
    <3>2. Len(left.order) <= Len(set.order) /\ Len(set.order) <= MaxSubscriptions
      BY <1>1, <1>2, <1>3, <1>10, <3>1, OnlyRetains DEF Filled
    <3>3. ToSet(left.order) # {}
      BY <1>9, <1>10 DEF SetSound
    <3>4. Len(left.order) \in Nat /\ Len(left.order) # 0
      BY <3>1, <3>3 DEF ToSet
    <3> QED
      BY <3>1, <3>2, <3>4, StoreAssumption
  <2>3. Filled(t, DOMAIN t)
    BY <1>6, <1>7, <2>2 DEF Filled
  <2>4. StoreKept(t, peerOrder, n)
    BY <1>1, <1>5, <1>6, <2>3 DEF StoreKept
  <2> QED
    BY <2>1, <2>4 DEF StoreInv
<1> QED
  BY <1>8, <1>9

\* The peers after touch_peer and evict_peers_over_limit: who is gone, and the
\* queue with room for p.
Room(p) ==
    LET touched == PeerSubs!TouchPeer(peerOrder, p) IN
    IF p \in DOMAIN peers THEN [order |-> touched, gone |-> {}] ELSE PeerSubs!EvictPeers(peers, touched)

LEMMA RoomMade ==
    ASSUME StoreInv, MaxPeers > 0, NEW p \in StorePeers
    PROVE  /\ Room(p).gone \subseteq DOMAIN peers \ {p}
           /\ Room(p).order = Renewed(peerOrder, p, MaxPeers)
           /\ Room(p).order \in Seq(StorePeers) /\ IsInjective(Room(p).order)
           /\ ToSet(Room(p).order) = (DOMAIN peers \ Room(p).gone) \cup {p}
           /\ Len(Room(p).order) <= MaxPeers
<1> DEFINE D == DOMAIN peers
           b == PeerSubs!ToBack(peerOrder, p)
           room == Room(p)
<1>0. /\ peerOrder \in Seq(StorePeers) /\ IsInjective(peerOrder) /\ ToSet(peerOrder) = D
      /\ Len(peerOrder) <= MaxPeers
  BY DEF StoreInv, StoreKept, StoreSound
<1>1. b = Append(Only(peerOrder, ToSet(peerOrder) \ {p}), p) /\ MovedBack(StorePeers, peerOrder, p, b)
  BY <1>0, ToBackQueue
<1>2. Renewed(peerOrder, p, MaxPeers) = IF Len(b) > MaxPeers THEN Tail(b) ELSE b
  BY <1>1 DEF Renewed
<1>3. room = IF p \in D THEN [order |-> b, gone |-> {}] ELSE PeerSubs!EvictPeers(peers, b)
  BY DEF Room, PeerSubs!TouchPeer
<1> HIDE DEF b, room, D
<1>4. /\ b \in Seq(StorePeers) /\ IsInjective(b) /\ ToSet(b) = D \cup {p} /\ Len(b) >= 1
      /\ Len(b) > 1 => b[1] # p
  BY <1>0, <1>1 DEF MovedBack
<1>5. /\ Len(b) \in Nat /\ Len(b) = Cardinality(D \cup {p}) /\ Len(peerOrder) = Cardinality(D)
      /\ IsFiniteSet(D) /\ Len(peerOrder) \in Nat
  <2>1. Cardinality(ToSet(b)) = Len(b)
    BY <1>4, DistinctCardinality
  <2>2. Cardinality(ToSet(peerOrder)) = Len(peerOrder) /\ IsFiniteSet(ToSet(peerOrder))
    BY <1>0, DistinctCardinality
  <2> QED
    BY <1>0, <1>4, <2>1, <2>2
<1>6. MaxPeers \in Nat /\ PeerSubs!Cardinality(DOMAIN peers) = Len(peerOrder)
  BY <1>5, StoreAssumption, StoreOperators DEF D
<1>7. CASE p \in D
  <2>1. D \cup {p} = D
    BY <1>7
  <2>2. Len(b) <= MaxPeers
    BY <1>0, <1>5, <2>1
  <2>3. Renewed(peerOrder, p, MaxPeers) = b
    BY <1>2, <1>5, <1>6, <2>2
  <2>4. room.order = b /\ room.gone = {}
    BY <1>3, <1>7
  <2> QED
    BY <1>4, <2>2, <2>3, <2>4 DEF room, D
<1>8. CASE p \notin D /\ Len(peerOrder) < MaxPeers
  <2>1. Len(b) = Len(peerOrder) + 1
    BY <1>5, <1>8, FS_AddElement
  <2>2. Len(b) <= MaxPeers
    BY <1>5, <1>6, <1>8, <2>1
  <2>3. Renewed(peerOrder, p, MaxPeers) = b
    BY <1>2, <1>5, <1>6, <2>2
  <2>4. ~(PeerSubs!Cardinality(DOMAIN peers) >= MaxPeers)
    BY <1>5, <1>6, <1>8
  <2>5. PeerSubs!EvictPeers(peers, b) = [order |-> b, gone |-> {}]
    BY <2>4 DEF PeerSubs!EvictPeers
  <2>6. room.order = b /\ room.gone = {}
    BY <1>3, <1>8, <2>5
  <2> QED
    BY <1>4, <2>2, <2>3, <2>6 DEF room, D
<1>9. CASE p \notin D /\ ~(Len(peerOrder) < MaxPeers)
  <2>1. Len(b) = Len(peerOrder) + 1
    BY <1>5, <1>9, FS_AddElement
  <2>2. Len(b) > MaxPeers /\ Len(b) > 1 /\ Len(b) = MaxPeers + 1
    BY <1>0, <1>5, <1>6, <1>9, <2>1
  <2>3. Renewed(peerOrder, p, MaxPeers) = Tail(b)
    BY <1>2, <2>2
  <2>4. PeerSubs!Cardinality(DOMAIN peers) >= MaxPeers
    BY <1>5, <1>6, <1>9
  <2>5. b[1] \in D /\ b[1] # p
    <3>1. 1 \in DOMAIN b
      BY <1>4, <2>2
    <3>2. b[1] \in ToSet(b)
      BY <3>1 DEF ToSet
    <3> QED
      BY <1>4, <2>2, <3>2
  <2>6. PeerSubs!FirstOf(b, D) = 1 /\ PeerSubs!Popped(b, D) = Tail(b) /\ Tail(b) \in Seq(StorePeers)
        /\ IsInjective(Tail(b)) /\ ToSet(Tail(b)) = ToSet(b) \ {b[1]}
    BY <1>4, <2>5, PopQueue
  <2>7. PeerSubs!EvictPeers(peers, b) = [order |-> Tail(b), gone |-> {b[1]}]
    <3>1. PeerSubs!EvictPeers(peers, b)
              = [order |-> PeerSubs!Popped(b, DOMAIN peers),
                 gone |-> IF PeerSubs!FirstOf(b, DOMAIN peers) = 0 THEN {}
                          ELSE {b[PeerSubs!FirstOf(b, DOMAIN peers)]}]
      BY <2>4, Zenon DEF PeerSubs!EvictPeers
    <3>2. PeerSubs!Popped(b, DOMAIN peers) = Tail(b) /\ PeerSubs!FirstOf(b, DOMAIN peers) = 1
      BY <2>6 DEF D
    <3> DEFINE rest == PeerSubs!Popped(b, DOMAIN peers) k == PeerSubs!FirstOf(b, DOMAIN peers)
    <3> HIDE DEF rest, k
    <3>3. PeerSubs!EvictPeers(peers, b) = [order |-> rest, gone |-> IF k = 0 THEN {} ELSE {b[k]}]
      BY <3>1 DEF rest, k
    <3>4. rest = Tail(b) /\ k = 1
      BY <3>2 DEF rest, k
    <3>5. (IF k = 0 THEN {} ELSE {b[k]}) = {b[1]}
      BY <3>4
    <3> QED
      BY <3>3, <3>4, <3>5, Zenon
  <2>8. room.order = Tail(b) /\ room.gone = {b[1]}
    BY <1>3, <1>9, <2>7
  <2>9. Len(Tail(b)) <= MaxPeers
    BY <1>4, <1>6, <2>2
  <2>10. ToSet(Tail(b)) = (D \ {b[1]}) \cup {p}
    BY <1>4, <2>5, <2>6
  <2> QED
    BY <2>3, <2>5, <2>6, <2>8, <2>9, <2>10 DEF room, D
<1> QED
  BY <1>7, <1>8, <1>9

\* What a peer's set holds, the store holds.
LEMMA HeldOf ==
    ASSUME NEW store, NEW p, NEW x
    PROVE  <<p, x>> \in PeerSubs!Held(store) <=> x \in DOMAIN PeerSubs!SetOf(store, p).subscriptions
<1>1. <<p, x>> \in PeerSubs!Held(store) <=> p \in DOMAIN store /\ x \in DOMAIN store[p].subscriptions
  BY HeldPair
<1>2. CASE p \in DOMAIN store
  BY <1>1, <1>2 DEF PeerSubs!SetOf
<1>3. CASE p \notin DOMAIN store
  <2>1. PeerSubs!SetOf(store, p) = [subscriptions |-> <<>>, order |-> <<>>]
    BY <1>3 DEF PeerSubs!SetOf, PeerSubs!EmptySet
  <2>2. DOMAIN PeerSubs!SetOf(store, p).subscriptions = {}
    BY <2>1
  <2> QED
    BY <1>1, <1>3, <2>2
<1> QED
  BY <1>2, <1>3

\* upsert: what is replaced and evicted leaves the totals, the request comes.
LEMMA UpsertTotals ==
    ASSUME NEW kept, Holds(kept, PeerSubs!Held(kept)), NEW r, TotalsKept(r, kept), NEW p, NEW id,
           NEW request \in Requests, NEW u, Upserted(PeerSubs!SetOf(kept, p), id, request, u),
           NEW t, Puts(kept, t, p), t[p] = u.set
    PROVE  TotalsKept(PeerSubs!UpsertRetained(r, kept, p, id, request, u.evicted), t)
<1> DEFINE H0 == PeerSubs!Held(kept)
           A == {<<p, id>>} \cap H0
           B == {p} \X u.evicted
           H1 == H0 \ A
           H2 == H1 \ B
           r1 == PeerSubs!SubtractAll(r, kept, A)
           r2 == PeerSubs!SubtractAll(r1, kept, B)
           D == DOMAIN PeerSubs!SetOf(kept, p).subscriptions
           new == <<p, id>>
<1>1. PeerSubs!UpsertRetained(r, kept, p, id, request, u.evicted) = PeerSubs!AddRetained(r2, request)
  BY DEF PeerSubs!UpsertRetained
<1>2. /\ DOMAIN t[p].subscriptions = (D \cup {id}) \ u.evicted /\ u.evicted \subseteq D \ {id}
      /\ t[p].subscriptions[id] = request
      /\ \A x \in DOMAIN t[p].subscriptions :
             x # id => t[p].subscriptions[x] = PeerSubs!SetOf(kept, p).subscriptions[x]
  BY DEF Upserted
<1>3. \A x : <<p, x>> \in H0 <=> x \in D
  BY HeldOf
<1>4. \A h : h \in B <=> \E x \in u.evicted : h = <<p, x>>
  OBVIOUS
<1>5. \A q, x : <<q, x>>[1] = q /\ <<q, x>>[2] = x
  OBVIOUS
<1>6. A \in SUBSET H0 /\ B \in SUBSET H1 /\ new \notin H2
  <2>1. ASSUME NEW h \in B PROVE h \in H1
    <3>1. PICK x \in u.evicted : h = <<p, x>>
      BY <1>4
    <3>2. h \in H0 /\ x # id
      BY <1>2, <1>3, <3>1
    <3>3. h # <<p, id>>
      BY <1>5, <3>1, <3>2
    <3> QED
      BY <3>2, <3>3
  <2> QED
    BY <2>1
<1>7. Holds(kept, H1) /\ IsFiniteSet(H2)
  <2>1. IsFiniteSet(H1)
    BY FS_Subset DEF Holds
  <2>2. IsFiniteSet(H2)
    BY <2>1, FS_Subset
  <2> QED
    BY <2>1, <2>2 DEF Holds
<1>8. ASSUME NEW h
      PROVE  /\ h \in PeerSubs!Held(t) <=> h \in H2 \cup {new}
             /\ h \in H2 => RequestOf(t, h) = RequestOf(kept, h)
  <2>1. /\ h \in PeerSubs!Held(t)
             <=> (h \in H0 /\ h[1] # p) \/ \E x \in DOMAIN t[p].subscriptions : h = <<p, x>>
        /\ h \in H0 /\ h[1] # p => RequestOf(t, h) = RequestOf(kept, h)
    BY HeldPut DEF HoldsLike
  <2>2. CASE h \in H0 /\ h[1] # p
    <3>1. h # new /\ h \notin B
      BY <1>4, <1>5, <2>2
    <3> QED
      BY <2>1, <2>2, <3>1
  <2>3. CASE h \in H0 /\ h[1] = p
    <3>1. PICK q \in DOMAIN kept : \E x \in DOMAIN kept[q].subscriptions : h = <<q, x>>
      BY <2>3, HeldMember
    <3>2. PICK x : h = <<p, x>>
      BY <1>5, <2>3, <3>1
    <3>3. h[2] = x /\ x \in D /\ p \in DOMAIN kept
      BY <1>3, <1>5, <2>3, <3>1, <3>2
    <3>4. h \in PeerSubs!Held(t) <=> x \notin u.evicted
      BY <1>2, <1>5, <2>1, <2>3, <3>2, <3>3
    <3>5. (h \in B <=> x \in u.evicted) /\ (h = new <=> x = id)
      BY <1>4, <1>5, <3>2
    <3>6. h \in PeerSubs!Held(t) <=> h \in H2 \cup {new}
      BY <1>2, <2>3, <3>4, <3>5
    <3>7. ASSUME h \in H2 PROVE RequestOf(t, h) = RequestOf(kept, h)
      <4>1. x # id /\ x \in DOMAIN t[p].subscriptions
        BY <1>2, <2>3, <3>3, <3>5, <3>7
      <4>2. PeerSubs!SetOf(kept, p) = kept[p]
        BY <3>3 DEF PeerSubs!SetOf
      <4>3. t[p].subscriptions[x] = kept[p].subscriptions[x]
        BY <1>2, <4>1, <4>2
      <4> QED
        BY <2>3, <3>3, <4>3 DEF RequestOf
    <3> QED
      BY <3>6, <3>7
  <2>4. CASE h \notin H0
    <3>1. h \in PeerSubs!Held(t) <=> h = new
      BY <1>2, <1>3, <2>1, <2>4
    <3> QED
      BY <2>4, <3>1
  <2> QED
    BY <2>2, <2>3, <2>4
<1>9. RequestOf(t, new) = request
  BY <1>2, <1>5 DEF RequestOf
<1>10. TotalsOf(r, kept, H0)
  BY DEF TotalsKept
<1> HIDE DEF H0, A, B, H1, H2, r1, r2, D, new
<1>11. TotalsOf(r1, kept, H1)
  BY <1>6, <1>10, SubtractKeeps DEF r1, H1, H0
<1>12. TotalsOf(r2, kept, H2)
  BY <1>6, <1>7, <1>11, SubtractKeeps DEF r2, H2
<1>13. TotalsOf(r2, t, H2)
  BY <1>8, <1>12, TotalsMove
<1>14. Holds(t, H2 \cup {new})
  <2>1. IsFiniteSet(H2 \cup {new})
    BY <1>7, FS_AddElement
  <2>2. ASSUME NEW h \in H2 PROVE RequestOf(t, h) \in Requests
    <3>1. h \in H1
      BY DEF H2
    <3> QED
      BY <1>7, <1>8, <3>1 DEF Holds
  <2> QED
    BY <1>9, <2>1, <2>2 DEF Holds
<1>15. TotalsOf(PeerSubs!AddRetained(r2, RequestOf(t, new)), t, H2 \cup {new})
  BY <1>6, <1>13, <1>14, AddKeeps
<1>16. PeerSubs!Held(t) = H2 \cup {new}
  BY <1>8
<1> QED
  BY <1>1, <1>9, <1>15, <1>16 DEF TotalsKept

LEMMA EmptyIsSound ==
    ASSUME NEW store, NEW p, \A q \in DOMAIN store : SetSound(store[q]), MaxSubscriptions \in Nat,
           Filled(store, DOMAIN store)
    PROVE  /\ SetSound(PeerSubs!SetOf(store, p))
           /\ Len(PeerSubs!SetOf(store, p).order) <= MaxSubscriptions
<1>1. CASE p \in DOMAIN store
  <2>1. PeerSubs!SetOf(store, p) = store[p]
    BY <1>1 DEF PeerSubs!SetOf
  <2> QED
    BY <1>1, <2>1 DEF Filled
<1>2. CASE p \notin DOMAIN store
  <2> DEFINE set == PeerSubs!SetOf(store, p)
  <2>1. set = [subscriptions |-> <<>>, order |-> <<>>]
    BY <1>2 DEF PeerSubs!SetOf, PeerSubs!EmptySet
  <2>2. <<>> \in SubscriptionMaps /\ <<>> \in Seq(SubscriptionIds)
    <3>1. DOMAIN <<>> = {} /\ <<>> \in Seq(SubscriptionIds)
      OBVIOUS
    <3>2. <<>> = [x \in {} |-> <<>>[x]]
      OBVIOUS
    <3>3. <<>> \in [{} -> Requests]
      BY <3>2
    <3>4. {} \in SUBSET SubscriptionIds
      OBVIOUS
    <3>5. <<>> \in SubscriptionMaps
      BY <3>3, <3>4 DEF SubscriptionMaps
    <3> QED
      BY <3>1, <3>5
  <2>3. IsInjective(<<>>) /\ ToSet(<<>>) = DOMAIN <<>> /\ Len(<<>>) = 0
    BY DEF IsInjective, ToSet
  <2> HIDE DEF set
  <2>4. SetSound(set)
    BY <2>1, <2>2, <2>3 DEF SetSound
  <2>5. Len(set.order) <= MaxSubscriptions
    BY <2>1, <2>3
  <2> QED
    BY <2>4, <2>5 DEF set
<1> QED
  BY <1>1, <1>2

\* The parts of an upsert.
UpsertParts(p, id, request, kept, left, u) ==
    /\ MaxPeers > 0 /\ MaxSubscriptions > 0
    /\ kept = [q \in DOMAIN peers \ Room(p).gone |-> peers[q]]
    /\ left = PeerSubs!SubtractAll(retained, peers, HeldByAll(peers, Room(p).gone))
    /\ u = PeerSubs!UpsertSet(PeerSubs!SetOf(kept, p), id, request)
    /\ peers' = PeerSubs!With(kept, p, u.set) /\ peerOrder' = Room(p).order
    /\ retained' = [PeerSubs!UpsertRetained(left, kept, p, id, request, u.evicted)
                        EXCEPT !.peers = Cardinality(DOMAIN kept \cup {p})]

LEMMA UpsertHasParts ==
    ASSUME NEW p, NEW id, NEW request, PeerSubs!Upsert(p, id, request)
    PROVE  \E kept, left, u : UpsertParts(p, id, request, kept, left, u)
<1> DEFINE room == Room(p)
           kept == PeerSubs!Restrict(peers, DOMAIN peers \ room.gone)
           left == PeerSubs!SubtractAll(retained, peers, UNION {PeerSubs!HeldBy(peers, q) : q \in room.gone})
           u == PeerSubs!UpsertSet(PeerSubs!SetOf(kept, p), id, request)
<1>1. /\ MaxPeers > 0 /\ MaxSubscriptions > 0
      /\ peers' = PeerSubs!With(kept, p, u.set) /\ peerOrder' = room.order
      /\ retained' = [PeerSubs!UpsertRetained(left, kept, p, id, request, u.evicted)
                          EXCEPT !.peers = PeerSubs!Cardinality(DOMAIN kept \cup {p})]
  BY Zenon DEF PeerSubs!Upsert, Room
<1>2. kept = [q \in DOMAIN peers \ room.gone |-> peers[q]]
  BY StoreOperators
<1>3. left = PeerSubs!SubtractAll(retained, peers, HeldByAll(peers, room.gone))
  BY DEF HeldByAll
<1>4. PeerSubs!Cardinality(DOMAIN kept \cup {p}) = Cardinality(DOMAIN kept \cup {p})
  BY StoreOperators
<1>5. u = PeerSubs!UpsertSet(PeerSubs!SetOf(kept, p), id, request)
  OBVIOUS
<1> HIDE DEF kept, left, u
<1>6. UpsertParts(p, id, request, kept, left, u)
  BY <1>1, <1>2, <1>3, <1>4, <1>5 DEF UpsertParts
<1> QED
  BY <1>6

\* What the parts are.
UpsertDone(p, id, request, kept, left, u) ==
    /\ DOMAIN kept = DOMAIN peers \ Room(p).gone /\ \A q \in DOMAIN kept : kept[q] = peers[q]
    /\ Upserted(PeerSubs!SetOf(kept, p), id, request, u)
    /\ Puts(kept, peers', p) /\ peers'[p] = u.set /\ peers' = [q \in DOMAIN peers' |-> peers'[q]]

LEMMA UpsertDoes ==
    ASSUME StoreInv, NEW p \in StorePeers, NEW id \in SubscriptionIds, NEW request \in Requests,
           NEW kept, NEW left, NEW u, UpsertParts(p, id, request, kept, left, u)
    PROVE  UpsertDone(p, id, request, kept, left, u)
<1>1. MaxSubscriptions > 0 /\ MaxSubscriptions \in Nat
  BY StoreAssumption DEF UpsertParts
<1>2. kept = [q \in DOMAIN peers \ Room(p).gone |-> peers[q]]
  BY DEF UpsertParts
<1>3. DOMAIN kept = DOMAIN peers \ Room(p).gone /\ \A q \in DOMAIN kept : kept[q] = peers[q]
  BY <1>2
<1>4. (\A q \in DOMAIN kept : SetSound(kept[q])) /\ Filled(kept, DOMAIN kept)
  BY <1>3 DEF StoreInv, StoreKept, StoreSound, Filled
<1>5. SetSound(PeerSubs!SetOf(kept, p)) /\ Len(PeerSubs!SetOf(kept, p).order) <= MaxSubscriptions
  BY <1>1, <1>4, EmptyIsSound
<1>6. Upserted(PeerSubs!SetOf(kept, p), id, request, u)
  <2>1. u = PeerSubs!UpsertSet(PeerSubs!SetOf(kept, p), id, request)
    BY DEF UpsertParts
  <2> QED
    BY <1>1, <1>5, <2>1, SetUpsert
<1>7. peers' = [x \in DOMAIN kept \cup {p} |-> IF x = p THEN u.set ELSE kept[x]]
  BY DEF UpsertParts, PeerSubs!With
<1>8. Puts(kept, peers', p) /\ peers'[p] = u.set /\ peers' = [q \in DOMAIN peers' |-> peers'[q]]
  BY <1>7 DEF Puts
<1> QED
  BY <1>3, <1>6, <1>8 DEF UpsertDone

LEMMA UpsertKeeps ==
    ASSUME StoreInv, NEW p \in StorePeers, NEW id \in SubscriptionIds, NEW request \in Requests,
           PeerSubs!Upsert(p, id, request)
    PROVE  StoreInv'
<1>1. PICK kept, left, u : UpsertParts(p, id, request, kept, left, u)
  BY UpsertHasParts
<1>2. UpsertDone(p, id, request, kept, left, u)
  BY <1>1, UpsertDoes
<1>3. MaxPeers > 0
  BY <1>1 DEF UpsertParts
<1>4. /\ Room(p).gone \subseteq DOMAIN peers \ {p} /\ Room(p).order \in Seq(StorePeers)
      /\ IsInjective(Room(p).order) /\ ToSet(Room(p).order) = (DOMAIN peers \ Room(p).gone) \cup {p}
      /\ Len(Room(p).order) <= MaxPeers
  BY <1>3, RoomMade
<1>5. StoreSound(peers, peerOrder) /\ Filled(peers, DOMAIN peers) /\ TotalsKept(retained, peers)
  BY DEF StoreInv, StoreKept
<1>6. TotalsKept(left, kept) /\ Holds(kept, PeerSubs!Held(kept))
  <2>1. /\ kept = [q \in DOMAIN peers \ Room(p).gone |-> peers[q]]
        /\ left = PeerSubs!SubtractAll(retained, peers, HeldByAll(peers, Room(p).gone))
    BY <1>1 DEF UpsertParts
  <2> QED
    BY <1>5, <2>1, DropTotals
<1>7. /\ DOMAIN kept = DOMAIN peers \ Room(p).gone /\ \A q \in DOMAIN kept : kept[q] = peers[q]
      /\ Upserted(PeerSubs!SetOf(kept, p), id, request, u)
      /\ Puts(kept, peers', p) /\ peers'[p] = u.set /\ peers' = [q \in DOMAIN peers' |-> peers'[q]]
  BY <1>2 DEF UpsertDone
<1> DEFINE n == PeerSubs!UpsertRetained(left, kept, p, id, request, u.evicted)
           c == Cardinality(DOMAIN kept \cup {p})
<1>8. TotalsKept(n, peers')
  BY <1>6, <1>7, UpsertTotals
<1>9. retained' = [n EXCEPT !.peers = c] /\ peerOrder' = Room(p).order
  BY <1>1 DEF UpsertParts
<1>10. DOMAIN peers' = DOMAIN kept \cup {p} /\ \A q \in DOMAIN kept : q # p => peers'[q] = peers[q]
  BY <1>7 DEF Puts
<1> HIDE DEF n, c
<1>11. TotalsKept(retained', peers') /\ retained'.peers = c
  <2>1. TotalsKept([n EXCEPT !.peers = c], peers') /\ [n EXCEPT !.peers = c].peers = c
    BY <1>8, PeersUpdated
  <2> QED
    BY <1>9, <2>1
<1>12. SetSound(u.set) /\ Len(u.set.order) <= MaxSubscriptions /\ Len(u.set.order) >= 1
  <2>1. SetSound(u.set) /\ Len(u.set.order) <= MaxSubscriptions
    BY <1>7 DEF Upserted
  <2>2. id \in DOMAIN u.set.subscriptions
    BY <1>7 DEF Upserted
  <2>3. u.set.order \in Seq(SubscriptionIds) /\ id \in ToSet(u.set.order)
    BY <2>1, <2>2 DEF SetSound
  <2>4. Len(u.set.order) \in Nat /\ Len(u.set.order) # 0
    BY <2>3 DEF ToSet
  <2> QED
    BY <2>1, <2>4
<1>13. Filled(peers', DOMAIN peers') /\ \A q \in DOMAIN peers' : SetSound(peers'[q])
  <2>1. ASSUME NEW q \in DOMAIN peers'
        PROVE  /\ SetSound(peers'[q]) /\ Len(peers'[q].order) >= 1
               /\ Len(peers'[q].order) <= MaxSubscriptions
    <3>1. CASE q = p
      BY <1>7, <1>12, <3>1
    <3>2. CASE q # p
      <4>1. q \in DOMAIN peers /\ peers'[q] = peers[q]
        BY <1>7, <1>10, <2>1, <3>2
      <4> QED
        BY <1>5, <4>1 DEF StoreSound, Filled
    <3> QED
      BY <3>1, <3>2
  <2> QED
    BY <2>1 DEF Filled
<1>14. StoreSound(peers', peerOrder') /\ Len(peerOrder') <= MaxPeers
  BY <1>4, <1>7, <1>9, <1>10, <1>13 DEF StoreSound
<1>15. StoreKept(peers', peerOrder', retained')
  BY <1>10, <1>11, <1>13, <1>14 DEF StoreKept, c
<1> QED
  BY <1>15 DEF StoreInv

LEMMA StoreInit == PeerSubs!Init => StoreInv
<1> SUFFICES ASSUME PeerSubs!Init PROVE StoreInv
  OBVIOUS
<1>1. peers = <<>> /\ peerOrder = <<>> /\ retained = [peers |-> 0, subscriptions |-> 0, filters |-> 0, bytes |-> 0]
  BY DEF PeerSubs!Init, PeerSubs!NothingRetained
<1>2. DOMAIN peers = {} /\ peers = [p \in DOMAIN peers |-> peers[p]]
  BY <1>1
<1>3. peerOrder \in Seq(StorePeers) /\ IsInjective(peerOrder) /\ ToSet(peerOrder) = {} /\ Len(peerOrder) = 0
  BY <1>1 DEF IsInjective, ToSet
<1>4. PeerSubs!Held(peers) = {}
  BY <1>2 DEF PeerSubs!Held
<1>5. Cardinality({}) = 0
  BY FS_EmptySet
<1>6. ASSUME NEW f PROVE Summed(peers, f, {}) = 0
  BY FS_EmptySet, SumStep DEF Summed
<1>7. TotalsKept(retained, peers) /\ retained.peers = 0
  BY <1>1, <1>4, <1>5, <1>6 DEF TotalsKept, TotalsOf
<1>8. StoreSound(peers, peerOrder) /\ Filled(peers, DOMAIN peers)
  BY <1>2, <1>3 DEF StoreSound, Filled
<1> QED
  BY <1>2, <1>3, <1>5, <1>7, <1>8, StoreAssumption DEF StoreInv, StoreKept

LEMMA StoreStep == StoreInv /\ PeerSubs!Next => StoreInv'
<1> SUFFICES ASSUME StoreInv, PeerSubs!Next PROVE StoreInv'
  OBVIOUS
<1>1. PICK p \in StorePeers :
          \/ \E id \in SubscriptionIds, request \in Requests : PeerSubs!Upsert(p, id, request)
          \/ \E id \in SubscriptionIds : PeerSubs!RemoveSubscription(p, id)
          \/ PeerSubs!RemovePeer(p)
  BY DEF PeerSubs!Next
<1> QED
  BY <1>1, UpsertKeeps, RemoveSubscriptionKeeps, RemovePeerKeeps

LEMMA StoreRetains == StoreInv => PeerSubs!Retained
<1> SUFFICES ASSUME StoreInv PROVE PeerSubs!Retained
  OBVIOUS
<1>1. /\ StoreSound(peers, peerOrder) /\ Filled(peers, DOMAIN peers) /\ Len(peerOrder) <= MaxPeers
      /\ TotalsKept(retained, peers) /\ retained.peers = Cardinality(DOMAIN peers)
  BY DEF StoreInv, StoreKept
<1>2. ASSUME NEW f PROVE PeerSubs!Sum(peers, f, PeerSubs!Held(peers)) = Summed(peers, f, PeerSubs!Held(peers))
  BY StoreOperators DEF PeerSubs!Sum, Summed, RequestOf
<1>3. \A S : PeerSubs!Cardinality(S) = Cardinality(S)
  BY StoreOperators
<1>4. retained = [peers |-> PeerSubs!Cardinality(DOMAIN peers),
                  subscriptions |-> PeerSubs!Cardinality(PeerSubs!Held(peers)),
                  filters |-> PeerSubs!Sum(peers, FilterCount, PeerSubs!Held(peers)),
                  bytes |-> PeerSubs!Sum(peers, EncodedBytes, PeerSubs!Held(peers))]
  <2> DEFINE held == PeerSubs!Held(peers)
             d == Cardinality(DOMAIN peers)
             n == Cardinality(held)
             f == Summed(peers, FilterCount, held)
             b == Summed(peers, EncodedBytes, held)
  <2>1. retained = [peers |-> d, subscriptions |-> n, filters |-> f, bytes |-> b]
    BY <1>1 DEF TotalsKept, TotalsOf
  <2>2. /\ PeerSubs!Cardinality(DOMAIN peers) = d /\ PeerSubs!Cardinality(held) = n
        /\ PeerSubs!Sum(peers, FilterCount, held) = f /\ PeerSubs!Sum(peers, EncodedBytes, held) = b
    BY <1>2, <1>3
  <2> HIDE DEF d, n, f, b
  <2> QED
    BY <2>1, <2>2
<1>5. Cardinality(DOMAIN peers) = Len(peerOrder)
  <2>1. peerOrder \in Seq(StorePeers) /\ IsInjective(peerOrder) /\ ToSet(peerOrder) = DOMAIN peers
    BY <1>1 DEF StoreSound
  <2> QED
    BY <2>1, DistinctCardinality
<1>6. ASSUME NEW p \in DOMAIN peers
      PROVE  /\ DOMAIN peers[p].subscriptions # {}
             /\ PeerSubs!Cardinality(DOMAIN peers[p].subscriptions) <= MaxSubscriptions
             /\ Len(peers[p].order) = PeerSubs!Cardinality(DOMAIN peers[p].subscriptions)
  <2>1. SetSound(peers[p]) /\ Len(peers[p].order) >= 1 /\ Len(peers[p].order) <= MaxSubscriptions
    BY <1>1 DEF StoreSound, Filled
  <2>2. Cardinality(DOMAIN peers[p].subscriptions) = Len(peers[p].order)
    BY <2>1, SetFacts
  <2>3. DOMAIN peers[p].subscriptions # {}
    <3>1. Cardinality({}) = 0
      BY FS_EmptySet
    <3> SUFFICES ASSUME DOMAIN peers[p].subscriptions = {} PROVE FALSE
      OBVIOUS
    <3>2. Len(peers[p].order) = 0
      BY <2>2, <3>1
    <3> QED
      BY <2>1, <3>2
  <2> QED
    BY <1>3, <2>1, <2>2, <2>3
<1>7. PeerSubs!Cardinality(DOMAIN peers) <= MaxPeers /\ Len(peerOrder) = PeerSubs!Cardinality(DOMAIN peers)
  BY <1>1, <1>3, <1>5
<1> QED
  BY <1>4, <1>6, <1>7 DEF PeerSubs!Retained

-----------------------------------------------------------------------------
(* The nested list the maps and queues stand for *)

\* Two lists in step: where the queue has a key moved to its end, the list has
\* what belongs to it taken out and put at the end.
LEMMA MappedRenewed ==
    ASSUME NEW V, NEW q \in Seq(V), NEW v \in V, NEW limit \in Nat, limit > 0, NEW e, NEW f, NEW T,
           \A k \in ToSet(q) : e[k] \in T <=> k # v, \A k \in ToSet(q) : k # v => f[k] = e[k]
    PROVE  Mapped(Renewed(q, v, limit), f) = PeerSubs!Abstract!Newest(Append(Only(Mapped(q, e), T), f[v]), limit)
<1> DEFINE S == ToSet(q) \ {v}
           a == Only(q, S)
           b == Append(a, v)
           c == Append(Only(Mapped(q, e), T), f[v])
<1>1. a \in Seq(V) /\ ToSet(a) = ToSet(q) \cap S
  BY OnlyRetains
<1>2. Mapped(a, e) = Only(Mapped(q, e), T)
  <2>1. \A k \in ToSet(q) : e[k] \in T <=> k \in S
    OBVIOUS
  <2> HIDE DEF S
  <2> QED
    BY <2>1, MappedOnly
<1>3. Mapped(a, f) = Mapped(a, e)
  <2>1. \A k \in ToSet(a) : f[k] = e[k]
    BY <1>1
  <2> HIDE DEF a
  <2> QED
    BY <1>1, <2>1, MappedSame
<1> HIDE DEF a
<1>4. b \in Seq(V) /\ b # <<>> /\ Len(b) \in Nat
  BY <1>1
<1>5. Mapped(b, f) = c
  BY <1>1, <1>2, <1>3, MappedEnds
<1>6. Renewed(q, v, limit) = IF Len(b) > limit THEN Tail(b) ELSE b
  BY DEF Renewed, a
<1> HIDE DEF b, c
<1>7. Len(c) = Len(b) /\ Mapped(Tail(b), f) = Tail(c)
  BY <1>4, <1>5, MappedIsSeq, MappedEnds
<1>8. PeerSubs!Abstract!Newest(c, limit) = IF Len(b) > limit THEN Tail(c) ELSE c
  BY <1>7 DEF PeerSubs!Abstract!Newest
<1>9. CASE Len(b) > limit
  BY <1>6, <1>7, <1>8, <1>9 DEF c
<1>10. CASE ~(Len(b) > limit)
  BY <1>5, <1>6, <1>8, <1>10 DEF c
<1> QED
  BY <1>9, <1>10

\* The subscriptions of a peer as a list, and the peers of a store as one.
Listing(set) == [k \in SubscriptionIds |-> [id |-> k, request |-> set.subscriptions[k]]]
Listed(set) == Mapped(set.order, Listing(set))
EntriesOf(store) == [p \in StorePeers |-> [peer |-> p, subscriptions |-> Listed(PeerSubs!SetOf(store, p))]]
RecentOf(store, order) == Mapped(order, EntriesOf(store))

LEMMA RecentIs ==
    ASSUME NEW store, NEW order, StoreSound(store, order)
    PROVE  [i \in DOMAIN order |->
                LET set == PeerSubs!SetOf(store, order[i]) IN
                [peer |-> order[i],
                 subscriptions |-> [j \in DOMAIN set.order |->
                                        [id |-> set.order[j], request |-> set.subscriptions[set.order[j]]]]]]
               = RecentOf(store, order)
<1>1. \A i \in DOMAIN order : order[i] \in DOMAIN store /\ order[i] \in StorePeers
  BY DEF StoreSound, ToSet
<1>2. ASSUME NEW p \in DOMAIN store
      PROVE  LET set == PeerSubs!SetOf(store, p) IN
             [j \in DOMAIN set.order |-> [id |-> set.order[j], request |-> set.subscriptions[set.order[j]]]]
                 = Listed(set)
  <2>1. PeerSubs!SetOf(store, p) = store[p] /\ SetSound(store[p])
    BY DEF PeerSubs!SetOf, StoreSound
  <2> DEFINE set == PeerSubs!SetOf(store, p)
  <2>2. set.order \in Seq(SubscriptionIds)
    BY <2>1 DEF SetSound
  <2> HIDE DEF set
  <2>3. \A j \in DOMAIN set.order : set.order[j] \in SubscriptionIds
    BY <2>2
  <2>4. [j \in DOMAIN set.order |-> [id |-> set.order[j], request |-> set.subscriptions[set.order[j]]]] = Listed(set)
    BY <2>3 DEF Listed, Listing, Mapped
  <2> QED
    BY <2>4 DEF set
<1>3. ASSUME NEW i \in DOMAIN order
      PROVE  LET set == PeerSubs!SetOf(store, order[i]) IN
             [peer |-> order[i],
              subscriptions |-> [j \in DOMAIN set.order |->
                                     [id |-> set.order[j], request |-> set.subscriptions[set.order[j]]]]]
                 = EntriesOf(store)[order[i]]
  BY <1>1, <1>2, Zenon DEF EntriesOf
<1> QED
  BY <1>3, Zenon DEF RecentOf, Mapped

\* What a peer's list is without an id.
ButId(list, id) == {subscription \in ToSet(list) : subscription.id # id}
ButPeer(list, p) == {entry \in ToSet(list) : entry.peer # p}

LEMMA ListKeys ==
    ASSUME NEW set, SetSound(set), NEW id
    PROVE  \A k \in ToSet(set.order) : Listing(set)[k] \in ButId(Listed(set), id) <=> k # id
<1>1. set.order \in Seq(SubscriptionIds) /\ ToSet(set.order) \in SUBSET SubscriptionIds
  BY DEF SetSound, ToSet
<1>2. ToSet(Listed(set)) = Images(Listing(set), ToSet(set.order))
  BY <1>1, MappedIsSeq DEF Listed
<1>3. ASSUME NEW k \in ToSet(set.order)
      PROVE  Listing(set)[k] \in Images(Listing(set), ToSet(set.order)) /\ Listing(set)[k].id = k
  BY <1>1 DEF Images, Listing
<1> QED
  BY <1>2, <1>3 DEF ButId

LEMMA PeerKeys ==
    ASSUME NEW store, NEW order, StoreSound(store, order), NEW p
    PROVE  \A k \in ToSet(order) : EntriesOf(store)[k] \in ButPeer(RecentOf(store, order), p) <=> k # p
<1>1. order \in Seq(StorePeers) /\ ToSet(order) \in SUBSET StorePeers
  BY DEF StoreSound, ToSet
<1>2. ToSet(RecentOf(store, order)) = Images(EntriesOf(store), ToSet(order))
  BY <1>1, MappedIsSeq DEF RecentOf
<1>3. ASSUME NEW k \in ToSet(order)
      PROVE  EntriesOf(store)[k] \in Images(EntriesOf(store), ToSet(order)) /\ EntriesOf(store)[k].peer = k
  <2>1. EntriesOf(store)[k] = [peer |-> k, subscriptions |-> Listed(PeerSubs!SetOf(store, k))]
    BY <1>1 DEF EntriesOf
  <2> QED
    BY <2>1 DEF Images
<1> QED
  BY <1>2, <1>3 DEF ButPeer

LEMMA ListedWithout ==
    ASSUME NEW set, SetSound(set), NEW id, NEW left, Reduced(set, id, left)
    PROVE  Listed(left) = PeerSubs!Abstract!WithoutId(Listed(set), id)
<1> DEFINE q == set.order S == ToSet(q) \ {id}
<1>1. q \in Seq(SubscriptionIds) /\ left.order = Only(q, S) /\ ToSet(q) \in SUBSET SubscriptionIds
  BY DEF SetSound, Reduced, ToSet
<1>2. \A k \in ToSet(q) : Listing(set)[k] \in ButId(Listed(set), id) <=> k \in S
  BY ListKeys
<1>3. PeerSubs!Abstract!WithoutId(Listed(set), id) = Only(Listed(set), ButId(Listed(set), id))
  <2>1. PeerSubs!Abstract!Range(Listed(set)) = ToSet(Listed(set))
    BY StoreOperators
  <2>2. \A T : PeerSubs!Abstract!Only(Listed(set), T) = Only(Listed(set), T)
    BY StoreOperators
  <2> QED
    BY <2>1, <2>2 DEF PeerSubs!Abstract!WithoutId, ButId
<1>4. ToSet(Only(q, S)) = ToSet(q) \cap S /\ Only(q, S) \in Seq(SubscriptionIds)
  BY <1>1, OnlyRetains
<1>5. \A k \in ToSet(Only(q, S)) : Listing(left)[k] = Listing(set)[k]
  <2>1. ASSUME NEW k \in ToSet(Only(q, S)) PROVE Listing(left)[k] = Listing(set)[k]
    <3>1. k \in DOMAIN left.subscriptions /\ k \in SubscriptionIds
      BY <1>1, <1>4 DEF SetSound, Reduced
    <3>2. left.subscriptions[k] = set.subscriptions[k]
      BY <3>1 DEF Reduced
    <3> QED
      BY <3>1, <3>2 DEF Listing
  <2> QED
    BY <2>1
<1> HIDE DEF S, q
<1>6. Mapped(Only(q, S), Listing(left)) = Mapped(Only(q, S), Listing(set))
  BY <1>4, <1>5, MappedSame
<1>7. Mapped(Only(q, S), Listing(set)) = Only(Mapped(q, Listing(set)), ButId(Listed(set), id))
  BY <1>1, <1>2, MappedOnly
<1> QED
  BY <1>1, <1>3, <1>6, <1>7 DEF Listed, q

LEMMA ListedUpsert ==
    ASSUME NEW set, SetSound(set), NEW id \in SubscriptionIds, NEW request, NEW u,
           Upserted(set, id, request, u), MaxSubscriptions > 0
    PROVE  Listed(u.set)
               = PeerSubs!Abstract!Newest(Append(PeerSubs!Abstract!WithoutId(Listed(set), id),
                                                 [id |-> id, request |-> request]), MaxSubscriptions)
<1> DEFINE q == set.order
           e == Listing(set)
           T == ButId(Listed(set), id)
           f == [k \in SubscriptionIds |-> IF k = id THEN [id |-> id, request |-> request] ELSE e[k]]
           n == Renewed(q, id, MaxSubscriptions)
<1>1. q \in Seq(SubscriptionIds) /\ ToSet(q) \in SUBSET SubscriptionIds /\ MaxSubscriptions \in Nat
  BY StoreAssumption DEF SetSound, ToSet
<1>2. \A k \in ToSet(q) : e[k] \in T <=> k # id
  BY ListKeys
<1>3. f[id] = [id |-> id, request |-> request] /\ \A k \in ToSet(q) : k # id => f[k] = e[k]
  BY <1>1
<1>4. PeerSubs!Abstract!WithoutId(Listed(set), id) = Only(Listed(set), T)
  <2>1. PeerSubs!Abstract!Range(Listed(set)) = ToSet(Listed(set))
    BY StoreOperators
  <2>2. \A X : PeerSubs!Abstract!Only(Listed(set), X) = Only(Listed(set), X)
    BY StoreOperators
  <2> QED
    BY <2>1, <2>2 DEF PeerSubs!Abstract!WithoutId, ButId
<1>5. u.set.order = n /\ n \in Seq(SubscriptionIds) /\ ToSet(n) = DOMAIN u.set.subscriptions
  <2>1. u.set.order = n /\ SetSound(u.set)
    BY DEF Upserted
  <2> HIDE DEF n
  <2> QED
    BY <2>1 DEF SetSound
<1>6. \A k \in ToSet(n) : Listing(u.set)[k] = f[k]
  <2>1. ASSUME NEW k \in ToSet(n) PROVE Listing(u.set)[k] = f[k]
    <3>1. k \in SubscriptionIds /\ k \in DOMAIN u.set.subscriptions
      BY <1>5 DEF ToSet
    <3>2. CASE k = id
      <4>1. u.set.subscriptions[k] = request
        BY <3>2 DEF Upserted
      <4> QED
        BY <3>1, <3>2, <4>1 DEF Listing
    <3>3. CASE k # id
      <4>1. u.set.subscriptions[k] = set.subscriptions[k]
        BY <3>1, <3>3 DEF Upserted
      <4> QED
        BY <3>1, <3>3, <4>1 DEF Listing
    <3> QED
      BY <3>2, <3>3
  <2> QED
    BY <2>1
<1> HIDE DEF q, e, T, f
<1>7. Mapped(n, f) = PeerSubs!Abstract!Newest(Append(Only(Mapped(q, e), T), f[id]), MaxSubscriptions)
  BY <1>1, <1>2, <1>3, MappedRenewed
<1> HIDE DEF n
<1>8. Mapped(n, Listing(u.set)) = Mapped(n, f)
  BY <1>5, <1>6, MappedSame
<1>9. Listed(u.set) = Mapped(n, Listing(u.set)) /\ Listed(set) = Mapped(q, e)
  BY <1>5 DEF Listed, q, e
<1> QED
  BY <1>3, <1>4, <1>7, <1>8, <1>9

\* The list of the store, before and after.
LEMMA RecentNow ==
    ASSUME StoreInv
    PROVE  PeerSubs!Recent = RecentOf(peers, peerOrder)
<1>1. StoreSound(peers, peerOrder)
  BY DEF StoreInv, StoreKept
<1> QED
  BY <1>1, RecentIs, Zenon DEF PeerSubs!Recent

LEMMA RecentNext ==
    ASSUME StoreInv'
    PROVE  PeerSubs!Recent' = RecentOf(peers', peerOrder')
<1>1. StoreSound(peers', peerOrder')
  BY DEF StoreInv, StoreKept
<1> QED
  BY <1>1, RecentIs, Zenon DEF PeerSubs!Recent

LEMMA OthersAre ==
    ASSUME StoreInv, NEW p
    PROVE  LET list == RecentOf(peers, peerOrder) IN
           PeerSubs!Abstract!OtherPeers(p) = Only(list, ButPeer(list, p))
<1> DEFINE list == PeerSubs!Recent
<1>1. PeerSubs!Abstract!Range(list) = ToSet(list) /\ \A T : PeerSubs!Abstract!Only(list, T) = Only(list, T)
  BY StoreOperators
<1>2. PeerSubs!Abstract!OtherPeers(p) = Only(list, ButPeer(list, p))
  BY <1>1 DEF PeerSubs!Abstract!OtherPeers, ButPeer
<1> QED
  BY <1>2, RecentNow

\* Stores that agree on the keys of a queue make the same list of it.
LEMMA SameEntries ==
    ASSUME NEW order \in Seq(StorePeers), NEW store, NEW t,
           \A p \in ToSet(order) : PeerSubs!SetOf(t, p) = PeerSubs!SetOf(store, p)
    PROVE  Mapped(order, EntriesOf(t)) = Mapped(order, EntriesOf(store))
<1>1. \A p \in ToSet(order) : EntriesOf(t)[p] = EntriesOf(store)[p]
  <2>1. ToSet(order) \in SUBSET StorePeers
    BY DEF ToSet
  <2> QED
    BY <2>1 DEF EntriesOf
<1> QED
  BY <1>1, MappedSame

LEMMA DroppedRefines ==
    ASSUME NEW store, NEW order, StoreSound(store, order), NEW p
    PROVE  RecentOf(PeerSubs!Without(store, p), PeerSubs!Retain(order, p))
               = Only(RecentOf(store, order), ButPeer(RecentOf(store, order), p))
<1> DEFINE S == ToSet(order) \ {p}
           t == PeerSubs!Without(store, p)
<1>1. order \in Seq(StorePeers) /\ IsInjective(order) /\ ToSet(order) = DOMAIN store
  BY DEF StoreSound
<1>2. /\ PeerSubs!Retain(order, p) = Only(order, S) /\ Only(order, S) \in Seq(StorePeers)
      /\ ToSet(Only(order, S)) = S
  <2>1. /\ PeerSubs!Retain(order, p) = Only(order, S) /\ PeerSubs!Retain(order, p) \in Seq(StorePeers)
        /\ ToSet(PeerSubs!Retain(order, p)) = S
    BY <1>1, RetainQueue
  <2> HIDE DEF S
  <2> QED
    BY <2>1
<1>3. t = [x \in DOMAIN store \ {p} |-> store[x]]
  BY StoreOperators DEF PeerSubs!Without
<1>4. \A x \in S : PeerSubs!SetOf(t, x) = PeerSubs!SetOf(store, x)
  BY <1>1, <1>3 DEF PeerSubs!SetOf
<1>5. \A k \in ToSet(order) : EntriesOf(store)[k] \in ButPeer(RecentOf(store, order), p) <=> k \in S
  BY PeerKeys
<1> HIDE DEF S, t
<1>6. Mapped(Only(order, S), EntriesOf(t)) = Mapped(Only(order, S), EntriesOf(store))
  BY <1>2, <1>4, SameEntries
<1>7. Mapped(Only(order, S), EntriesOf(store)) = Only(Mapped(order, EntriesOf(store)), ButPeer(RecentOf(store, order), p))
  BY <1>1, <1>5, MappedOnly
<1> QED
  BY <1>2, <1>6, <1>7 DEF RecentOf, t

LEMMA RemovePeerRefines ==
    ASSUME StoreInv, StoreInv', NEW p, PeerSubs!RemovePeer(p)
    PROVE  PeerSubs!Abstract!RemovePeer(p)
<1>1. peers' = PeerSubs!Without(peers, p) /\ peerOrder' = PeerSubs!Retain(peerOrder, p)
  BY DEF PeerSubs!RemovePeer, PeerSubs!Dropped
<1>2. StoreSound(peers, peerOrder)
  BY DEF StoreInv, StoreKept
<1>3. RecentOf(peers', peerOrder') = Only(RecentOf(peers, peerOrder), ButPeer(RecentOf(peers, peerOrder), p))
  BY <1>1, <1>2, DroppedRefines
<1>4. PeerSubs!Recent' = PeerSubs!Abstract!OtherPeers(p)
  BY <1>3, RecentNext, OthersAre
<1> QED
  BY <1>4 DEF PeerSubs!Abstract!RemovePeer

\* What closing a subscription makes of the entries.
Closed(entry, p, id) ==
    IF entry.peer = p THEN [entry EXCEPT !.subscriptions = PeerSubs!Abstract!WithoutId(@, id)] ELSE entry
Peopled(list) == {entry \in ToSet(list) : entry.subscriptions # <<>>}

LEMMA CloseList ==
    ASSUME NEW store, NEW order, StoreSound(store, order), NEW p \in DOMAIN store, NEW id,
           NEW left, Reduced(store[p], id, left), NEW t, PutIn(t, store, p, left)
    PROVE  LET list == RecentOf(store, order) IN
           [i \in DOMAIN list |-> Closed(list[i], p, id)] = RecentOf(t, order)
<1> DEFINE list == RecentOf(store, order)
<1>1. order \in Seq(StorePeers) /\ ToSet(order) = DOMAIN store /\ ToSet(order) \in SUBSET StorePeers
  BY DEF StoreSound, ToSet
<1>2. DOMAIN t = DOMAIN store /\ t[p] = left /\ \A q \in DOMAIN store : q # p => t[q] = store[q]
  BY DEF PutIn
<1>3. ASSUME NEW q \in DOMAIN store PROVE Closed(EntriesOf(store)[q], p, id) = EntriesOf(t)[q]
  <2>1. /\ EntriesOf(store)[q] = [peer |-> q, subscriptions |-> Listed(store[q])]
        /\ EntriesOf(t)[q] = [peer |-> q, subscriptions |-> Listed(t[q])]
    BY <1>1, <1>2 DEF EntriesOf, PeerSubs!SetOf
  <2>2. CASE q = p
    <3>1. SetSound(store[p])
      BY DEF StoreSound
    <3>2. Listed(left) = PeerSubs!Abstract!WithoutId(Listed(store[p]), id)
      BY <3>1, ListedWithout
    <3> DEFINE a == Listed(store[p]) b == Listed(left)
    <3> HIDE DEF a, b
    <3>3. EntriesOf(store)[q] = [peer |-> q, subscriptions |-> a] /\ EntriesOf(t)[q] = [peer |-> q, subscriptions |-> b]
      BY <1>2, <2>1, <2>2 DEF a, b
    <3>4. Closed(EntriesOf(store)[q], p, id) = [peer |-> q, subscriptions |-> PeerSubs!Abstract!WithoutId(a, id)]
      BY <2>2, <3>3 DEF Closed
    <3> QED
      BY <3>2, <3>3, <3>4 DEF a, b
  <2>3. CASE q # p
    BY <1>2, <2>1, <2>3 DEF Closed
  <2> QED
    BY <2>2, <2>3
<1>4. /\ DOMAIN list = DOMAIN order /\ \A i \in DOMAIN order : list[i] = EntriesOf(store)[order[i]]
      /\ RecentOf(t, order) = [i \in DOMAIN order |-> EntriesOf(t)[order[i]]]
  BY DEF RecentOf, Mapped
<1>5. \A i \in DOMAIN order : order[i] \in DOMAIN store
  BY <1>1 DEF ToSet
<1>6. \A i \in DOMAIN order : Closed(list[i], p, id) = EntriesOf(t)[order[i]]
  BY <1>3, <1>4, <1>5
<1> HIDE DEF list
<1>7. [i \in DOMAIN list |-> Closed(list[i], p, id)] = RecentOf(t, order)
  BY <1>4, <1>6
<1> QED
  BY <1>7 DEF list

\* Lists of subscriptions are empty when their queues are.
LEMMA PeopledKeys ==
    ASSUME NEW store, NEW order, StoreSound(store, order)
    PROVE  \A k \in ToSet(order) :
               EntriesOf(store)[k] \in Peopled(RecentOf(store, order)) <=> DOMAIN store[k].subscriptions # {}
<1>1. order \in Seq(StorePeers) /\ ToSet(order) = DOMAIN store /\ ToSet(order) \in SUBSET StorePeers
  BY DEF StoreSound, ToSet
<1>2. ToSet(RecentOf(store, order)) = Images(EntriesOf(store), ToSet(order))
  BY <1>1, MappedIsSeq DEF RecentOf
<1>3. ASSUME NEW k \in ToSet(order)
      PROVE  /\ EntriesOf(store)[k] \in Images(EntriesOf(store), ToSet(order))
             /\ EntriesOf(store)[k].subscriptions # <<>> <=> DOMAIN store[k].subscriptions # {}
  <2>1. EntriesOf(store)[k] = [peer |-> k, subscriptions |-> Listed(store[k])]
    BY <1>1 DEF EntriesOf, PeerSubs!SetOf
  <2>2. SetSound(store[k])
    BY <1>1 DEF StoreSound
  <2> DEFINE q == store[k].order l == Listed(store[k])
  <2>3. q \in Seq(SubscriptionIds) /\ ToSet(q) = DOMAIN store[k].subscriptions
    BY <2>2 DEF SetSound
  <2>4. Len(l) = Len(q) /\ DOMAIN l = 1..Len(q) /\ l \in Seq(Images(Listing(store[k]), SubscriptionIds))
    BY <2>3, MappedIsSeq DEF Listed
  <2> HIDE DEF q, l
  <2>5. ToSet(q) = {} <=> Len(q) = 0
    BY <2>3 DEF ToSet
  <2>6. l = <<>> <=> Len(q) = 0
    BY <2>3, <2>4
  <2>7. EntriesOf(store)[k].subscriptions = l
    BY <2>1 DEF l
  <2>8. EntriesOf(store)[k] \in Images(EntriesOf(store), ToSet(order))
    BY DEF Images
  <2> QED
    BY <2>3, <2>5, <2>6, <2>7, <2>8
<1> QED
  BY <1>2, <1>3 DEF Peopled

LEMMA ClosedList ==
    ASSUME StoreInv, NEW p, NEW id, NEW lists,
           lists = [i \in DOMAIN RecentOf(peers, peerOrder) |-> Closed(RecentOf(peers, peerOrder)[i], p, id)],
           PeerSubs!Recent' = Only(lists, Peopled(lists))
    PROVE  PeerSubs!Abstract!RemoveSubscription(p, id)
<1>1. PeerSubs!Recent = RecentOf(peers, peerOrder)
  BY RecentNow
<1>2. \A s : PeerSubs!Abstract!Range(s) = ToSet(s)
  BY StoreOperators
<1>3. \A s, S : PeerSubs!Abstract!Only(s, S) = Only(s, S)
  BY StoreOperators
<1>4. PeerSubs!Recent' = PeerSubs!Abstract!Only(lists, {entry \in PeerSubs!Abstract!Range(lists) : entry.subscriptions # <<>>})
  BY <1>2, <1>3 DEF Peopled
<1>5. lists = [i \in DOMAIN PeerSubs!Recent |-> Closed(PeerSubs!Recent[i], p, id)]
  BY <1>1
<1> QED
  BY <1>4, <1>5, Zenon DEF PeerSubs!Abstract!RemoveSubscription, Closed

LEMMA RemoveSubscriptionRefines ==
    ASSUME StoreInv, StoreInv', NEW p, NEW id, PeerSubs!RemoveSubscription(p, id)
    PROVE  PeerSubs!Abstract!RemoveSubscription(p, id)
<1> DEFINE set == PeerSubs!SetOf(peers, p)
           left == [subscriptions |-> PeerSubs!Without(set.subscriptions, id),
                    order |-> PeerSubs!Retain(set.order, id)]
           n == PeerSubs!SubtractAll(retained, peers, {<<p, id>>} \cap PeerSubs!Held(peers))
           t == [peers EXCEPT ![p] = left]
           lists == RecentOf(t, peerOrder)
<1>1. /\ StoreSound(peers, peerOrder) /\ Filled(peers, DOMAIN peers) /\ TotalsKept(retained, peers)
  BY DEF StoreInv, StoreKept
<1>2. /\ p \in DOMAIN peers
      /\ IF DOMAIN left.subscriptions = {} THEN PeerSubs!Dropped(t, n, p)
         ELSE peers' = t /\ retained' = n /\ peerOrder' = peerOrder
  BY DEF PeerSubs!RemoveSubscription
<1>3. set = peers[p] /\ SetSound(set)
  BY <1>1, <1>2 DEF PeerSubs!SetOf, StoreSound
<1>4. Reduced(set, id, left)
  <2> HIDE DEF set
  <2> QED
    BY <1>3, SetRemove
<1> HIDE DEF left, set
<1>5. PutIn(t, peers, p, left) /\ Subtracts(n, retained, peers, p, id) /\ Reduced(peers[p], id, left)
  BY <1>3, <1>4 DEF PutIn, Subtracts
<1>6. DOMAIN t = DOMAIN peers /\ t[p] = left /\ \A q \in DOMAIN peers : q # p => t[q] = peers[q]
  BY <1>2
<1> HIDE DEF t, n
<1>7. StoreSound(t, peerOrder)
  BY <1>1, <1>2, <1>5, ReduceKeeps
<1>8. [i \in DOMAIN RecentOf(peers, peerOrder) |-> Closed(RecentOf(peers, peerOrder)[i], p, id)] = lists
  BY <1>1, <1>2, <1>5, CloseList
<1>9. ASSUME NEW k \in ToSet(peerOrder)
      PROVE  k # p => EntriesOf(t)[k] \in Peopled(lists)
  <2>1. k \in DOMAIN peers
    BY <1>1 DEF StoreSound
  <2>2. ASSUME k # p PROVE DOMAIN t[k].subscriptions # {}
    <3>1. t[k] = peers[k] /\ SetSound(peers[k]) /\ Len(peers[k].order) >= 1
      BY <1>1, <1>6, <2>1, <2>2 DEF StoreSound, Filled
    <3> DEFINE q == peers[k].order
    <3>2. q \in Seq(SubscriptionIds) /\ ToSet(q) = DOMAIN peers[k].subscriptions /\ Len(q) >= 1
      BY <3>1 DEF SetSound
    <3> HIDE DEF q
    <3>3. ToSet(q) # {}
      BY <3>2 DEF ToSet
    <3> QED
      BY <3>1, <3>2, <3>3
  <2> QED
    BY <1>7, <2>2, PeopledKeys
<1>10. p \in ToSet(peerOrder)
  BY <1>1, <1>2 DEF StoreSound
<1>11. peerOrder \in Seq(StorePeers)
  BY <1>1 DEF StoreSound
<1>12. PeerSubs!Recent' = Only(lists, Peopled(lists))
  <2>1. CASE DOMAIN left.subscriptions = {}
    <3>1. peers' = PeerSubs!Without(t, p) /\ peerOrder' = PeerSubs!Retain(peerOrder, p)
      BY <1>2, <2>1 DEF PeerSubs!Dropped
    <3>2. RecentOf(peers', peerOrder') = Only(lists, ButPeer(lists, p))
      BY <1>7, <3>1, DroppedRefines
    <3>3. EntriesOf(t)[p] \notin Peopled(lists)
      BY <1>6, <1>7, <1>10, <2>1, PeopledKeys
    <3> DEFINE S == ToSet(peerOrder) \ {p}
    <3>4. \A k \in ToSet(peerOrder) : EntriesOf(t)[k] \in Peopled(lists) <=> k \in S
      BY <1>9, <3>3
    <3>5. \A k \in ToSet(peerOrder) : EntriesOf(t)[k] \in ButPeer(lists, p) <=> k \in S
      BY <1>7, PeerKeys
    <3> HIDE DEF S
    <3>6. Only(Mapped(peerOrder, EntriesOf(t)), Peopled(lists)) = Mapped(Only(peerOrder, S), EntriesOf(t))
      BY <1>11, <3>4, MappedOnly
    <3>7. Only(Mapped(peerOrder, EntriesOf(t)), ButPeer(lists, p)) = Mapped(Only(peerOrder, S), EntriesOf(t))
      BY <1>11, <3>5, MappedOnly
    <3>8. lists = Mapped(peerOrder, EntriesOf(t))
      BY DEF RecentOf
    <3> HIDE DEF lists
    <3> QED
      BY <3>2, <3>6, <3>7, <3>8, RecentNext
  <2>2. CASE DOMAIN left.subscriptions # {}
    <3>1. peers' = t /\ peerOrder' = peerOrder
      BY <1>2, <2>2
    <3>2. \A k \in ToSet(peerOrder) : EntriesOf(t)[k] \in Peopled(lists)
      BY <1>6, <1>7, <1>9, <1>10, <2>2, PeopledKeys
    <3>3. lists \in Seq(Images(EntriesOf(t), StorePeers)) /\ ToSet(lists) = Images(EntriesOf(t), ToSet(peerOrder))
      BY <1>11, MappedIsSeq DEF RecentOf
    <3>4. ToSet(lists) \subseteq Peopled(lists)
      BY <3>2, <3>3 DEF Images
    <3>5. PeerSubs!Recent' = lists
      BY <3>1, RecentNext
    <3> HIDE DEF lists
    <3>6. Only(lists, Peopled(lists)) = lists
      BY <3>3, <3>4, OnlyAll
    <3> QED
      BY <3>5, <3>6
  <2> QED
    BY <2>1, <2>2
<1> HIDE DEF lists
<1>13. lists = [i \in DOMAIN RecentOf(peers, peerOrder) |-> Closed(RecentOf(peers, peerOrder)[i], p, id)]
  BY <1>8
<1> QED
  BY <1>12, <1>13, ClosedList

\* The abstract list has the subscriptions the store has.
LEMMA SubscriptionsFound ==
    ASSUME StoreInv, NEW p \in StorePeers
    PROVE  PeerSubs!Abstract!SubscriptionsOf(p) = Listed(PeerSubs!SetOf(peers, p))
<1> DEFINE list == PeerSubs!Recent
           places == {i \in DOMAIN list : list[i].peer = p}
<1>1. peerOrder \in Seq(StorePeers) /\ ToSet(peerOrder) = DOMAIN peers
  BY DEF StoreInv, StoreKept, StoreSound
<1>2. PeerSubs!Abstract!SubscriptionsOf(p)
          = IF places = {} THEN <<>> ELSE list[CHOOSE i \in places : TRUE].subscriptions
  BY Zenon DEF PeerSubs!Abstract!SubscriptionsOf
<1>3. DOMAIN list = DOMAIN peerOrder /\ \A i \in DOMAIN peerOrder : list[i] = EntriesOf(peers)[peerOrder[i]]
  BY RecentNow DEF RecentOf, Mapped
<1>4. ASSUME NEW q \in StorePeers
      PROVE  EntriesOf(peers)[q].peer = q /\ EntriesOf(peers)[q].subscriptions = Listed(PeerSubs!SetOf(peers, q))
  <2> DEFINE l == Listed(PeerSubs!SetOf(peers, q))
  <2>1. EntriesOf(peers)[q] = [peer |-> q, subscriptions |-> l]
    BY DEF EntriesOf
  <2> HIDE DEF l
  <2> QED
    BY <2>1 DEF l
<1>5. \A i \in DOMAIN peerOrder : peerOrder[i] \in StorePeers
  BY <1>1
<1>6. places = {i \in DOMAIN peerOrder : peerOrder[i] = p}
  BY <1>3, <1>4, <1>5
<1>7. CASE p \in DOMAIN peers
  <2>1. places # {}
    BY <1>1, <1>6, <1>7 DEF ToSet
  <2> DEFINE k == CHOOSE i \in places : TRUE
  <2>2. k \in places
    BY <2>1
  <2> HIDE DEF k, places
  <2>3. k \in DOMAIN peerOrder /\ peerOrder[k] = p
    BY <1>6, <2>2
  <2>4. list[k].subscriptions = Listed(PeerSubs!SetOf(peers, p))
    BY <1>3, <1>4, <2>3
  <2> QED
    BY <1>2, <2>1, <2>4 DEF k
<1>8. CASE p \notin DOMAIN peers
  <2>1. places = {}
    BY <1>1, <1>6, <1>8 DEF ToSet
  <2>2. PeerSubs!SetOf(peers, p).order = <<>>
    BY <1>8 DEF PeerSubs!SetOf, PeerSubs!EmptySet
  <2>3. Listed(PeerSubs!SetOf(peers, p)) = <<>>
    BY <2>2 DEF Listed, Mapped
  <2> QED
    BY <1>2, <2>1, <2>3
<1> QED
  BY <1>7, <1>8

\* A REQ renews its subscription among those of its peer, and its peer among the
\* peers: what is over a limit is the first of its list.
LEMMA UpsertRefines ==
    ASSUME StoreInv, StoreInv', NEW p \in StorePeers, NEW id \in SubscriptionIds, NEW request \in Requests,
           PeerSubs!Upsert(p, id, request)
    PROVE  PeerSubs!Abstract!Upsert(p, id, request)
<1>1. PICK kept, left, u : UpsertParts(p, id, request, kept, left, u)
  BY UpsertHasParts
<1>2. UpsertDone(p, id, request, kept, left, u)
  BY <1>1, UpsertDoes
<1>3. MaxPeers > 0 /\ MaxSubscriptions > 0 /\ MaxPeers \in Nat /\ FilterCount[request] <= MaxFilters
  BY <1>1, StoreAssumption, Zenon DEF UpsertParts, PeerSubs!Upsert
<1>4. /\ Room(p).gone \subseteq DOMAIN peers \ {p} /\ Room(p).order = Renewed(peerOrder, p, MaxPeers)
      /\ Room(p).order \in Seq(StorePeers) /\ ToSet(Room(p).order) = (DOMAIN peers \ Room(p).gone) \cup {p}
  BY <1>3, RoomMade
<1>5. /\ StoreSound(peers, peerOrder) /\ peerOrder \in Seq(StorePeers) /\ ToSet(peerOrder) = DOMAIN peers
      /\ \A q \in DOMAIN peers : SetSound(peers[q])
  BY DEF StoreInv, StoreKept, StoreSound
<1>6. /\ DOMAIN kept = DOMAIN peers \ Room(p).gone /\ \A q \in DOMAIN kept : kept[q] = peers[q]
      /\ Upserted(PeerSubs!SetOf(kept, p), id, request, u)
      /\ Puts(kept, peers', p) /\ peers'[p] = u.set /\ peerOrder' = Room(p).order
  BY <1>1, <1>2 DEF UpsertDone, UpsertParts
<1>7. PeerSubs!SetOf(kept, p) = PeerSubs!SetOf(peers, p)
  BY <1>4, <1>6 DEF PeerSubs!SetOf
<1> DEFINE set == PeerSubs!SetOf(peers, p)
           list == Append(PeerSubs!Abstract!WithoutId(Listed(set), id), [id |-> id, request |-> request])
           entry == [peer |-> p, subscriptions |-> Listed(u.set)]
           e == EntriesOf(peers)
           f == [q \in StorePeers |-> IF q = p THEN entry ELSE e[q]]
           T == ButPeer(RecentOf(peers, peerOrder), p)
           n == Renewed(peerOrder, p, MaxPeers)
<1>8. Upserted(set, id, request, u) /\ SetSound(set)
  <2>1. Filled(peers, DOMAIN peers) /\ MaxSubscriptions \in Nat
    BY StoreAssumption DEF StoreInv, StoreKept
  <2>2. SetSound(set)
    BY <1>5, <2>1, EmptyIsSound
  <2> QED
    BY <1>6, <1>7, <2>2
<1>9. Listed(u.set) = PeerSubs!Abstract!Newest(list, MaxSubscriptions)
  <2> HIDE DEF set
  <2> QED
    BY <1>3, <1>8, ListedUpsert
<1>10. \A k \in ToSet(peerOrder) : e[k] \in T <=> k # p
  BY <1>5, PeerKeys
<1>11. f[p] = entry /\ \A k \in ToSet(peerOrder) : k # p => f[k] = e[k]
  BY <1>5 DEF ToSet
<1>12. \A q \in ToSet(n) : EntriesOf(peers')[q] = f[q]
  <2>1. ASSUME NEW q \in ToSet(n) PROVE EntriesOf(peers')[q] = f[q]
    <3>1. q \in StorePeers /\ q \in DOMAIN kept \cup {p}
      BY <1>4, <1>6 DEF ToSet
    <3>2. q \in DOMAIN peers' /\ PeerSubs!SetOf(peers', q) = peers'[q]
      BY <1>6, <3>1 DEF Puts, PeerSubs!SetOf
    <3>3. CASE q = p
      BY <1>6, <3>1, <3>2, <3>3 DEF EntriesOf
    <3>4. CASE q # p
      <4>1. peers'[q] = peers[q] /\ q \in DOMAIN peers
        BY <1>6, <3>1, <3>4 DEF Puts
      <4>2. PeerSubs!SetOf(peers', q) = PeerSubs!SetOf(peers, q)
        BY <3>2, <4>1 DEF PeerSubs!SetOf
      <4> QED
        BY <3>1, <3>4, <4>2 DEF EntriesOf
    <3> QED
      BY <3>3, <3>4
  <2> QED
    BY <2>1
<1>13. n \in Seq(StorePeers) /\ peerOrder' = n
  BY <1>4, <1>6
<1> HIDE DEF list, entry, e, f, T
<1>14. Mapped(n, f) = PeerSubs!Abstract!Newest(Append(Only(Mapped(peerOrder, e), T), f[p]), MaxPeers)
  BY <1>3, <1>5, <1>10, <1>11, MappedRenewed
<1> HIDE DEF n
<1>15. RecentOf(peers', peerOrder') = Mapped(n, f)
  <2>1. Mapped(n, EntriesOf(peers')) = Mapped(n, f)
    BY <1>12, <1>13, MappedSame
  <2> QED
    BY <1>13, <2>1 DEF RecentOf
<1>16. PeerSubs!Abstract!OtherPeers(p) = Only(Mapped(peerOrder, e), T)
  BY OthersAre DEF RecentOf, e, T
<1>17. PeerSubs!Recent' = PeerSubs!Abstract!Newest(Append(PeerSubs!Abstract!OtherPeers(p), entry), MaxPeers)
  BY <1>11, <1>14, <1>15, <1>16, RecentNext
<1>18. list = Append(PeerSubs!Abstract!WithoutId(PeerSubs!Abstract!SubscriptionsOf(p), id),
                     [id |-> id, request |-> request])
  BY SubscriptionsFound DEF list
<1>19. entry = [peer |-> p, subscriptions |-> PeerSubs!Abstract!Newest(list, MaxSubscriptions)]
  BY <1>9 DEF entry
<1>20. PeerSubs!Recent'
           = PeerSubs!Abstract!Newest(
                 Append(PeerSubs!Abstract!OtherPeers(p),
                        [peer |-> p, subscriptions |-> PeerSubs!Abstract!Newest(list, MaxSubscriptions)]),
                 MaxPeers)
  BY <1>17, <1>19
<1> QED
  BY <1>3, <1>18, <1>20, Zenon DEF PeerSubs!Abstract!Upsert

LEMMA RecentInit == PeerSubs!Init => PeerSubs!Abstract!Init
BY DEF PeerSubs!Init, PeerSubs!Recent, PeerSubs!Abstract!Init

LEMMA StoreRefines ==
    ASSUME StoreInv, PeerSubs!Next
    PROVE  StoreInv' /\ PeerSubs!Abstract!Next
<1>1. StoreInv'
  BY StoreStep
<1>2. PICK p \in StorePeers :
          \/ \E id \in SubscriptionIds, request \in Requests : PeerSubs!Upsert(p, id, request)
          \/ \E id \in SubscriptionIds : PeerSubs!RemoveSubscription(p, id)
          \/ PeerSubs!RemovePeer(p)
  BY DEF PeerSubs!Next
<1>3. ASSUME NEW id \in SubscriptionIds, NEW request \in Requests, PeerSubs!Upsert(p, id, request)
      PROVE  PeerSubs!Abstract!Upsert(p, id, request)
  BY <1>1, <1>3, UpsertRefines
<1>4. ASSUME NEW id \in SubscriptionIds, PeerSubs!RemoveSubscription(p, id)
      PROVE  PeerSubs!Abstract!RemoveSubscription(p, id)
  BY <1>1, <1>4, RemoveSubscriptionRefines
<1>5. ASSUME PeerSubs!RemovePeer(p) PROVE PeerSubs!Abstract!RemovePeer(p)
  BY <1>1, <1>5, RemovePeerRefines
<1> QED
  BY <1>1, <1>2, <1>3, <1>4, <1>5 DEF PeerSubs!Abstract!Next

RecentStep == mode = "subscriptions" => PeerSubs!Abstract!Next

LEMMA StoreInductive ==
    ASSUME StoreInv, [MCNext]_<<mode, servingVars, rosterVars, behaviorVars, seenVars, subsVars>>
    PROVE  StoreInv' /\ [RecentStep]_<<PeerSubs!Recent>>
<1>1. CASE mode = "subscriptions" /\ PeerSubs!Next
  BY <1>1, StoreRefines DEF RecentStep
<1>2. CASE UNCHANGED subsVars
  BY <1>2 DEF subsVars, StoreInv, PeerSubs!Recent
<1> QED
  BY <1>1, <1>2 DEF MCNext

\* Two levels of maps and queues behave as one nested list in order of use, for
\* every number of peers, subscriptions and requests and all limits
\* (subscriptions.rs, upsert, remove and remove_peer).
THEOREM StoreIsARecentList == MCSpec => ImplementsRecent
<1>1. MCInit => StoreInv /\ PeerSubs!Abstract!Init
  BY StoreInit, RecentInit DEF MCInit
<1>2. StoreInv /\ [MCNext]_<<mode, servingVars, rosterVars, behaviorVars, seenVars, subsVars>>
        => StoreInv' /\ [RecentStep]_<<PeerSubs!Recent>>
  BY StoreInductive
<1> QED
  BY <1>1, <1>2, PTL DEF MCSpec, ImplementsRecent, RecentStep

\* The totals of the subscription store are the sums over what it holds, and its
\* limits hold (subscriptions.rs, retained_snapshot).
THEOREM StoreAccountsForAll == MCSpec => []PeerSubs!Retained
<1>1. MCInit => StoreInv
  BY StoreInit DEF MCInit
<1>2. StoreInv /\ [MCNext]_<<mode, servingVars, rosterVars, behaviorVars, seenVars, subsVars>> => StoreInv'
  BY StoreInductive
<1>3. StoreInv => PeerSubs!Retained
  BY StoreRetains
<1> QED
  BY <1>1, <1>2, <1>3, PTL DEF MCSpec

\* The bounded tables account for what they hold, all of them at once.
THEOREM TablesStayAccounted == MCSpec => []TablesAccounted
<1>1. CalmKept /\ SeenIds!Bounded /\ PeerSubs!Retained => TablesAccounted
  BY DEF TablesAccounted
<1> QED
  BY <1>1, CalmProvidersKept, SeenIdsStayBounded, StoreAccountsForAll, PTL
=============================================================================
