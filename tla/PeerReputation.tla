--------------------------- MODULE PeerReputation ---------------------------
(***************************************************************************)
(* PeerReputation and PeerRatingPublisher                                  *)
(* (crates/nostr-pubsub-social-graph/src/reputation.rs) as the FIPS policy *)
(* drives them (crates/nostr-pubsub-fips/src/reputation.rs,                *)
(* client_reputation.rs).  The clock only moves forward.  The FIPS         *)
(* endpoint signs the local ratings it is asked for with the present time. *)
(***************************************************************************)
EXTENDS Integers, Sequences, FiniteSetsExt

(***************************************************************************)
(* The decisions of the social-graph policy                                *)
(* (crates/nostr-pubsub-social-graph/src/lib.rs) over a graph of ratings,  *)
(* with the default configuration.  A rating is                            *)
(* [rater, subject, created, id, score]; a decision is [kind, priority].   *)
(* The graph itself belongs to nostr-social-graph; what a rating does to   *)
(* it is taken from how the policy uses it.                                *)
(***************************************************************************)
CONSTANTS Root, Trusted   \* the local key and the configured raters

Unknown == 1000           \* unknown_follow_distance
TrustedDistance == 2
TrustedPriority == 100
PriorityStep == 10
OutsidePriority == -100

Allow(priority) == [kind |-> "allow", priority |-> priority]
Throttle(priority) == [kind |-> "throttle", priority |-> priority]
Drop == [kind |-> "drop", priority |-> 0]
NoDecision == [kind |-> "none", priority |-> 0]

\* External: what ratings say about a key.
Likes(graph, s) == {r \in graph : r.subject = s /\ r.score > 0}
Dislikes(graph, s) == {r \in graph : r.subject = s /\ r.score < 0}
MutedByRoot(graph, s) == \E r \in Dislikes(graph, s) : r.rater = Root
Overmuted(graph, s) == Cardinality(Dislikes(graph, s)) > Cardinality(Likes(graph, s))
FollowDistance(graph, s) ==
    CASE s = Root -> 0
      [] s \in Trusted \/ \E r \in Likes(graph, s) : r.rater = Root -> 1
      [] \E r \in Likes(graph, s) : r.rater \in Trusted -> 2
      [] OTHER -> Unknown

\* priority_for_distance
PriorityForDistance(d) ==
    IF d <= TrustedDistance THEN TrustedPriority - d * PriorityStep ELSE 0 - d

\* decision_and_graph_membership_for_author
DecisionForAuthor(graph, s) ==
    IF MutedByRoot(graph, s) \/ Overmuted(graph, s) THEN Drop
    ELSE IF FollowDistance(graph, s) >= Unknown THEN Throttle(OutsidePriority)
    ELSE Allow(PriorityForDistance(FollowDistance(graph, s)))
InsideGraph(graph, s) ==
    MutedByRoot(graph, s) \/ Overmuted(graph, s) \/ FollowDistance(graph, s) < Unknown

\* Mutant: a good record outweighs everything.
CombineByPriority(g, r) ==
    LET priority == g.priority + r.priority IN
    IF r.kind = "drop" THEN Drop
    ELSE IF r.kind = "throttle" THEN Throttle(priority)
    ELSE IF priority > 0 THEN Allow(priority)
    ELSE [kind |-> g.kind, priority |-> priority]

\* combine_source_decisions: a drop from either side stands.
Combine(g, r) ==
    LET priority == g.priority + r.priority IN
    IF "drop" \in {g.kind, r.kind} THEN Drop
    ELSE IF r.kind = "throttle" THEN Throttle(priority)
    ELSE IF priority > 0 THEN Allow(priority)
    ELSE [kind |-> g.kind, priority |-> priority]

\* decision_for_source, decision_for_source_capabilities: the first named
\* capability with a record, else the record for the source as a whole.
AnyCapability == "any"
ServiceDecision(records, s, capabilities) ==
    LET named == SelectSeq(capabilities, LAMBDA c : records[<<s, c>>] # NoDecision) IN
    IF named # <<>> THEN records[<<s, Head(named)>>] ELSE records[<<s, AnyCapability>>]

\* check_event; check_source and apply_service_reputation.
CheckEvent(graph, author) == DecisionForAuthor(graph, author)
CheckSource(graph, records, s, capabilities) ==
    LET own == ServiceDecision(records, s, capabilities)
        decision == DecisionForAuthor(graph, s)
    IN  IF own = NoDecision THEN decision ELSE Combine(decision, own)

\* select_mesh_peer: dropped, ranked by what is known, or merely new.
SelectMeshPeer(graph, records, s) ==
    LET decision == CheckSource(graph, records, s, <<>>) IN
    IF decision.kind = "drop" THEN "refused"
    ELSE IF InsideGraph(graph, s) \/ records[<<s, AnyCapability>>] # NoDecision THEN "ranked"
    ELSE "new"

-----------------------------------------------------------------------------
CONSTANTS
    Strangers,                      \* raters that are not configured
    Subjects,                       \* numbers, in the order of their keys
    MaxAge, FutureSkew,             \* PEER_RATING_MAX_AGE, _MAX_FUTURE_SKEW
    MaxEntries, MaxPerRater,        \* PEER_RATING_MAX_ENTRIES, _PER_RATER
    MinInterval, RefreshInterval,   \* of PeerRatingPublisherConfig
    ScoreDelta, BatchSize,
    EvaluationInterval,
    LastTime, MaxRatings            \* bounds: the clock, ratings that exist

VARIABLES
    now,
    latest,      \* the ratings kept, at most one for each rater and subject
    nextPrune,   \* next_prune_at_secs, Never for none
    graph,       \* the ratings that the policies' graph was built from
    services,    \* an InMemoryServiceReputation beside the graph
    published,   \* subject -> [score, at]
    nextEval,    \* next_evaluation_ms, Never for none
    batch,       \* the ratings being published, and the time they were chosen
    offered,     \* history: valid ratings that were offered
    emitted      \* history: [subject, score, at] published, in order

reputationVars == <<now, latest, nextPrune, graph, services, published, nextEval, batch,
                    offered, emitted>>

NeverAgain == LastTime + MaxAge + 2
Unpublished == [score |-> 0, at |-> -1]
NoBatch == [ratings |-> <<>>, at |-> 0]
Authorized(rater) == rater = Root \/ rater \in Trusted
Lower(a, b) == a.created < b.created \/ (a.created = b.created /\ a.id < b.id)
Smaller(a, b) == IF a < b THEN a ELSE b
Ahead(a, b) == IF a > b THEN a - b ELSE 0

\* rating_time_is_valid
TimeIsValid(created, t) == created <= t + FutureSkew /\ Ahead(t, created) <= MaxAge

\* The n greatest of a set of ratings.
Greatest(S, n, Below(_, _)) == {r \in S : Cardinality({q \in S : Below(r, q)}) < n}

ReputationInit ==
    /\ now = 0
    /\ latest = {} /\ nextPrune = NeverAgain /\ graph = {}
    /\ services = [k \in Subjects \X {AnyCapability, "cap"} |-> NoDecision]
    /\ published = [s \in Subjects |-> Unpublished]
    /\ nextEval = NeverAgain
    /\ batch = NoBatch
    /\ offered = {} /\ emitted = <<>>

-----------------------------------------------------------------------------
(* PeerReputation, as a record [latest, nextPrune, graph].                 *)

Expiry(r) == r.created + MaxAge + 1
Soonest(S) == IF S = {} THEN NeverAgain ELSE Min({Expiry(r) : r \in S})

\* rebuild
Projected(S) == {r \in S : Authorized(r.rater)}
Rebuild(p) == [p EXCEPT !.graph = Projected(p.latest)]

\* prune_memory
PruneMemory(p, t) ==
    IF t < p.nextPrune THEN p
    ELSE LET kept == {r \in p.latest : TimeIsValid(r.created, t)}
         IN  [p EXCEPT !.latest = kept, !.nextPrune = Soonest(kept)]

\* Mutant: all raters' ratings compete by age.
EnforceByAge(S) ==
    LET perRater == UNION {Greatest({r \in S : r.rater = x}, MaxPerRater, Lower)
                           : x \in {r.rater : r \in S}}
    IN  Greatest(perRater, MaxEntries, Lower)

\* enforce_entry_limits: the newest of each rater, then the newest of all,
\* those of unconfigured raters leaving first.
Enforce(S) ==
    LET perRater == UNION {Greatest({r \in S : r.rater = x}, MaxPerRater, Lower)
                           : x \in {r.rater : r \in S}}
        Below(a, b) == \/ ~ Authorized(a.rater) /\ Authorized(b.rater)
                       \/ (Authorized(a.rater) <=> Authorized(b.rater)) /\ Lower(a, b)
    IN  Greatest(perRater, MaxEntries, Below)

SameKey(a, b) == a.rater = b.rater /\ a.subject = b.subject

\* consider_event, with the rebuild its caller does when it must.
Consider(p, r, t) ==
    IF ~ TimeIsValid(r.created, t) \/ \E q \in p.latest : SameKey(q, r) /\ ~ Lower(q, r) THEN p
    ELSE LET taken == {q \in p.latest : ~ SameKey(q, r)} \cup {r}
             over == \/ Cardinality(taken) > MaxEntries
                     \/ Cardinality({q \in taken : q.rater = r.rater}) > MaxPerRater
             kept == IF over THEN Enforce(taken) ELSE taken
             next == [p EXCEPT !.latest = kept, !.nextPrune = Smaller(@, Expiry(r))]
         IN  IF (r \in kept /\ Authorized(r.rater)) \/ over THEN Rebuild(next) ELSE next

Memory == [latest |-> latest, nextPrune |-> nextPrune, graph |-> graph]
Pruned(p, t) == LET q == PruneMemory(p, t) IN IF q.latest # p.latest THEN Rebuild(q) ELSE q
Ingested(p, r, t) == Consider(Pruned(p, t), r, t)
NewMemory(p) == latest' = p.latest /\ nextPrune' = p.nextPrune /\ graph' = p.graph

\* The history of what was offered in time.
Offer(r, t) == offered' = IF TimeIsValid(r.created, t) THEN offered \cup {r} ELSE offered
Unused == (0 .. MaxRatings - 1) \ {r.id : r \in offered}

-----------------------------------------------------------------------------
(* PeerRatingPublisher.                                                    *)

Sign(x) == IF x < 0 THEN -1 ELSE IF x > 0 THEN 1 ELSE 0
Distance(a, b) == IF a < b THEN b - a ELSE a - b

\* Mutant: a change is enough.
ShouldPublishChange(last, score, t) == last = Unpublished \/ score # last.score

\* should_publish_event, for a rating with enough samples.
ShouldPublish(last, score, t) ==
    LET elapsed == Ahead(t, last.at)
    IN  \/ last = Unpublished
        \/ score < 0 /\ last.score >= 0
        \/ elapsed >= RefreshInterval
        \/ elapsed >= MinInterval /\ (\/ Sign(score) # Sign(last.score)
                                      \/ Distance(score, last.score) >= ScoreDelta)

\* prune: too old, too far ahead, too many.
PrunedCadence(pub, t) ==
    LET current(s) == pub[s] # Unpublished /\ TimeIsValid(pub[s].at, t)
        kept == {s \in Subjects : current(s)}
        older(a, b) == pub[a].at < pub[b].at \/ (pub[a].at = pub[b].at /\ a < b)
    IN  [s \in Subjects |->
            IF s \in kept /\ Cardinality({q \in kept : older(s, q)}) < MaxPerRater
            THEN pub[s] ELSE Unpublished]

-----------------------------------------------------------------------------

Advance ==
    /\ now < LastTime
    /\ now' = now + 1
    /\ UNCHANGED <<latest, nextPrune, graph, services, published, nextEval, batch, offered, emitted>>

\* observe_event: a rating of any rater, as old or as new as it likes; one
\* that was seen before may come again.
Observe(r) ==
    /\ batch = NoBatch
    /\ r \in offered \/ r.id \in Unused
    /\ NewMemory(Ingested(Memory, r, now))
    /\ Offer(r, now)
    /\ UNCHANGED <<now, services, published, nextEval, batch, emitted>>

\* set_source_decision
SetService(s, capability, decision) ==
    /\ services' = [services EXCEPT ![<<s, capability>>] = decision]
    /\ UNCHANGED <<now, latest, nextPrune, graph, published, nextEval, batch, offered, emitted>>

\* maintenance_events: prune, and choose what is due once an interval.
Maintain(scores) ==
    /\ batch = NoBatch
    /\ NewMemory(Pruned(Memory, now))
    /\ \E pub \in {PrunedCadence(published, now)} :
           /\ published' = pub
           /\ IF nextEval = NeverAgain \/ now < nextEval
              THEN UNCHANGED batch
              ELSE LET due == SelectSeq(scores, LAMBDA c : ShouldPublish(pub[c.subject], c.score, now))
                   IN  batch' = IF due = <<>> THEN NoBatch
                                ELSE [at |-> now, ratings |-> SubSeq(due, 1, Smaller(BatchSize, Len(due)))]
    /\ nextEval' = IF nextEval = NeverAgain \/ now >= nextEval
                   THEN now + EvaluationInterval ELSE nextEval
    /\ UNCHANGED <<now, services, offered, emitted>>

\* publish_ratings: one rating of the batch.  It is observed locally whether
\* or not it was published.
PublishRating(accepted) ==
    /\ batch.ratings # <<>> /\ Unused # {}
    /\ LET c == Head(batch.ratings)
           r == [rater |-> Root, subject |-> c.subject, created |-> batch.at, id |-> Min(Unused),
                 score |-> c.score]
       IN  /\ NewMemory(Ingested(Memory, r, batch.at))
           /\ Offer(r, batch.at)
           /\ IF accepted
              THEN /\ published' = [published EXCEPT ![c.subject] = [score |-> c.score, at |-> batch.at]]
                   /\ emitted' = Append(emitted, [subject |-> c.subject, score |-> c.score, at |-> batch.at])
              ELSE UNCHANGED <<published, emitted>>
    /\ batch' = IF Len(batch.ratings) = 1 THEN NoBatch ELSE [batch EXCEPT !.ratings = Tail(@)]
    /\ UNCHANGED <<now, services, nextEval>>

\* A restart from the ratings the application stored: replay_at and
\* from_events_at.
Newest(s) ==
    LET own == {r \in offered : r.rater = Root /\ r.subject = s} IN
    IF own = {} THEN Unpublished
    ELSE LET r == CHOOSE r \in own : \A q \in own : ~ Lower(r, q)
         IN  [score |-> r.score, at |-> r.created]
Restart ==
    /\ \E kept \in {FoldSet(LAMBDA r, p : Consider(p, r, now),
                            [latest |-> {}, nextPrune |-> NeverAgain, graph |-> {}], offered)} :
           NewMemory(kept)
    /\ published' = PrunedCadence([s \in Subjects |-> Newest(s)], now)
    /\ nextEval' = NeverAgain
    /\ batch' = NoBatch
    /\ services' = [k \in DOMAIN services |-> NoDecision]
    /\ UNCHANGED <<now, offered, emitted>>

-----------------------------------------------------------------------------
\* Of the authorized ratings offered in time, the newest for each rater and
\* subject, cut to the limits.
Standing(S) ==
    LET current == {r \in S : Authorized(r.rater) /\ TimeIsValid(r.created, now)}
        newest == {r \in current : ~ \E q \in current : SameKey(q, r) /\ Lower(r, q)}
        leading == {r \in newest :
                       Cardinality({q \in newest : q.rater = r.rater /\ Lower(r, q)}) < MaxPerRater}
    IN  {r \in leading : Cardinality({q \in leading : Lower(r, q)}) < MaxEntries}

\* The policies decide from what stands of the ratings offered: no order of
\* arrival, restart, expiry or flood of other raters' ratings makes a
\* difference (reputation.rs: "a local, replayable trust projection").
Replayable == now < nextPrune => graph = Standing(offered)

\* A key that the local root rates down is refused as a peer and its events
\* are dropped, on every capability and whatever service record it has,
\* until the rating is replaced or expires.
Shunned ==
    \A r \in graph : r.rater = Root /\ r.score < 0 /\ now < nextPrune =>
        /\ SelectMeshPeer(graph, services, r.subject) = "refused"
        /\ CheckEvent(graph, r.subject).kind = "drop"
        /\ CheckSource(graph, services, r.subject, <<"cap">>).kind = "drop"

\* Two publications about one subject are MinInterval apart unless the later
\* one turns negative, also across restarts and forgotten publications.
Paced ==
    \A i, j \in DOMAIN emitted :
        i < j /\ emitted[i].subject = emitted[j].subject
              /\ (\A k \in i + 1 .. j - 1 : emitted[k].subject # emitted[i].subject)
        => \/ emitted[j].at - emitted[i].at >= MinInterval
           \/ emitted[j].score < 0 /\ emitted[i].score >= 0
=============================================================================
