--------------------------- MODULE HistoryCursor ---------------------------
(***************************************************************************)
(* HistoryCursor (crates/nostr-pubsub/src/pagination.rs): pages backwards  *)
(* through one source's history with NIP-01 filters whose `until` is       *)
(* inclusive, together with the callbacks it depends on.                   *)
(*                                                                         *)
(* The source is external.  It answers a page with the newest events in    *)
(* the filter's range, at least `limit` of them if there are that many     *)
(* (a source may also ignore the limit), ties in any choice and deliveries *)
(* in any order.  A page ends Complete after its whole answer arrived, or  *)
(* Partial at any moment; whatever is still in flight then arrives late,   *)
(* under an old token.                                                     *)
(***************************************************************************)
EXTENDS Integers, FiniteSets

CONSTANTS
    Events,        \* event ids
    Stamps,        \* created_at values, in seconds
    FirstUntil,    \* until of the first page: filter.until or now
    Since,         \* filter.since (0 stands for none as well)
    InitialLimit,  \* filter.limit
    MaxLimit,      \* max_limit
    MaxGeneration, \* the largest page generation (u64::MAX in the code)
    MaxPartials    \* bound on pages cut short

\* What the constructor accepts.
ASSUME CursorAssumption ==
    /\ IsFiniteSet(Events)
    /\ Stamps \subseteq Nat
    /\ FirstUntil \in Nat /\ Since \in 0..FirstUntil
    /\ MaxLimit \in 1..65536 /\ InitialLimit \in 1..MaxLimit
    /\ MaxGeneration \in Nat /\ MaxPartials \in Nat

VARIABLES
    stamp,     \* external: created_at of every event
    stored,    \* external: the events this source holds
    answer,    \* external: the source's answer to the active page
    sent,      \* external: the part of it handed to observe()
    cursor,    \* filter.until, filter.limit, generation, stopped
    page,      \* the active page, or NoPage
    status,    \* what the last finish_page returned
    observed,  \* history: the events observe() returned true for
    partials   \* pages cut short so far

source == <<stamp, stored>>
vars == <<stamp, stored, answer, sent, cursor, page, status, observed, partials>>

None == -1
NoPage == [token |-> None, seen |-> {}, oldest |-> None, overflow |-> FALSE]
Active == page.token # None

\* Events of this source that the current filter matches.
InRange == {e \in stored : stamp[e] \in Since..cursor.until}

\* What the source may answer to the current filter.
Answers ==
    {a \in SUBSET InRange :
        /\ \A e \in a, f \in InRange \ a : stamp[f] <= stamp[e]
        /\ a = InRange \/ Cardinality(a) >= cursor.limit}

Init ==
    /\ stamp \in [Events -> Stamps]
    /\ stored \in SUBSET Events
    /\ answer = {}
    /\ sent = {}
    /\ cursor = [until |-> FirstUntil, limit |-> InitialLimit, generation |-> 0, stopped |-> FALSE]
    /\ page = NoPage
    /\ status = "None"
    /\ observed = {}
    /\ partials = 0

BeginPage ==
    /\ ~cursor.stopped
    /\ ~Active
    /\ cursor.generation < MaxGeneration
    /\ cursor' = [cursor EXCEPT !.generation = @ + 1]
    /\ page' = [NoPage EXCEPT !.token = cursor.generation + 1]
    /\ answer' \in Answers
    /\ sent' = {}
    /\ UNCHANGED <<source, status, observed, partials>>

\* Mutant: late callbacks are not told apart.
CountsWhateverToken(token, e, own) ==
    Active /\ own /\ stamp[e] \in Since..cursor.until /\ e \notin page.seen

\* The conditions under which observe() looks at a delivery at all.
Counts(token, e, own) ==
    Active /\ token = page.token /\ own /\ stamp[e] \in Since..cursor.until /\ e \notin page.seen

\* observe(token, event); `own` says whether the event carries this source's id.
Observe(token, e, own) ==
    \/ /\ Counts(token, e, own)
       /\ Cardinality(page.seen) = MaxLimit
       /\ page' = [page EXCEPT !.overflow = TRUE]
       /\ UNCHANGED observed
    \/ /\ Counts(token, e, own)
       /\ Cardinality(page.seen) # MaxLimit
       /\ page' = [page EXCEPT !.seen = @ \cup {e},
                               !.oldest = IF @ = None \/ stamp[e] < @ THEN stamp[e] ELSE @]
       /\ observed' = observed \cup {e}
    \/ /\ ~Counts(token, e, own)
       /\ UNCHANGED <<page, observed>>

\* The source delivers an event of the active page's answer, perhaps again.
Deliver(e) ==
    /\ Active
    /\ e \in answer
    /\ Observe(page.token, e, TRUE)
    /\ sent' = sent \cup {e}
    /\ UNCHANGED <<source, answer, cursor, status, partials>>

\* A delivery under the token of an older page or of another cursor.
DeliverLate(token, e) ==
    /\ token # page.token
    /\ e \in stored
    /\ Observe(token, e, TRUE)
    /\ UNCHANGED <<source, answer, sent, cursor, status, partials>>

\* The same token, but the event came from another source.
DeliverForeign(e) ==
    /\ Active
    /\ Observe(page.token, e, FALSE)
    /\ UNCHANGED <<source, answer, sent, cursor, status, partials>>

-----------------------------------------------------------------------------
(* finish_page: one action per outcome *)

\* The page is taken out of the cursor and its outcome returned.
Finish(until, limit, stopped, outcome) ==
    /\ Active
    /\ page' = NoPage
    /\ cursor' = [cursor EXCEPT !.until = until, !.limit = limit, !.stopped = stopped]
    /\ status' = outcome
    /\ answer' = {}
    /\ sent' = {}
    /\ UNCHANGED <<source, observed>>

Stop(outcome) == Finish(cursor.until, cursor.limit, TRUE, outcome)
StepBack(until) == Finish(until, InitialLimit, FALSE, "Advanced")

\* The source finished the page, and the page did not overflow.
Completed == sent = answer /\ ~page.overflow
Saturated == Cardinality(page.seen) >= cursor.limit
AtBoundary == page.oldest # None /\ page.oldest >= cursor.until
LastSecond == cursor.until = 0 \/ Since >= cursor.until

FinishOverflow ==
    /\ page.overflow
    /\ Stop("Limited")
    /\ UNCHANGED partials

FinishPartial ==
    /\ ~page.overflow
    /\ partials < MaxPartials
    /\ partials' = partials + 1
    /\ Finish(cursor.until, cursor.limit, FALSE, "Retry")

FinishOlder ==
    /\ Completed
    /\ page.oldest # None /\ page.oldest < cursor.until
    /\ StepBack(page.oldest)
    /\ UNCHANGED partials

\* Mutant: the page limit stays what it was.
GrowNot ==
    /\ Completed /\ AtBoundary /\ Saturated /\ cursor.limit # MaxLimit
    /\ Finish(cursor.until, cursor.limit, FALSE, "Advanced")
    /\ UNCHANGED partials

FinishGrow ==
    /\ Completed /\ AtBoundary /\ Saturated /\ cursor.limit # MaxLimit
    /\ Finish(cursor.until, IF 2 * cursor.limit < MaxLimit THEN 2 * cursor.limit ELSE MaxLimit,
              FALSE, "Advanced")
    /\ UNCHANGED partials

\* Mutant: gives up as soon as doubling would pass the cap.
DenseTooEarly ==
    /\ Completed /\ AtBoundary /\ Saturated /\ 2 * cursor.limit >= MaxLimit
    /\ Stop("Limited")
    /\ UNCHANGED partials

FinishDense ==
    /\ Completed /\ AtBoundary /\ Saturated /\ cursor.limit = MaxLimit
    /\ Stop("Limited")
    /\ UNCHANGED partials

FinishLastSecond ==
    /\ Completed /\ AtBoundary /\ ~Saturated /\ LastSecond
    /\ Stop("Exhausted")
    /\ UNCHANGED partials

FinishSecond ==
    /\ Completed /\ AtBoundary /\ ~Saturated /\ ~LastSecond
    /\ StepBack(cursor.until - 1)
    /\ UNCHANGED partials

\* Mutant: a page cut short before its first delivery counts as empty.
EmptyWhenCutShort ==
    /\ page.oldest = None
    /\ Stop("Exhausted")
    /\ UNCHANGED partials

FinishEmpty ==
    /\ Completed /\ page.oldest = None
    /\ Stop("Exhausted")
    /\ UNCHANGED partials

FinishComplete ==
    \/ FinishOlder \/ FinishGrow \/ FinishDense
    \/ FinishLastSecond \/ FinishSecond \/ FinishEmpty

\* finish_page with a token that is not the active page's.
FinishStale(token) ==
    /\ token # page.token
    /\ status' = "Stale"
    /\ UNCHANGED <<source, answer, sent, cursor, page, observed, partials>>

Cancel ==
    /\ cursor' = [cursor EXCEPT !.stopped = TRUE]
    /\ page' = NoPage
    /\ answer' = {}
    /\ sent' = {}
    /\ UNCHANGED <<source, status, observed, partials>>

\* Tokens a callback may hold; 0 stands for another cursor's.
Tokens == 0..cursor.generation

Next ==
    \/ BeginPage
    \/ \E e \in Events : Deliver(e) \/ DeliverForeign(e)
    \/ \E token \in Tokens, e \in Events : DeliverLate(token, e)
    \/ FinishOverflow \/ FinishPartial \/ FinishComplete
    \/ \E token \in Tokens : FinishStale(token)
    \/ Cancel

Spec == Init /\ [][Next]_vars

\* The caller keeps asking for pages and the source keeps answering them.
Fairness ==
    /\ WF_vars(BeginPage)
    /\ \A e \in Events : WF_vars(Deliver(e) /\ e \notin sent)
    /\ WF_vars(FinishComplete \/ FinishOverflow)

FairSpec == Spec /\ Fairness

-----------------------------------------------------------------------------
(* Properties *)

TypeOK ==
    /\ stamp \in [Events -> Stamps]
    /\ stored \subseteq Events
    /\ answer \subseteq stored
    /\ sent \subseteq answer
    /\ cursor \in [until : Nat, limit : 1..MaxLimit, generation : Nat, stopped : BOOLEAN]
    /\ page \in [token : Nat \cup {None}, seen : SUBSET Events, oldest : Stamps \cup {None}, overflow : BOOLEAN]
    /\ status \in {"None", "Advanced", "Retry", "Exhausted", "Limited", "Stale"}
    /\ observed \subseteq Events
    /\ partials \in 0..MaxPartials

\* The events the query asks for.
Wanted == {e \in stored : stamp[e] \in Since..FirstUntil}

\* Whatever the order of deliveries, late callbacks and pages cut short:
\* `until` moves below a second only after every event of that second was
\* observed (finish_page; "rather than skipping unseen tied events").
NothingSkipped == \A e \in Wanted : stamp[e] > cursor.until => e \in observed

\* finish_page answers Exhausted only when the source has nothing left.
ExhaustedIsComplete == status = "Exhausted" => Wanted \subseteq observed

\* finish_page gives up with Limited only over a page that really holds
\* max_limit events, never because of how the page limit grew.
LimitedOnlyAtCap == status = "Limited" => Cardinality(InRange) >= MaxLimit

\* A caller that keeps paging a source that keeps answering reaches the end:
\* no second, however dense, makes begin_page hand out pages for ever.
PagingEnds == <>cursor.stopped
=============================================================================
