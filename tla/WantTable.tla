----------------------------- MODULE WantTable -----------------------------
(***************************************************************************)
(* The table inside PendingWants (crates/nostr-pubsub-fips/src/            *)
(* pending_wants.rs): for each requested event the provider that was asked *)
(* last, the alternatives in the order they will be asked, and the queue   *)
(* that bounds the table.  Its methods are operators from table to table;  *)
(* PendingWants adds the clock, FipsClient the rest of the client.         *)
(***************************************************************************)
EXTENDS Integers, FiniteSets, SequencesExt, Filters

CONSTANTS
    Events,
    MaxEvents,        \* max_events
    MaxAlternatives,  \* max_alternatives
    MaxWantRetries    \* MAX_WANT_RETRIES

Provider(p, subs, requested) == [peer |-> p, subs |-> subs, requested |-> requested]

\* `age` is the time since requested_at_ms, as far as a model counts it.
NoEntry == [selected |-> Provider("none", {}, FALSE), alternatives |-> <<>>, claim |-> "none",
            age |-> 0, retries |-> 0]

EmptyTable == [entries |-> [e \in Events |-> NoEntry], order |-> <<>>]

Held(w) == {e \in Events : w.entries[e] # NoEntry}
Providers(entry) == {entry.selected} \cup ToSet(entry.alternatives)
Requested(entry) == {provider.peer : provider \in {q \in Providers(entry) : q.requested}}

\* The entries of `held`, as they are in `changed`, and their queue places.
Kept(w, held, changed) ==
    [entries |-> [e \in Events |-> IF e \in held THEN changed[e] ELSE NoEntry],
     order |-> Only(w.order, held)]

-----------------------------------------------------------------------------
(* insert *)

\* Mutant: the oldest event leaves the map and stays in the queue.
EvictKeepingQueue(w) ==
    IF Len(w.order) > MaxEvents THEN [w EXCEPT !.entries[Head(w.order)] = NoEntry] ELSE w

Evict(w) ==
    IF Cardinality(Held(w)) > MaxEvents
    THEN [entries |-> [w.entries EXCEPT ![Head(w.order)] = NoEntry], order |-> Tail(w.order)]
    ELSE w

\* The first inventory of an event: a WANT is to go to its provider.
InsertNew(w, e, p, subs, claim) ==
    Evict([entries |-> [w.entries EXCEPT ![e] =
                            [selected |-> Provider(p, subs, TRUE), alternatives |-> <<>>,
                             claim |-> claim, age |-> 0, retries |-> 0]],
           order |-> Append(w.order, e)])

\* A known provider announces again: its subscriptions are merged.
Merged(provider, p, subs) ==
    IF provider.peer = p THEN [provider EXCEPT !.subs = @ \cup subs] ELSE provider
Merge(entry, p, subs) ==
    [entry EXCEPT !.selected = Merged(@, p, subs),
                  !.alternatives = [i \in DOMAIN @ |-> Merged(@[i], p, subs)]]

\* A further inventory of a pending event; one with another claim is ignored,
\* and so is a new provider when there are max_alternatives.
Join(entry, p, subs, claim) ==
    IF entry.claim # claim THEN entry
    ELSE IF \E provider \in Providers(entry) : provider.peer = p THEN Merge(entry, p, subs)
    ELSE IF Len(entry.alternatives) < MaxAlternatives
    THEN [entry EXCEPT !.alternatives = Append(@, Provider(p, subs, FALSE))]
    ELSE entry

Insert(w, e, p, subs, claim) ==
    IF e \in Held(w) THEN [w EXCEPT !.entries[e] = Join(@, p, subs, claim)]
    ELSE InsertNew(w, e, p, subs, claim)

-----------------------------------------------------------------------------
\* take_matching: does a body from p under subscription sub answer a request?
Answers(w, e, p, sub, claim) ==
    /\ e \in Held(w) /\ w.entries[e].claim = claim
    /\ \E provider \in Providers(w.entries[e]) :
            provider.peer = p /\ provider.requested /\ sub \in provider.subs

Taken(w, e) == Kept(w, Held(w) \ {e}, w.entries)

\* The selected provider is replaced by the oldest alternative.
Promote(entry) ==
    [entry EXCEPT !.selected = Head(entry.alternatives), !.alternatives = Tail(@)]

Leaving(provider, sub) == [provider EXCEPT !.subs = @ \ {sub}]
Subscribed(providers) == Only(providers, {provider \in ToSet(providers) : provider.subs # {}})
Unsubscribed(entry, sub) ==
    LET left == [entry EXCEPT
                    !.selected = Leaving(@, sub),
                    !.alternatives = Subscribed([i \in DOMAIN @ |-> Leaving(@[i], sub)])]
    IN  IF left.selected.subs = {} /\ left.alternatives # <<>> THEN Promote(left) ELSE left

\* remove_subscription
WithoutSubscription(w, sub) ==
    LET left == [e \in Held(w) |-> Unsubscribed(w.entries[e], sub)] IN
    Kept(w, {e \in Held(w) : left[e].selected.subs # {}}, left)

Others(providers, p) == Only(providers, {provider \in ToSet(providers) : provider.peer # p})
LeftBy(entry, p) ==
    LET left == [entry EXCEPT !.alternatives = Others(@, p)] IN
    IF left.selected.peer = p /\ left.alternatives # <<>>
    THEN [Promote(left) EXCEPT !.age = 0, !.retries = 0]
    ELSE left

\* Mutant: a peer's requests outlive its epoch.
WithoutPeerKeeping(w, p) == w

\* remove_peer
WithoutPeer(w, p) ==
    LET left == [e \in Held(w) |-> LeftBy(w.entries[e], p)] IN
    Kept(w, {e \in Held(w) : left[e].selected.peer # p}, left)

-----------------------------------------------------------------------------
(* retry_due, for the events whose delay has passed *)

\* Mutant: the provider rotated away loses its request.
RotateForgetting(entry) ==
    IF entry.alternatives = <<>> THEN entry
    ELSE [Promote(entry) EXCEPT
            !.alternatives = Append(@, [entry.selected EXCEPT !.requested = FALSE])]

Rotate(entry) ==
    IF entry.alternatives = <<>> THEN entry
    ELSE [Promote(entry) EXCEPT !.alternatives = Append(@, entry.selected)]

\* Mutant: the request is not stamped again.
RetryWithoutStamp(entry) ==
    [Rotate(entry) EXCEPT !.selected.requested = TRUE, !.retries = @ + 1]

\* Mutant: the retries are not counted.
RetryUncounted(entry) ==
    [Rotate(entry) EXCEPT !.selected.requested = TRUE, !.age = 0]

Retry(entry) ==
    [Rotate(entry) EXCEPT !.selected.requested = TRUE, !.age = 0, !.retries = @ + 1]

GivenUp(w, due) == {e \in due : w.entries[e].retries >= MaxWantRetries}

\* Every due event is asked for again or given up.
Retried(w, due) ==
    Kept(w, Held(w) \ GivenUp(w, due),
         [e \in Held(w) |-> IF e \in due \ GivenUp(w, due) THEN Retry(w.entries[e]) ELSE w.entries[e]])

\* Those given up blame every provider with a request.
Blamed(w, due) == UNION {{e} \X Requested(w.entries[e]) : e \in GivenUp(w, due)}
=============================================================================
