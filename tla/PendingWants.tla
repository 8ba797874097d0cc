---------------------------- MODULE PendingWants ----------------------------
(***************************************************************************)
(* PendingWants (crates/nostr-pubsub-fips/src/pending_wants.rs): the       *)
(* events the FIPS client has asked for, the providers that announced each *)
(* of them, and the retries with doubling delay that rotate through those  *)
(* providers before the client gives up and blames the ones it asked.      *)
(*                                                                         *)
(* The code compares now_ms with requested_at_ms; the model keeps the      *)
(* difference, the age of the latest request, up to the longest delay.     *)
(***************************************************************************)
EXTENDS WantTable

CONSTANTS
    Peers, Subscriptions,
    Claims,           \* the kind and payload size an inventory claims
    RetryAfter,       \* retry_after_ms
    MaxResets         \* bound on peer epochs that end

ASSUME WantsAssumption ==
    /\ MaxEvents \in Nat \ {0} /\ MaxAlternatives \in Nat
    /\ MaxWantRetries \in Nat /\ RetryAfter \in Nat \ {0} /\ MaxResets \in Nat

VARIABLES
    wants,    \* the table
    asked,    \* history: how long ago each provider was first sent a WANT, or Never
    batch,    \* what the last retry_due returned
    resets    \* peer epochs that have ended

vars == <<wants, asked, batch, resets>>

Never == -1
NoBatch == [retries |-> {}, blamed |-> {}]

\* The delay before retry number n+1.
Delay(n) == RetryAfter * 2 ^ n
MaxAge == Delay(MaxWantRetries)
Due == {e \in Held(wants) : wants.entries[e].age >= Delay(wants.entries[e].retries)}

Unasked == [e \in Events |-> [p \in Peers |-> Never]]

Init == wants = EmptyTable /\ asked = Unasked /\ batch = NoBatch /\ resets = 0

\* The table changes; the history of what is no longer pending goes.
Becomes(table, history) ==
    /\ wants' = table
    /\ asked' = [e \in Events |-> IF e \in Held(table) THEN history[e] ELSE Unasked[e]]

NowAsked(e, p) == [asked EXCEPT ![e][p] = IF @ = Never THEN 0 ELSE @]

Older(age) == IF age = MaxAge THEN age ELSE age + 1
Aged(entry) == [entry EXCEPT !.age = Older(@)]

Tick ==
    /\ wants' = [wants EXCEPT !.entries =
            [e \in Events |-> IF e \in Held(wants) THEN Aged(wants.entries[e]) ELSE NoEntry]]
    /\ asked' = [e \in Events |-> [p \in Peers |->
            IF asked[e][p] = Never THEN Never ELSE Older(asked[e][p])]]
    /\ batch' = NoBatch
    /\ UNCHANGED resets

\* insert, called by accept_inventory for an inventory that names open
\* subscriptions; the first provider is sent a WANT.
Announce(e, p, subs, claim) ==
    /\ Becomes(Insert(wants, e, p, subs, claim), IF e \in Held(wants) THEN asked ELSE NowAsked(e, p))
    /\ batch' = NoBatch
    /\ UNCHANGED resets

\* take_matching: a requested provider's answer under one of its subscriptions.
TakeMatching(e, p, sub, claim) ==
    /\ Answers(wants, e, p, sub, claim)
    /\ Becomes(Taken(wants, e), asked)
    /\ batch' = NoBatch
    /\ UNCHANGED resets

RemoveSubscription(sub) ==
    /\ Becomes(WithoutSubscription(wants, sub), asked)
    /\ batch' = NoBatch
    /\ UNCHANGED resets

\* remove_peer, when the peer's link epoch ends.
RemovePeer(p) ==
    /\ resets < MaxResets
    /\ resets' = resets + 1
    /\ Becomes(WithoutPeer(wants, p), [e \in Events |-> [asked[e] EXCEPT ![p] = Never]])
    /\ batch' = NoBatch

\* retry_due
RetryDue ==
    LET table == Retried(wants, Due)
        again == Due \ GivenUp(wants, Due)
    IN
    /\ Due # {}
    /\ Becomes(table, [e \in Events |-> [p \in Peers |->
            IF e \in again /\ p = table.entries[e].selected.peer /\ asked[e][p] = Never THEN 0
            ELSE asked[e][p]]])
    /\ batch' = [retries |-> {<<e, table.entries[e].selected.peer>> : e \in again},
                 blamed |-> {<<b[1], b[2], asked[b[1]][b[2]]>> : b \in Blamed(wants, Due)}]
    /\ UNCHANGED resets

\* clear, when the client shuts down.
Clear ==
    /\ Held(wants) # {}
    /\ Becomes(EmptyTable, asked)
    /\ batch' = NoBatch
    /\ UNCHANGED resets

Next ==
    \/ Tick \/ RetryDue \/ Clear
    \/ \E e \in Events, p \in Peers, subs \in (SUBSET Subscriptions) \ {{}}, claim \in Claims :
            Announce(e, p, subs, claim)
    \/ \E e \in Events, p \in Peers, sub \in Subscriptions, claim \in Claims :
            TakeMatching(e, p, sub, claim)
    \/ \E sub \in Subscriptions : RemoveSubscription(sub)
    \/ \E p \in Peers : RemovePeer(p)

\* Time passes, and the transport loop calls retry_due on every turn.
Fairness == WF_vars(Tick) /\ WF_vars(RetryDue)

Spec == Init /\ [][Next]_vars /\ Fairness

-----------------------------------------------------------------------------
(* Properties *)

\* The queue lists the pending events once each and within max_events; an entry
\* names a provider once, has at most max_alternatives of them, and none of
\* them without a subscription, whatever peers leave and subscriptions close.
Coherent ==
    /\ ToSet(wants.order) = Held(wants) /\ Len(wants.order) = Cardinality(Held(wants))
    /\ Len(wants.order) <= MaxEvents
    /\ \A e \in Held(wants) : LET entry == wants.entries[e] IN
        /\ Len(entry.alternatives) <= MaxAlternatives
        /\ Cardinality({provider.peer : provider \in Providers(entry)}) = Len(entry.alternatives) + 1
        /\ \A provider \in Providers(entry) : provider.subs # {}
        /\ entry.retries <= MaxWantRetries

\* Whoever is blamed for an unanswered inventory (retry_due, expired_providers)
\* was sent a WANT in its current link epoch, and had the whole last delay to
\* answer it, however the providers were rotated, promoted and announced again.
BlamedHadTime == \A blame \in batch.blamed : blame[3] >= MaxAge

\* The table stays coherent and its blame fair.
WantsFair == Coherent /\ BlamedHadTime

\* While an event stays pending, a provider that was asked stays able to answer:
\* only the end of its epoch or of its subscriptions withdraws the request ("Rotating
\* providers does not cancel a reliable response already in flight").
RequestsStand ==
    [][\A e \in Held(wants) \cap Held(wants') :
         \A p \in Requested(wants.entries[e]) \ Requested(wants'.entries[e]) :
            ~\E provider \in Providers(wants'.entries[e]) : provider.peer = p]_vars

\* With finitely many link epochs ending, a requested event is answered, dropped or given
\* up: no event is retried for ever.
WantsSettle == \A e \in Events : (e \in Held(wants)) ~> (e \notin Held(wants))
=============================================================================
