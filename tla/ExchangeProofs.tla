--------------------------- MODULE ExchangeProofs ---------------------------
(***************************************************************************)
(* Proofs about the relay adapter's live subscription (RelayLive), the     *)
(* verification cache (VerificationCache) and live sessions over several   *)
(* routes (EventRouter).                                                   *)
(***************************************************************************)
EXTENDS MCExchange, EventRouter, FilterProofs, TLAPS

-----------------------------------------------------------------------------
(* Closing a live subscription *)

LiveTypes ==
    /\ owner \in {"subscribing", "open", "failed", "closing", "dropped", "closed"}
    /\ task \in [phase : {"none", "listening", "replaying", "ended"},
                 left : SUBSET LiveFilters, cleared : LiveFilters \cup {NoFilter},
                 restored : BOOLEAN]

\* The task that could install a filter again runs only between set-up and the
\* end of close: until set-up is over there is none, and close has joined it.
TaskOwned ==
    /\ owner \in {"subscribing", "failed"} => task.phase = "none"
    /\ owner = "closed" => task.phase = "ended"

LiveInv == LiveTypes /\ TaskOwned /\ ClosedIsFinal

\* A subscription starts without a task.
LEMMA LiveInitially == RelayInit => LiveInv
BY DEF RelayInit, LiveInv, LiveTypes, TaskOwned, ClosedIsFinal, NoFilter

\* No step of the task, of its owner or of a relay breaks the invariant.
LEMMA LiveInductive == LiveInv /\ [RelayNext]_relayVars => LiveInv'
<1> SUFFICES ASSUME LiveInv, [RelayNext]_relayVars PROVE LiveInv'
  OBVIOUS
<1> USE DEF LiveInv, LiveTypes, TaskOwned, ClosedIsFinal
<1>1. ASSUME NEW r \in Relays, Notify(r) PROVE LiveInv'
  BY <1>1 DEF Notify
<1>2. ASSUME NEW r \in Relays, NEW e \in Posts, NewPost(r, e) PROVE LiveInv'
  BY <1>2 DEF NewPost
<1>3. ASSUME NEW f \in LiveFilters, NEW rs \in SUBSET Relays, SubscribeLive(f, rs) PROVE LiveInv'
  <2>1. CASE rs = {}
    BY <1>3, <2>1 DEF SubscribeLive
  <2>2. CASE rs # {} /\ task.left = {f}
    <3>1. owner' = "open" /\ task' = [task EXCEPT !.left = @ \ {f}, !.phase = "listening"]
      BY <1>3, <2>2 DEF SubscribeLive
    <3> QED
      BY <3>1
  <2>3. CASE rs # {} /\ task.left # {f}
    <3>1. owner = "subscribing" /\ owner' = owner
          /\ task' = [task EXCEPT !.left = @ \ {f}, !.phase = "none"]
      BY <1>3, <2>3 DEF SubscribeLive
    <3> QED
      BY <3>1
  <2> QED
    BY <2>1, <2>2, <2>3
<1>4. ASSUME NEW accepts \in BOOLEAN, Receive(accepts) PROVE LiveInv'
  BY <1>4 DEF Receive
<1>5. CASE Lagged
  BY <1>5 DEF Lagged
<1>6. CASE StartReplay
  BY <1>6 DEF StartReplay, Listening, NoFilter
<1>7. CASE EndReplay
  BY <1>7 DEF EndReplay
<1>8. ASSUME NEW f \in LiveFilters, Unsubscribe(f) PROVE LiveInv'
  BY <1>8 DEF Unsubscribe
<1>9. ASSUME NEW f \in LiveFilters, NEW rs \in SUBSET Relays, Resubscribe(f, rs) PROVE LiveInv'
  BY <1>9 DEF Resubscribe
<1>10. CASE Tick
  BY <1>10 DEF Tick
<1>11. ASSUME NEW how \in {"closing", "dropped"}, AbortTask(how) PROVE LiveInv'
  BY <1>11 DEF AbortTask
<1>12. CASE TaskEnds
  BY <1>12 DEF TaskEnds
<1>13. CASE FinishClose
  BY <1>13 DEF FinishClose, MayUnsubscribe
<1>14. CASE UNCHANGED relayVars
  BY <1>14 DEF relayVars
<1>15. CASE TaskStep
  BY <1>15, <1>4, <1>5, <1>6, <1>7, <1>8, <1>9 DEF TaskStep
<1> QED
  BY <1>1, <1>2, <1>3, <1>10, <1>11, <1>12, <1>13, <1>14, <1>15 DEF RelayNext

\* Once close has returned, no relay serves the subscription: close joins the
\* task that replays filters before it unsubscribes, so no REQ of a replay that
\* was under way comes after the last CLOSE (RelayLiveSubscription::close).
THEOREM ClosedSubscriptionsStayClosed == Spec => []ClosedIsFinal
<1>1. Init => LiveInv
  BY LiveInitially DEF Init
<1>2. LiveInv /\ [Next]_vars => LiveInv'
  <2>1. [Next]_vars => [RelayNext]_relayVars
    BY DEF Next, vars, relayVars
  <2> QED
    BY <2>1, LiveInductive
<1>3. LiveInv => ClosedIsFinal
  BY DEF LiveInv
<1> QED
  BY <1>1, <1>2, <1>3, PTL DEF Spec

-----------------------------------------------------------------------------
(* The verification cache *)

\* The ids in line are the ids that have a signature, each once, and no more
\* than the cache holds.
LineSound ==
    /\ order \in Seq(Bodies) /\ IsInjective(order)
    /\ DOMAIN signatures = ToSet(order)
    /\ Len(order) <= CacheCapacity

\* A cached signature is a genuine one for its id, which is why a hit has only
\* the body left to check.
Genuinely == \A id \in DOMAIN signatures : signatures[id][1] = id

Answered == answer # "none" => (answer = "ok" <=> Cache!Verify(asked))

CacheInv == LineSound /\ Genuinely /\ Answered

\* An empty cache is sound.
LEMMA CacheInitially == Cache!CacheInit => CacheInv
<1>1. ASSUME Cache!CacheInit PROVE LineSound /\ Genuinely
  BY <1>1, ExchangeAssumption
     DEF Cache!CacheInit, LineSound, Genuinely, IsInjective, ToSet
<1>2. ASSUME Cache!CacheInit PROVE Answered
  BY <1>2 DEF Cache!CacheInit, Answered
<1> QED
  BY <1>1, <1>2 DEF CacheInv

\* A good signature is remembered without repeating an id or outgrowing the
\* cache: the oldest id leaves with its signature.
LEMMA Remembered ==
    ASSUME LineSound, Genuinely, NEW e \in Cache!Received, Cache!Verify(e), Cache!Remember(e)
    PROVE  LineSound' /\ Genuinely'
<1> DEFINE id == e.id
<1>0. id \in Bodies /\ e.sig[1] = id
  BY DEF Cache!Received, Cache!Verify
<1> HIDE DEF id
<1>1. CASE id \in DOMAIN signatures
  <2>1. order' = order
        /\ signatures' = [i \in DOMAIN signatures \cup {id} |->
                            IF i = id THEN e.sig ELSE signatures[i]]
    BY <1>1 DEF Cache!Remember, id
  <2> QED
    BY <1>0, <1>1, <2>1 DEF LineSound, Genuinely
<1>2. CASE id \notin DOMAIN signatures /\ Len(order) # CacheCapacity
  <2>1. order' = Append(order, id)
        /\ signatures' = [i \in DOMAIN signatures \cup {id} |->
                            IF i = id THEN e.sig ELSE signatures[i]]
    BY <1>2 DEF Cache!Remember, id
  <2>2. IsInjective(Append(order, id)) /\ ToSet(Append(order, id)) = ToSet(order) \cup {id}
    BY <1>0, <1>2, DistinctEnds DEF LineSound
  <2>3. Append(order, id) \in Seq(Bodies) /\ Len(Append(order, id)) = Len(order) + 1
    BY <1>0 DEF LineSound
  <2>4. Len(order') <= CacheCapacity
    BY <2>1, <2>3, <1>2, ExchangeAssumption DEF LineSound
  <2>5. LineSound'
    BY <2>1, <2>2, <2>3, <2>4 DEF LineSound
  <2> QED
    BY <1>0, <2>1, <2>5 DEF Genuinely
<1>3. CASE id \notin DOMAIN signatures /\ Len(order) = CacheCapacity
  <2> DEFINE first == Head(order) rest == Tail(order)
  <2>1. order' = Append(rest, id)
        /\ signatures' = [i \in (DOMAIN signatures \ {first}) \cup {id} |->
                            IF i = id THEN e.sig ELSE signatures[i]]
    BY <1>3 DEF Cache!Remember, id
  <2>2. order # <<>> /\ order \in Seq(Bodies) /\ IsInjective(order)
    BY <1>3, ExchangeAssumption DEF LineSound
  <2>3. rest \in Seq(Bodies) /\ Len(rest) = Len(order) - 1
    BY <2>2
  <2>4. IsInjective(rest) /\ ToSet(rest) = ToSet(order) \ {first}
    BY <2>2, DistinctEnds
  <2>5. DOMAIN signatures = ToSet(order) /\ id \notin ToSet(order)
    BY <1>3 DEF LineSound
  <2> HIDE DEF first, rest
  <2>6. IsInjective(Append(rest, id)) /\ ToSet(Append(rest, id)) = ToSet(rest) \cup {id}
    BY <1>0, <2>3, <2>4, <2>5, DistinctEnds
  <2>7. Append(rest, id) \in Seq(Bodies) /\ Len(Append(rest, id)) = Len(rest) + 1
    BY <1>0, <2>3
  <2>8. Len(order') <= CacheCapacity
    BY <1>3, <2>1, <2>2, <2>3, <2>7, ExchangeAssumption
  <2>9. LineSound'
    BY <2>1, <2>4, <2>5, <2>6, <2>7, <2>8 DEF LineSound
  <2> QED
    BY <1>0, <2>1, <2>9 DEF Genuinely
<1> QED
  BY <1>1, <1>2, <1>3

\* Verifying an event keeps the cache sound and answers as a full check would.
LEMMA CacheInductive ==
    ASSUME CacheInv, NEW e \in Cache!Received, Cache!CacheVerify(e)
    PROVE  CacheInv'
<1>1. CASE Cache!Hit(e) /\ answer' = Cache!HitAnswer(e) /\ UNCHANGED <<signatures, order>>
  <2>1. (answer' = "ok") <=> Cache!Verify(e)
    BY <1>1 DEF CacheInv, Genuinely, Cache!Hit, Cache!HitAnswer, Cache!Verify, Cache!VerifyId
  <2>2. Answered'
    BY <2>1 DEF Answered, Cache!CacheVerify, Cache!Verify, Cache!VerifyId
  <2> QED
    BY <1>1, <2>2 DEF CacheInv, LineSound, Genuinely
<1>2. CASE Cache!Verify(e) /\ answer' = "ok" /\ Cache!Remember(e)
  <2>1. LineSound' /\ Genuinely'
    BY <1>2, Remembered DEF CacheInv
  <2>2. Answered'
    BY <1>2 DEF Answered, Cache!CacheVerify, Cache!Verify, Cache!VerifyId
  <2> QED
    BY <2>1, <2>2 DEF CacheInv
<1>3. CASE ~Cache!Verify(e) /\ answer' = "refused" /\ UNCHANGED <<signatures, order>>
  <2>1. Answered'
    BY <1>3 DEF Answered, Cache!CacheVerify, Cache!Verify, Cache!VerifyId
  <2> QED
    BY <1>3, <2>1 DEF CacheInv, LineSound, Genuinely
<1> QED
  BY <1>1, <1>2, <1>3 DEF Cache!CacheVerify

\* verify answers what a full check of the event would, whatever it was asked
\* before, and the cache stays within its capacity with one genuine signature
\* for each id in line (EventVerificationCache::verify).
THEOREM CacheAnswersExactly == Spec => []CacheExact
<1>1. Init => CacheInv
  BY CacheInitially DEF Init
<1>2. CacheInv /\ [Next]_vars => CacheInv'
  <2> SUFFICES ASSUME CacheInv, [Next]_vars PROVE CacheInv'
    OBVIOUS
  <2>1. CASE Cache!CacheNext
    BY <2>1, CacheInductive DEF Cache!CacheNext
  <2>2. CASE UNCHANGED cacheVars
    BY <2>2 DEF cacheVars, CacheInv, LineSound, Genuinely, Answered, Cache!Verify, Cache!VerifyId
  <2> QED
    BY <2>1, <2>2 DEF Next, vars
<1>3. CacheInv => CacheExact
  BY DEF CacheInv, LineSound, Genuinely, Answered, CacheExact, Cache!CacheExact,
         ToSet, IsInjective, Cache!ToSet, Cache!IsInjective
<1> QED
  BY <1>1, <1>2, <1>3, PTL DEF Spec
-----------------------------------------------------------------------------
(* Live sessions over several routes *)

PublisherSet ==
    [phase : {"idle", "routing", "calling"}, event : Events \cup {0}, route : Nat,
     left : SUBSET Sessions, taking : Sessions \cup {"none"}, accepted : Nat, attempted : Nat]
SessionSet ==
    [phase : {"new", "opening", "open", "closing", "undoing", "closed"},
     filters : LiveRequests \cup {<<>>}, left : Seq(DOMAIN Routes), active : Seq(DOMAIN Routes)]

RouterTypes ==
    /\ bus \in [DOMAIN Routes -> Seq(Events)]
    /\ handlers \in [DOMAIN Routes -> SUBSET Sessions]
    /\ pub \in [Publishers -> PublisherSet]
    /\ \A p \in Publishers : pub[p].phase # "idle" => pub[p].event \in Events
    /\ session \in [Sessions -> SessionSet]
    /\ seen \in [Sessions -> Seq(Events)] /\ taken \in [Sessions -> Seq(Events)]
    /\ since \in [Sessions -> [DOMAIN Routes -> Nat]]

Has(q, e) == \E i \in 1..Len(q) : q[i] = e

\* An event comes again in q only after MaxSeen others.
Apart(q) == \A i, j \in 1..Len(q) : i < j /\ q[i] = q[j] => j - i > MaxSeen

\* w has the last MaxSeen events of q.
Remembers(w, q) ==
    /\ Len(w) <= Len(q) /\ Len(w) <= MaxSeen
    /\ Len(w) = Len(q) \/ Len(w) = MaxSeen
    /\ \A k \in 1..Len(w) : w[k] = q[Len(q) - Len(w) + k]

\* Until a session is closed it remembers the last events it took; what a late
\* handler does to a closed one is of no consequence.
WindowsKept ==
    \A s \in Sessions :
        /\ Apart(taken[s])
        /\ session[s].phase # "closed" => Remembers(seen[s], taken[s])

\* Some publisher of pubs has still to call the session's handler with e.
Due(pubs, s, e) ==
    \E p \in Publishers : pubs[p].phase = "calling" /\ pubs[p].event = e /\ s \in pubs[p].left

\* The session's handler is registered, and of what the route stored after the
\* first n the session has taken q, or is about to be given, all that matches.
Reached(s, filters, registered, stored, n, q, pubs) ==
    /\ s \in registered
    /\ \A k \in n + 1 .. Len(stored) :
        FiltersMatch(filters, stored[k]) => Has(q, stored[k]) \/ Due(pubs, s, stored[k])

ReachedAt(s, r) == Reached(s, session[s].filters, handlers[r], bus[r], since[s][r], taken[s], pub)

AllReached ==
    \A s \in Sessions : session[s].phase \in {"opening", "open"} =>
        \A i \in 1..Len(session[s].active) : ReachedAt(s, session[s].active[i])

SessionsInv == RouterTypes /\ WindowsKept /\ AllReached

\* At the start nothing is stored, registered or taken.
LEMMA SessionsInitially == LiveInit => SessionsInv
<1> SUFFICES ASSUME RouterInit, bus = NothingStored PROVE SessionsInv
  BY DEF LiveInit
<1>1. RouterTypes
  BY RouterAssumption DEF RouterInit, NothingStored, RouterTypes, PublisherSet, SessionSet,
     IdlePublisher, NewSession, RouteIds, NoOne
<1>2. WindowsKept
  BY RouterAssumption DEF RouterInit, WindowsKept, Apart, Remembers
<1>3. AllReached
  BY DEF RouterInit, AllReached, NewSession
<1> QED
  BY <1>1, <1>2, <1>3 DEF SessionsInv

\* Who is reached stays reached while what is due stays due or is taken.
LEMMA ReachedStill ==
    ASSUME NEW s, NEW filters, NEW registered, NEW stored \in Seq(Events), NEW n \in Nat, NEW q, NEW pubs,
           Reached(s, filters, registered, stored, n, q, pubs),
           NEW others, s \in others, NEW more, NEW after,
           \A e \in Events : Has(q, e) => Has(more, e),
           \A e \in Events : Due(pubs, s, e) => Has(more, e) \/ Due(after, s, e)
    PROVE  Reached(s, filters, others, stored, n, more, after)
<1> SUFFICES ASSUME NEW k \in n + 1 .. Len(stored), FiltersMatch(filters, stored[k])
             PROVE  Has(more, stored[k]) \/ Due(after, s, stored[k])
  BY DEF Reached
<1>1. stored[k] \in Events
  OBVIOUS
<1> QED
  BY <1>1 DEF Reached

\* A session and the routes it is open at.
LEMMA ReachedTypes ==
    ASSUME RouterTypes, NEW s \in Sessions, NEW i \in 1..Len(session[s].active)
    PROVE  /\ session[s].active[i] \in DOMAIN Routes
           /\ bus[session[s].active[i]] \in Seq(Events) /\ since[s][session[s].active[i]] \in Nat
<1>1. session[s] \in SessionSet
  BY DEF RouterTypes
<1>2. session[s].active[i] \in DOMAIN Routes
  BY <1>1 DEF SessionSet
<1> QED
  BY <1>2 DEF RouterTypes

\* The record of a publisher, changed as the steps change it.
LEMMA PublisherChanges ==
    ASSUME NEW b \in PublisherSet, NEW set \in SUBSET Sessions, NEW by \in Sessions \cup {"none"}
    PROVE  /\ [b EXCEPT !.route = @ + 1] \in PublisherSet
           /\ [b EXCEPT !.route = @ + 1, !.attempted = @ + 1] \in PublisherSet
           /\ [b EXCEPT !.phase = "routing", !.route = @ + 1, !.accepted = @ + 1] \in PublisherSet
           /\ [b EXCEPT !.phase = "calling", !.attempted = @ + 1, !.left = set] \in PublisherSet
           /\ [b EXCEPT !.left = set, !.taking = by] \in PublisherSet
           /\ [b EXCEPT !.taking = by] \in PublisherSet
<1>1. b.route + 1 \in Nat /\ b.accepted + 1 \in Nat /\ b.attempted + 1 \in Nat
  BY DEF PublisherSet
<1>2. [b EXCEPT !.route = @ + 1] \in PublisherSet
  BY <1>1 DEF PublisherSet
<1>3. [b EXCEPT !.route = @ + 1, !.attempted = @ + 1] \in PublisherSet
  BY <1>1 DEF PublisherSet
<1>4. [b EXCEPT !.phase = "routing", !.route = @ + 1, !.accepted = @ + 1] \in PublisherSet
  BY <1>1 DEF PublisherSet
<1>5. [b EXCEPT !.phase = "calling", !.attempted = @ + 1, !.left = set] \in PublisherSet
  BY <1>1 DEF PublisherSet
<1>6. [b EXCEPT !.left = set, !.taking = by] \in PublisherSet /\ [b EXCEPT !.taking = by] \in PublisherSet
  BY DEF PublisherSet
<1> QED
  BY <1>2, <1>3, <1>4, <1>5, <1>6

\* A publisher that moves on without leaving a handler uncalled.
LEMMA PublisherMoves ==
    ASSUME SessionsInv, NEW p \in Publishers, NEW q \in PublisherSet,
           q.phase # "idle" => q.event \in Events,
           \/ pub[p].phase # "calling" \/ pub[p].left = {}
           \/ q.phase = "calling" /\ q.event = pub[p].event /\ q.left = pub[p].left,
           pub' = [pub EXCEPT ![p] = q],
           UNCHANGED <<bus, handlers, session, seen, taken, since>>
    PROVE  SessionsInv'
<1>0. pub'[p] = q /\ \A o \in Publishers : o # p => pub'[o] = pub[o]
  BY DEF SessionsInv, RouterTypes
<1>1. RouterTypes'
  BY <1>0 DEF SessionsInv, RouterTypes
<1>2. WindowsKept'
  BY DEF SessionsInv, WindowsKept, Apart, Remembers
<1>3. ASSUME NEW s, NEW e, Due(pub, s, e) PROVE Due(pub', s, e)
  BY <1>0, <1>3 DEF Due
<1>4. AllReached'
  <2> SUFFICES ASSUME NEW s \in Sessions, session[s].phase \in {"opening", "open"},
                      NEW i \in 1..Len(session[s].active)
               PROVE  Reached(s, session[s].filters, handlers[session[s].active[i]], bus[session[s].active[i]],
                              since[s][session[s].active[i]], taken[s], pub')
    BY DEF AllReached, ReachedAt
  <2>1. ReachedAt(s, session[s].active[i])
    BY DEF SessionsInv, AllReached
  <2> QED
    BY <1>3, <2>1, ReachedTypes, ReachedStill DEF SessionsInv, ReachedAt, Reached
<1> QED
  BY <1>1, <1>2, <1>4 DEF SessionsInv

\* A step of the publishers other than a handler's call or the storing.
LEMMA PublishersKeep ==
    ASSUME SessionsInv, NEW p \in Publishers,
           \/ \E e \in Posted : Begin(p, e)
           \/ SkipRoute(p) \/ AbortPublish(p) \/ RefuseAtRoute(p)
           \/ SubscriberRuns(p) \/ RouteAccepted(p) \/ ReportPublish(p)
    PROVE  SessionsInv'
<1> DEFINE b == pub[p]
<1>0. b \in PublisherSet /\ (b.phase # "idle" => b.event \in Events)
  BY DEF SessionsInv, RouterTypes
<1>1. ASSUME NEW e \in Posted, Begin(p, e) PROVE SessionsInv'
  <2> DEFINE q == [IdlePublisher EXCEPT !.phase = "routing", !.event = e]
  <2>1. q \in PublisherSet /\ q.event \in Events
    BY RouterAssumption DEF PublisherSet, IdlePublisher, NoOne
  <2>2. b.phase = "idle" /\ pub' = [pub EXCEPT ![p] = q]
        /\ UNCHANGED <<bus, handlers, session, seen, taken, since>>
    BY <1>1 DEF Begin
  <2> HIDE DEF q
  <2> QED
    BY <2>1, <2>2, PublisherMoves
<1>2. CASE SkipRoute(p)
  <2> DEFINE q == [b EXCEPT !.route = @ + 1]
  <2>1. q \in PublisherSet /\ q.phase = b.phase /\ q.event = b.event
    BY <1>0, PublisherChanges DEF PublisherSet
  <2>2. b.phase = "routing" /\ pub' = [pub EXCEPT ![p] = q]
        /\ UNCHANGED <<bus, handlers, session, seen, taken, since>>
    BY <1>2 DEF SkipRoute, AtRoute
  <2> HIDE DEF q
  <2> QED
    BY <1>0, <2>1, <2>2, PublisherMoves
<1>3. CASE AbortPublish(p) \/ ReportPublish(p)
  <2> DEFINE q == IdlePublisher
  <2>1. q \in PublisherSet /\ q.phase = "idle"
    BY DEF PublisherSet, IdlePublisher, NoOne
  <2>2. b.phase = "routing" /\ pub' = [pub EXCEPT ![p] = q]
        /\ UNCHANGED <<bus, handlers, session, seen, taken, since>>
    BY <1>3 DEF AbortPublish, ReportPublish, AtRoute
  <2> HIDE DEF q
  <2> QED
    BY <2>1, <2>2, PublisherMoves
<1>4. CASE RefuseAtRoute(p)
  <2> DEFINE q == [b EXCEPT !.route = @ + 1, !.attempted = @ + 1]
  <2>1. q \in PublisherSet /\ q.phase = b.phase /\ q.event = b.event
    BY <1>0, PublisherChanges DEF PublisherSet
  <2>2. b.phase = "routing" /\ pub' = [pub EXCEPT ![p] = q]
        /\ UNCHANGED <<bus, handlers, session, seen, taken, since>>
    BY <1>4 DEF RefuseAtRoute, AtRoute
  <2> HIDE DEF q
  <2> QED
    BY <1>0, <2>1, <2>2, PublisherMoves
<1>5. CASE SubscriberRuns(p)
  <2> DEFINE q == [b EXCEPT !.taking = NoOne]
  <2>1. q \in PublisherSet /\ q.phase = b.phase /\ q.event = b.event /\ q.left = b.left
    BY <1>0, PublisherChanges DEF PublisherSet, NoOne
  <2>2. pub' = [pub EXCEPT ![p] = q] /\ UNCHANGED <<bus, handlers, session, seen, taken, since>>
    BY <1>5 DEF SubscriberRuns
  <2> HIDE DEF q
  <2> QED
    BY <1>0, <2>1, <2>2, PublisherMoves
<1>6. CASE RouteAccepted(p)
  <2> DEFINE q == [b EXCEPT !.phase = "routing", !.route = @ + 1, !.accepted = @ + 1]
  <2>1. q \in PublisherSet /\ q.event = b.event
    BY <1>0, PublisherChanges DEF PublisherSet
  <2>2. b.phase = "calling" /\ b.left = {} /\ pub' = [pub EXCEPT ![p] = q]
        /\ UNCHANGED <<bus, handlers, session, seen, taken, since>>
    BY <1>6 DEF RouteAccepted
  <2> HIDE DEF q
  <2> QED
    BY <1>0, <2>1, <2>2, PublisherMoves
<1> QED
  BY <1>1, <1>2, <1>3, <1>4, <1>5, <1>6

\* What is stored is noted for every handler registered by then: both happen
\* under the bus's lock.
LEMMA StoringKeeps ==
    ASSUME SessionsInv, NEW p \in Publishers, StoreAtRoute(p)
    PROVE  SessionsInv'
<1> DEFINE b == pub[p]
           r == b.route
           called == Interested(r, b.event)
           q == [b EXCEPT !.phase = "calling", !.attempted = @ + 1, !.left = called]
<1>0. b \in PublisherSet /\ b.phase = "routing" /\ b.event \in Events /\ r \in DOMAIN Routes
  BY DEF SessionsInv, RouterTypes, StoreAtRoute, AtRoute, RouteIds
<1>1. /\ bus' = [bus EXCEPT ![r] = Append(@, b.event)] /\ pub' = [pub EXCEPT ![p] = q]
      /\ UNCHANGED <<handlers, session, seen, taken, since>>
  BY DEF StoreAtRoute
<1>2. called \in SUBSET Sessions
  BY <1>0 DEF Interested, SessionsInv, RouterTypes
<1> HIDE DEF called
<1>3. q \in PublisherSet /\ q.phase = "calling" /\ q.event = b.event /\ q.left = called
  <2>1. q \in PublisherSet
    BY <1>0, <1>2, PublisherChanges
  <2>2. q.phase = "calling" /\ q.event = b.event /\ q.left = called
    BY <1>0 DEF PublisherSet
  <2> QED
    BY <2>1, <2>2
<1> HIDE DEF q
<1>4. pub'[p] = q /\ \A o \in Publishers : o # p => pub'[o] = pub[o]
  BY <1>1 DEF SessionsInv, RouterTypes
<1>5. RouterTypes'
  BY <1>0, <1>1, <1>3, <1>4 DEF SessionsInv, RouterTypes
<1>6. WindowsKept'
  BY <1>1 DEF SessionsInv, WindowsKept, Apart, Remembers
<1>7. ASSUME NEW s, NEW e, Due(pub, s, e) PROVE Due(pub', s, e)
  BY <1>0, <1>4, <1>7 DEF Due
<1>8. ASSUME NEW s \in called PROVE Due(pub', s, b.event)
  BY <1>3, <1>4 DEF Due
<1>9. ASSUME NEW s \in Sessions, NEW x \in DOMAIN Routes, ReachedAt(s, x)
      PROVE  Reached(s, session[s].filters, handlers[x], bus'[x], since[s][x], taken[s], pub')
  <2>0. since[s][x] \in Nat /\ bus[x] \in Seq(Events)
    BY DEF SessionsInv, RouterTypes
  <2>1. Reached(s, session[s].filters, handlers[x], bus[x], since[s][x], taken[s], pub')
    BY <1>7, <1>9, <2>0, ReachedStill DEF ReachedAt, Reached
  <2>2. CASE x # r
    BY <1>0, <1>1, <2>1, <2>2 DEF SessionsInv, RouterTypes
  <2>3. CASE x = r
    <3>1. bus'[x] = Append(bus[x], b.event)
      BY <1>0, <1>1, <2>3 DEF SessionsInv, RouterTypes
    <3> SUFFICES ASSUME NEW k \in since[s][x] + 1 .. Len(bus'[x]),
                        FiltersMatch(session[s].filters, bus'[x][k])
                 PROVE  Has(taken[s], bus'[x][k]) \/ Due(pub', s, bus'[x][k])
      BY <2>1 DEF Reached
    <3>2. CASE k <= Len(bus[x])
      <4>1. bus'[x][k] = bus[x][k] /\ k \in since[s][x] + 1 .. Len(bus[x])
        BY <1>0, <2>0, <3>1, <3>2
      <4> QED
        BY <2>1, <4>1 DEF Reached
    <3>3. CASE k > Len(bus[x])
      <4>1. bus'[x][k] = b.event
        BY <1>0, <2>0, <3>1, <3>3
      <4>2. s \in called
        BY <1>9, <2>3, <4>1 DEF ReachedAt, Reached, Interested, called
      <4> QED
        BY <1>8, <4>1, <4>2
    <3> QED
      BY <2>0, <3>2, <3>3
  <2> QED
    BY <2>2, <2>3
<1>10. AllReached'
  <2> SUFFICES ASSUME NEW s \in Sessions, session[s].phase \in {"opening", "open"},
                      NEW i \in 1..Len(session[s].active)
               PROVE  Reached(s, session[s].filters, handlers[session[s].active[i]], bus'[session[s].active[i]],
                              since[s][session[s].active[i]], taken[s], pub')
    BY <1>1 DEF AllReached, ReachedAt
  <2> QED
    BY <1>9, ReachedTypes DEF SessionsInv, AllReached
<1> QED
  BY <1>5, <1>6, <1>10 DEF SessionsInv

\* SeenEvents::insert moves the window along with what is taken, and an event
\* outside the window is far enough from its last copy.
LEMMA WindowMoves ==
    ASSUME NEW w \in Seq(Events), NEW q \in Seq(Events), NEW e \in Events,
           Remembers(w, q), Apart(q), ~Has(w, e)
    PROVE  /\ Insert(w, e) \in Seq(Events)
           /\ Remembers(Insert(w, e), Append(q, e)) /\ Apart(Append(q, e))
<1> DEFINE g == Append(w, e) h == Append(q, e) u == Insert(w, e)
<1>0. MaxSeen \in Nat /\ Len(w) \in Nat /\ Len(q) \in Nat
  BY RouterAssumption
<1>1. /\ g \in Seq(Events) /\ Len(g) = Len(w) + 1 /\ g[Len(w) + 1] = e
      /\ \A k \in 1..Len(w) : g[k] = w[k]
  OBVIOUS
<1>2. /\ h \in Seq(Events) /\ Len(h) = Len(q) + 1 /\ h[Len(q) + 1] = e
      /\ \A k \in 1..Len(q) : h[k] = q[k]
  OBVIOUS
<1> HIDE DEF g, h
<1>3. \A k \in 1..Len(g) : g[k] = h[Len(h) - Len(g) + k]
  <2>1. Len(w) <= Len(q) /\ \A k \in 1..Len(w) : w[k] = q[Len(q) - Len(w) + k]
    BY <1>0 DEF Remembers
  <2> SUFFICES ASSUME NEW k \in 1..Len(g) PROVE g[k] = h[Len(h) - Len(g) + k]
    OBVIOUS
  <2>2. CASE k <= Len(w)
    <3>1. Len(h) - Len(g) + k = Len(q) - Len(w) + k /\ Len(q) - Len(w) + k \in 1..Len(q) /\ k \in 1..Len(w)
      BY <1>0, <1>1, <1>2, <2>1, <2>2
    <3> QED
      BY <1>1, <1>2, <2>1, <3>1
  <2>3. CASE k = Len(w) + 1
    BY <1>0, <1>1, <1>2, <2>3
  <2> QED
    BY <1>0, <1>1, <2>2, <2>3
<1>4. u = IF Len(g) > MaxSeen THEN Tail(g) ELSE g
  BY DEF Insert, g
<1>5. u \in Seq(Events) /\ Remembers(u, h)
  <2>1. CASE Len(g) > MaxSeen
    <3>1. u = Tail(g) /\ g # <<>>
      BY <1>0, <1>1, <1>4, <2>1
    <3>2. u \in Seq(Events) /\ Len(u) = Len(g) - 1 /\ \A k \in 1..Len(u) : u[k] = g[k + 1]
      BY <1>1, <3>1
    <3>3. Len(u) = MaxSeen /\ Len(h) > MaxSeen
      BY <1>0, <1>1, <1>2, <2>1, <3>2 DEF Remembers
    <3>4. ASSUME NEW k \in 1..Len(u) PROVE u[k] = h[Len(h) - Len(u) + k]
      <4>1. k + 1 \in 1..Len(g) /\ Len(h) - Len(g) + (k + 1) = Len(h) - Len(u) + k
        BY <1>1, <1>2, <3>2
      <4> QED
        BY <1>3, <3>2, <4>1
    <3> QED
      BY <1>0, <1>2, <3>2, <3>3, <3>4 DEF Remembers
  <2>2. CASE ~(Len(g) > MaxSeen)
    <3>1. u = g /\ Len(g) <= MaxSeen
      BY <1>0, <1>1, <1>4, <2>2
    <3>2. Len(w) = Len(q) /\ Len(g) = Len(h)
      BY <1>0, <1>1, <1>2, <3>1 DEF Remembers
    <3>3. Len(u) = Len(h) /\ Len(u) <= MaxSeen
      BY <3>1, <3>2
    <3> QED
      BY <1>1, <1>3, <3>1, <3>3 DEF Remembers
  <2> QED
    BY <2>1, <2>2
<1>6. ASSUME NEW i \in 1..Len(q), q[i] = e PROVE Len(q) + 1 - i > MaxSeen
  <2>1. SUFFICES ASSUME Len(q) + 1 - i <= MaxSeen PROVE FALSE
    BY <1>0
  <2>2. Len(q) - Len(w) < i
    BY <1>0, <2>1 DEF Remembers
  <2> DEFINE k == i - (Len(q) - Len(w))
  <2>3. k \in 1..Len(w) /\ Len(q) - Len(w) + k = i
    BY <1>0, <2>2
  <2>4. w[k] = q[i]
    BY <2>3 DEF Remembers
  <2> QED
    BY <1>6, <2>3, <2>4 DEF Has
<1>7. Apart(h)
  <2> SUFFICES ASSUME NEW i \in 1..Len(h), NEW j \in 1..Len(h), i < j, h[i] = h[j] PROVE j - i > MaxSeen
    BY DEF Apart
  <2>1. CASE j <= Len(q)
    BY <1>0, <1>2, <2>1 DEF Apart
  <2>2. CASE j = Len(q) + 1
    BY <1>0, <1>2, <1>6, <2>2
  <2> QED
    BY <1>0, <1>2, <2>1, <2>2
<1> QED
  BY <1>5, <1>7 DEF h

\* What the window has was taken.
LEMMA RememberedTaken ==
    ASSUME NEW w \in Seq(Events), NEW q \in Seq(Events), Remembers(w, q), NEW e, Has(w, e)
    PROVE  Has(q, e)
<1>0. Len(w) \in Nat /\ Len(q) \in Nat /\ Len(w) <= Len(q)
  BY DEF Remembers
<1>1. PICK k \in 1..Len(w) : w[k] = e
  BY DEF Has
<1> DEFINE i == Len(q) - Len(w) + k
<1>2. i \in 1..Len(q)
  BY <1>0
<1>3. q[i] = e
  BY <1>1 DEF Remembers
<1> QED
  BY <1>2, <1>3 DEF Has

\* A handler's call: the event is taken unless the window has it, and then the
\* session took it before.
LEMMA CallingKeeps ==
    ASSUME SessionsInv, NEW p \in Publishers, NEW c \in Sessions, CallHandler(p, c)
    PROVE  SessionsInv'
<1> DEFINE b == pub[p]
           e == b.event
           known == Contains(seen[c], e)
           by == IF known THEN NoOne ELSE c
           q == [b EXCEPT !.left = @ \ {c}, !.taking = by]
<1>0. b \in PublisherSet /\ b.phase = "calling" /\ e \in Events /\ c \in b.left
  BY DEF SessionsInv, RouterTypes, CallHandler
<1>1. /\ seen' = IF known THEN seen ELSE [seen EXCEPT ![c] = Insert(@, e)]
      /\ taken' = IF known \/ session[c].phase = "closed" THEN taken ELSE [taken EXCEPT ![c] = Append(@, e)]
      /\ pub' = [pub EXCEPT ![p] = q]
      /\ UNCHANGED <<bus, handlers, session, since>>
  BY DEF CallHandler
<1>2. known <=> Has(seen[c], e)
  BY DEF Contains, Has
<1>3. q \in PublisherSet /\ q.phase = "calling" /\ q.event = e /\ q.left = b.left \ {c}
  <2>1. b.left \ {c} \in SUBSET Sessions /\ by \in Sessions \cup {"none"}
    BY <1>0 DEF PublisherSet, NoOne
  <2> HIDE DEF by
  <2>2. q \in PublisherSet
    BY <1>0, <2>1, PublisherChanges
  <2>3. q.phase = "calling" /\ q.event = e /\ q.left = b.left \ {c}
    BY <1>0 DEF PublisherSet
  <2> QED
    BY <2>2, <2>3
<1>4. seen[c] \in Seq(Events) /\ taken[c] \in Seq(Events) /\ Apart(taken[c])
      /\ (session[c].phase # "closed" => Remembers(seen[c], taken[c]))
  BY DEF SessionsInv, RouterTypes, WindowsKept
<1> HIDE DEF q, known
<1>5. pub'[p] = q /\ \A o \in Publishers : o # p => pub'[o] = pub[o]
  BY <1>1 DEF SessionsInv, RouterTypes
<1>6. Insert(seen[c], e) \in Seq(Events) /\ Append(taken[c], e) \in Seq(Events)
  <2>1. Append(seen[c], e) \in Seq(Events) /\ Len(Append(seen[c], e)) = Len(seen[c]) + 1
    BY <1>0, <1>4
  <2>2. Append(seen[c], e) # <<>>
    BY <1>4, <2>1
  <2>3. Tail(Append(seen[c], e)) \in Seq(Events)
    BY <2>1, <2>2
  <2> QED
    BY <1>0, <1>4, <2>1, <2>3 DEF Insert
<1>7. RouterTypes'
  <2>1. seen' \in [Sessions -> Seq(Events)]
    BY <1>1, <1>6 DEF SessionsInv, RouterTypes
  <2>2. taken' \in [Sessions -> Seq(Events)]
    BY <1>1, <1>6 DEF SessionsInv, RouterTypes
  <2>3. pub' \in [Publishers -> PublisherSet] /\ \A o \in Publishers : pub'[o].phase # "idle" => pub'[o].event \in Events
    BY <1>0, <1>1, <1>3, <1>5 DEF SessionsInv, RouterTypes
  <2> QED
    BY <1>1, <2>1, <2>2, <2>3 DEF SessionsInv, RouterTypes
<1>8. ASSUME NEW s \in Sessions, s # c PROVE seen'[s] = seen[s] /\ taken'[s] = taken[s]
  BY <1>1, <1>8 DEF SessionsInv, RouterTypes
<1>9. /\ Apart(taken'[c]) /\ \A x \in Events : Has(taken[c], x) => Has(taken'[c], x)
      /\ session[c].phase # "closed" => Remembers(seen'[c], taken'[c]) /\ Has(taken'[c], e)
  <2>1. CASE known
    <3>1. seen'[c] = seen[c] /\ taken'[c] = taken[c]
      BY <1>1, <2>1
    <3>2. ASSUME Remembers(seen[c], taken[c]) PROVE Has(taken[c], e)
      BY <1>2, <1>4, <2>1, <3>2, RememberedTaken
    <3> QED
      BY <1>4, <3>1, <3>2
  <2>2. CASE ~known /\ session[c].phase = "closed"
    BY <1>1, <1>4, <2>2
  <2>3. CASE ~known /\ session[c].phase # "closed"
    <3>1. seen'[c] = Insert(seen[c], e) /\ taken'[c] = Append(taken[c], e)
      BY <1>1, <2>3 DEF SessionsInv, RouterTypes
    <3>2. Remembers(seen'[c], taken'[c]) /\ Apart(taken'[c])
      BY <1>0, <1>2, <1>4, <2>3, <3>1, WindowMoves
    <3>3. Len(taken'[c]) = Len(taken[c]) + 1 /\ taken'[c][Len(taken[c]) + 1] = e
          /\ \A k \in 1..Len(taken[c]) : taken'[c][k] = taken[c][k]
      BY <1>0, <1>4, <3>1
    <3>4. Has(taken'[c], e) /\ \A x \in Events : Has(taken[c], x) => Has(taken'[c], x)
      BY <1>4, <3>3 DEF Has
    <3> QED
      BY <3>2, <3>4
  <2> QED
    BY <2>1, <2>2, <2>3
<1>10. WindowsKept'
  <2> SUFFICES ASSUME NEW s \in Sessions
               PROVE  Apart(taken'[s]) /\ (session[s].phase # "closed" => Remembers(seen'[s], taken'[s]))
    BY <1>1 DEF WindowsKept
  <2> QED
    BY <1>8, <1>9 DEF SessionsInv, WindowsKept
<1>11. ASSUME NEW s \in Sessions, session[s].phase # "closed", NEW x \in Events, Due(pub, s, x)
       PROVE  Has(taken'[s], x) \/ Due(pub', s, x)
  BY <1>0, <1>3, <1>5, <1>9, <1>11 DEF Due
<1>12. AllReached'
  <2> SUFFICES ASSUME NEW s \in Sessions, session[s].phase \in {"opening", "open"},
                      NEW i \in 1..Len(session[s].active)
               PROVE  Reached(s, session[s].filters, handlers[session[s].active[i]], bus[session[s].active[i]],
                              since[s][session[s].active[i]], taken'[s], pub')
    BY <1>1 DEF AllReached, ReachedAt
  <2>1. ReachedAt(s, session[s].active[i])
    BY DEF SessionsInv, AllReached
  <2>2. \A x \in Events : Has(taken[s], x) => Has(taken'[s], x)
    BY <1>8, <1>9
  <2>3. \A x \in Events : Due(pub, s, x) => Has(taken'[s], x) \/ Due(pub', s, x)
    BY <1>11
  <2> QED
    BY <2>1, <2>2, <2>3, ReachedTypes, ReachedStill DEF SessionsInv, ReachedAt, Reached
<1> QED
  BY <1>7, <1>10, <1>12 DEF SessionsInv

\* A step of a session that opens no route: a standing one goes on as it is, or
\* it stands no longer.
LEMMA SessionMoves ==
    ASSUME SessionsInv, NEW c \in Sessions, NEW n \in SessionSet, session[c].phase # "closed",
           session' = [session EXCEPT ![c] = n],
           UNCHANGED <<bus, pub, taken, since>>,
           handlers' \in [DOMAIN Routes -> SUBSET Sessions], seen' \in [Sessions -> Seq(Events)],
           \A s \in Sessions : s # c => \A r \in DOMAIN Routes : s \in handlers[r] => s \in handlers'[r],
           \A s \in Sessions : s # c => seen'[s] = seen[s],
           n.phase # "closed" => seen'[c] = seen[c],
           \/ n.phase \notin {"opening", "open"} \/ n.active = <<>>
           \/ /\ session[c].phase \in {"opening", "open"} /\ handlers' = handlers
              /\ n.active = session[c].active /\ n.filters = session[c].filters
    PROVE  SessionsInv'
<1>0. session'[c] = n /\ \A s \in Sessions : s # c => session'[s] = session[s]
  BY DEF SessionsInv, RouterTypes
<1>1. RouterTypes'
  BY <1>0 DEF SessionsInv, RouterTypes
<1>2. WindowsKept'
  <2> SUFFICES ASSUME NEW s \in Sessions
               PROVE  Apart(taken[s]) /\ (session'[s].phase # "closed" => Remembers(seen'[s], taken[s]))
    BY DEF WindowsKept
  <2> QED
    BY <1>0 DEF SessionsInv, WindowsKept
<1>3. AllReached'
  <2> SUFFICES ASSUME NEW s \in Sessions, session'[s].phase \in {"opening", "open"},
                      NEW i \in 1..Len(session'[s].active)
               PROVE  Reached(s, session'[s].filters, handlers'[session'[s].active[i]],
                              bus[session'[s].active[i]], since[s][session'[s].active[i]], taken[s], pub)
    BY DEF AllReached, ReachedAt
  <2>1. /\ session'[s].active = session[s].active /\ session'[s].filters = session[s].filters
        /\ session[s].phase \in {"opening", "open"}
        /\ s # c \/ handlers' = handlers
    BY <1>0
  <2>2. ReachedAt(s, session[s].active[i]) /\ session[s].active[i] \in DOMAIN Routes
    BY <2>1, ReachedTypes DEF SessionsInv, AllReached
  <2>3. s \in handlers'[session[s].active[i]]
    BY <2>1, <2>2 DEF ReachedAt, Reached
  <2> QED
    BY <2>1, <2>2, <2>3 DEF ReachedAt, Reached
<1> QED
  BY <1>1, <1>2, <1>3 DEF SessionsInv

\* What a policy allows is a list of routes.
LEMMA AllowedRoutes ==
    ASSUME NEW allowed
    PROVE  Only([r \in DOMAIN Routes |-> r], allowed) \in Seq(DOMAIN Routes)
<1> DEFINE all == [r \in DOMAIN Routes |-> r]
<1>1. DOMAIN Routes = 1..Len(Routes) /\ Len(Routes) \in Nat
  BY RouterAssumption
<1>2. all \in Seq(DOMAIN Routes)
  BY <1>1
<1> HIDE DEF all
<1>3. Only(all, allowed) \in Seq(DOMAIN Routes)
  BY <1>2, OnlyRetains
<1>4. Only(all, allowed) = Only(all, allowed)
  BY Zenon DEF Only, Only
<1> QED
  BY <1>3, <1>4 DEF all

\* The parts of a list are of its kind.
LEMMA ListParts ==
    ASSUME NEW S
    PROVE  <<>> \in Seq(S) /\ \A q \in Seq(S) : q # <<>> => Head(q) \in S /\ Tail(q) \in Seq(S)
OBVIOUS

\* The steps of a session other than the opening of a route.
LEMMA SessionsKeep ==
    ASSUME SessionsInv, NEW c \in Sessions,
           \/ \E filters \in LiveRequests, allowed \in LiveChoices : Subscribe(c, filters, allowed)
           \/ OpenFails(c) \/ Subscribed(c)
           \/ Close(c) \/ CloseRoute(c) \/ Closed(c)
    PROVE  SessionsInv'
<1> DEFINE b == session[c]
<1>0. /\ b \in SessionSet /\ handlers \in [DOMAIN Routes -> SUBSET Sessions]
      /\ seen \in [Sessions -> Seq(Events)]
  BY DEF SessionsInv, RouterTypes
<1>1. ASSUME NEW filters \in LiveRequests, NEW allowed \in LiveChoices, Subscribe(c, filters, allowed)
      PROVE  SessionsInv'
  <2> DEFINE left == Only([r \in DOMAIN Routes |-> r], allowed)
             n == [NewSession EXCEPT !.phase = "opening", !.filters = filters, !.left = left]
  <2>0. left \in Seq(DOMAIN Routes)
    BY AllowedRoutes
  <2>1. b.phase = "new" /\ session' = [session EXCEPT ![c] = n]
        /\ UNCHANGED <<bus, handlers, pub, seen, taken, since>>
    BY <1>1 DEF Subscribe, RouteIds
  <2> HIDE DEF left
  <2>2. n \in SessionSet /\ n.active = <<>> /\ n.phase = "opening"
    BY <2>0, ListParts DEF SessionSet, NewSession
  <2> HIDE DEF n
  <2> QED
    BY <1>0, <2>1, <2>2, SessionMoves
<1>2. CASE OpenFails(c)
  <2> DEFINE n == [b EXCEPT !.phase = "undoing", !.left = <<>>]
  <2>1. b.phase = "opening" /\ session' = [session EXCEPT ![c] = n]
        /\ UNCHANGED <<bus, handlers, pub, seen, taken, since>>
    BY <1>2 DEF OpenFails
  <2>2. n \in SessionSet /\ n.phase = "undoing"
    BY <1>0, ListParts DEF SessionSet
  <2> HIDE DEF n
  <2> QED
    BY <1>0, <2>1, <2>2, SessionMoves
<1>3. CASE Subscribed(c)
  <2> DEFINE n == [b EXCEPT !.phase = "open"]
  <2>1. b.phase = "opening" /\ session' = [session EXCEPT ![c] = n]
        /\ UNCHANGED <<bus, handlers, pub, seen, taken, since>>
    BY <1>3 DEF Subscribed
  <2>2. n \in SessionSet /\ n.phase = "open" /\ n.active = b.active /\ n.filters = b.filters
    BY <1>0 DEF SessionSet
  <2> HIDE DEF n
  <2> QED
    BY <1>0, <2>1, <2>2, SessionMoves
<1>4. CASE Close(c)
  <2> DEFINE n == [b EXCEPT !.phase = "closing"]
  <2>1. b.phase = "open" /\ session' = [session EXCEPT ![c] = n]
        /\ UNCHANGED <<bus, handlers, pub, seen, taken, since>>
    BY <1>4 DEF Close
  <2>2. n \in SessionSet /\ n.phase = "closing"
    BY <1>0 DEF SessionSet
  <2> HIDE DEF n
  <2> QED
    BY <1>0, <2>1, <2>2, SessionMoves
<1>5. CASE CloseRoute(c)
  <2> DEFINE n == [b EXCEPT !.active = Tail(@)]
  <2>1. /\ b.phase \in {"closing", "undoing"} /\ b.active # <<>> /\ session' = [session EXCEPT ![c] = n]
        /\ handlers' = [handlers EXCEPT ![Head(b.active)] = @ \ {c}]
        /\ UNCHANGED <<bus, pub, seen, taken, since>>
    BY <1>5 DEF CloseRoute
  <2>2. b.active \in Seq(DOMAIN Routes)
    BY <1>0 DEF SessionSet
  <2>3. Tail(b.active) \in Seq(DOMAIN Routes)
    BY <2>1, <2>2, ListParts
  <2>4. n \in SessionSet /\ n.phase = b.phase
    BY <1>0, <2>3 DEF SessionSet
  <2>5. handlers' \in [DOMAIN Routes -> SUBSET Sessions]
    BY <1>0, <2>1
  <2>6. \A s \in Sessions : s # c => \A r \in DOMAIN Routes : s \in handlers[r] => s \in handlers'[r]
    BY <1>0, <2>1
  <2> HIDE DEF n
  <2> QED
    BY <1>0, <2>1, <2>4, <2>5, <2>6, SessionMoves
<1>6. CASE Closed(c)
  <2> DEFINE n == [b EXCEPT !.phase = "closed"]
  <2>1. /\ b.phase \in {"closing", "undoing"} /\ session' = [session EXCEPT ![c] = n]
        /\ seen' = IF b.phase = "closing" THEN [seen EXCEPT ![c] = <<>>] ELSE seen
        /\ UNCHANGED <<bus, handlers, pub, taken, since>>
    BY <1>6 DEF Closed
  <2>2. n \in SessionSet /\ n.phase = "closed"
    BY <1>0 DEF SessionSet
  <2>3. seen' \in [Sessions -> Seq(Events)] /\ \A s \in Sessions : s # c => seen'[s] = seen[s]
    BY <1>0, <2>1
  <2> HIDE DEF n
  <2> QED
    BY <1>0, <2>1, <2>2, <2>3, SessionMoves
<1> QED
  BY <1>1, <1>2, <1>3, <1>4, <1>5, <1>6

\* Opening a route registers the handler under the bus's lock: what the route
\* stored before is not the session's to take.
LEMMA OpeningKeeps ==
    ASSUME SessionsInv, NEW c \in Sessions, OpenRoute(c)
    PROVE  SessionsInv'
<1> DEFINE b == session[c]
           r == Head(b.left)
           n == [b EXCEPT !.left = Tail(@), !.active = Append(@, r)]
<1>0. /\ b \in SessionSet /\ b.phase = "opening" /\ b.left \in Seq(DOMAIN Routes) /\ b.left # <<>>
      /\ b.active \in Seq(DOMAIN Routes)
  BY DEF SessionsInv, RouterTypes, OpenRoute, SessionSet
<1>1. r \in DOMAIN Routes /\ Tail(b.left) \in Seq(DOMAIN Routes) /\ bus[r] \in Seq(Events)
  <2>1. r \in DOMAIN Routes /\ Tail(b.left) \in Seq(DOMAIN Routes)
    BY <1>0, ListParts
  <2> QED
    BY <2>1 DEF SessionsInv, RouterTypes
<1>2. /\ handlers' = [handlers EXCEPT ![r] = @ \cup {c}] /\ since' = [since EXCEPT ![c][r] = Len(bus[r])]
      /\ session' = [session EXCEPT ![c] = n]
      /\ UNCHANGED <<bus, pub, seen, taken>>
  BY DEF OpenRoute
<1> HIDE DEF r
<1>3. Append(b.active, r) \in Seq(DOMAIN Routes) /\ Len(Append(b.active, r)) = Len(b.active) + 1
      /\ Append(b.active, r)[Len(b.active) + 1] = r
      /\ \A i \in 1..Len(b.active) : Append(b.active, r)[i] = b.active[i]
  BY <1>0, <1>1
<1>4. n \in SessionSet /\ n.phase = "opening" /\ n.active = Append(b.active, r) /\ n.filters = b.filters
  BY <1>0, <1>1, <1>3 DEF SessionSet
<1> HIDE DEF n
<1>5. session'[c] = n /\ \A s \in Sessions : s # c => session'[s] = session[s]
  BY <1>2 DEF SessionsInv, RouterTypes
<1>6. /\ handlers' \in [DOMAIN Routes -> SUBSET Sessions] /\ c \in handlers'[r]
      /\ \A x \in DOMAIN Routes : handlers[x] \subseteq handlers'[x]
  BY <1>1, <1>2 DEF SessionsInv, RouterTypes
<1>7. /\ since' \in [Sessions -> [DOMAIN Routes -> Nat]] /\ since'[c][r] = Len(bus[r])
      /\ \A s \in Sessions, x \in DOMAIN Routes : s # c \/ x # r => since'[s][x] = since[s][x]
  BY <1>1, <1>2 DEF SessionsInv, RouterTypes
<1>8. RouterTypes'
  BY <1>2, <1>4, <1>5, <1>6, <1>7 DEF SessionsInv, RouterTypes
<1>9. WindowsKept'
  <2> SUFFICES ASSUME NEW s \in Sessions
               PROVE  Apart(taken[s]) /\ (session'[s].phase # "closed" => Remembers(seen[s], taken[s]))
    BY <1>2 DEF WindowsKept
  <2> QED
    BY <1>0, <1>5 DEF SessionsInv, WindowsKept
<1>10. ASSUME NEW s \in Sessions, NEW x \in DOMAIN Routes, ReachedAt(s, x) \/ (s = c /\ x = r)
       PROVE  Reached(s, session'[s].filters, handlers'[x], bus[x], since'[s][x], taken[s], pub)
  <2>1. session'[s].filters = session[s].filters
    BY <1>4, <1>5
  <2>2. CASE s = c /\ x = r
    <3>1. since'[s][x] = Len(bus[x]) /\ Len(bus[x]) \in Nat /\ s \in handlers'[x]
      BY <1>1, <1>6, <1>7, <2>2
    <3>2. ~ \E k \in since'[s][x] + 1 .. Len(bus[x]) : TRUE
      BY <3>1
    <3> QED
      BY <3>1, <3>2 DEF Reached
  <2>3. CASE ~(s = c /\ x = r)
    <3>1. ReachedAt(s, x) /\ since'[s][x] = since[s][x] /\ s \in handlers'[x]
      BY <1>6, <1>7, <1>10, <2>3 DEF ReachedAt, Reached
    <3> QED
      BY <2>1, <3>1 DEF ReachedAt, Reached
  <2> QED
    BY <2>2, <2>3
<1>11. AllReached'
  <2> SUFFICES ASSUME NEW s \in Sessions, session'[s].phase \in {"opening", "open"},
                      NEW i \in 1..Len(session'[s].active)
               PROVE  Reached(s, session'[s].filters, handlers'[session'[s].active[i]],
                              bus[session'[s].active[i]], since'[s][session'[s].active[i]], taken[s], pub)
    BY <1>2 DEF AllReached, ReachedAt
  <2>1. CASE s # c
    <3>1. session'[s] = session[s]
      BY <1>5, <2>1
    <3> QED
      BY <1>10, <3>1, ReachedTypes DEF SessionsInv, AllReached
  <2>2. CASE s = c /\ i <= Len(b.active)
    <3>1. session'[s].active[i] = b.active[i] /\ i \in 1..Len(b.active)
      BY <1>0, <1>3, <1>4, <1>5, <2>2
    <3>2. ReachedAt(s, b.active[i]) /\ b.active[i] \in DOMAIN Routes
      BY <1>0, <2>2, <3>1, ReachedTypes DEF SessionsInv, AllReached
    <3> QED
      BY <1>10, <3>1, <3>2
  <2>3. CASE s = c /\ i > Len(b.active)
    <3>1. session'[s].active[i] = r
      BY <1>0, <1>3, <1>4, <1>5, <2>3
    <3> QED
      BY <1>1, <1>10, <2>3, <3>1
  <2> QED
    BY <1>0, <2>1, <2>2, <2>3
<1> QED
  BY <1>8, <1>9, <1>11 DEF SessionsInv

\* Every step of the publishers and of the sessions keeps the invariant.
LEMMA SessionsInductive == SessionsInv /\ [LiveNext]_routerVars => SessionsInv'
<1> SUFFICES ASSUME SessionsInv, [LiveNext]_routerVars PROVE SessionsInv'
  OBVIOUS
<1>1. CASE PublishStep(Publishers, Posted)
  <2>1. PICK p \in Publishers :
            \/ \E e \in Posted : Begin(p, e)
            \/ SkipRoute(p) \/ AbortPublish(p) \/ RefuseAtRoute(p) \/ StoreAtRoute(p)
            \/ \E s \in Sessions : CallHandler(p, s)
            \/ SubscriberRuns(p) \/ RouteAccepted(p) \/ ReportPublish(p)
    BY <1>1 DEF PublishStep
  <2> QED
    BY <2>1, PublishersKeep, StoringKeeps, CallingKeeps
<1>2. CASE LiveStep(LiveRequests, LiveChoices)
  <2>1. PICK s \in Sessions :
            \/ \E filters \in LiveRequests, allowed \in LiveChoices : Subscribe(s, filters, allowed)
            \/ OpenRoute(s) \/ OpenFails(s) \/ Subscribed(s)
            \/ Close(s) \/ CloseRoute(s) \/ Closed(s)
    BY <1>2 DEF LiveStep
  <2> QED
    BY <2>1, SessionsKeep, OpeningKeeps
<1>3. CASE UNCHANGED routerVars
  <2>1. UNCHANGED <<bus, handlers, pub, session, seen, taken, since>>
    BY <1>3 DEF routerVars
  <2> QED
    BY <2>1 DEF SessionsInv, RouterTypes, WindowsKept, AllReached, ReachedAt
<1> QED
  BY <1>1, <1>2, <1>3 DEF LiveNext

\* Whichever routes bring the copies and in whatever order the handlers run, a
\* standing session takes an event again only after MaxSeen others, for any
\* number of routes, sessions and publishers (live_routes.rs, SeenEvents::insert).
THEOREM SessionsTakeOnce == LiveSpec => []OncePerWindow
<1>1. SessionsInv => OncePerWindow
  <2> SUFFICES ASSUME SessionsInv, NEW s \in Sessions
               PROVE  \A i, j \in DOMAIN taken[s] :
                          i < j /\ taken[s][i] = taken[s][j] => j - i > MaxSeen
    BY DEF OncePerWindow
  <2>1. taken[s] \in Seq(Events) /\ Apart(taken[s])
    BY DEF SessionsInv, RouterTypes, WindowsKept
  <2>2. DOMAIN taken[s] = 1..Len(taken[s])
    BY <2>1
  <2> QED
    BY <2>1, <2>2 DEF Apart
<1> QED
  BY <1>1, SessionsInitially, SessionsInductive, PTL DEF LiveSpec

\* Once every publisher is done, an open session has taken every matching event
\* that its routes stored after it registered there, although handlers run
\* outside the lock and routes open one after another (memory.rs, publish;
\* live_routes.rs, subscribe_routes_with_policy).
THEOREM SessionsMissNothing == LiveSpec => []NoneMissed
<1>1. SessionsInv => NoneMissed
  <2> SUFFICES ASSUME SessionsInv, \A p \in Publishers : pub[p].phase = "idle",
                      NEW s \in Sessions, session[s].phase = "open", NEW i \in DOMAIN session[s].active,
                      NEW k \in since[s][session[s].active[i]] + 1 .. Len(bus[session[s].active[i]]),
                      FiltersMatch(session[s].filters, bus[session[s].active[i]][k])
               PROVE  Contains(taken[s], bus[session[s].active[i]][k])
    BY DEF NoneMissed
  <2>1. session[s].active \in Seq(DOMAIN Routes)
    BY DEF SessionsInv, RouterTypes, SessionSet
  <2>2. i \in 1..Len(session[s].active)
    BY <2>1
  <2>3. ReachedAt(s, session[s].active[i])
    BY <2>2 DEF SessionsInv, AllReached
  <2> QED
    BY <2>3 DEF ReachedAt, Reached, Due, Has, Contains
<1> QED
  BY <1>1, SessionsInitially, SessionsInductive, PTL DEF LiveSpec
=============================================================================
