------------------------ MODULE HistoryCursorProofs ------------------------
(***************************************************************************)
(* Proofs about HistoryCursor, for every history, every choice of limits   *)
(* and every order of deliveries.                                          *)
(***************************************************************************)
EXTENDS HistoryCursor, FiniteSetTheorems, TLAPS

\* oldest is the least stamp of the events the page has seen.
OldestIsLeast ==
    /\ page.oldest = None <=> page.seen = {}
    /\ page.seen # {} => \E e \in page.seen : stamp[e] = page.oldest
    /\ \A e \in page.seen : page.oldest <= stamp[e]

\* An active page: what the source owes it and what it has recorded.
PageInv ==
    /\ answer \in Answers
    /\ page.seen \subseteq answer
    /\ page.seen \subseteq observed
    /\ ~page.overflow => page.seen = sent
    /\ page.overflow => Cardinality(page.seen) = MaxLimit
    /\ OldestIsLeast

\* The inductive invariant.
CursorInv ==
    /\ TypeOK
    /\ cursor.until \in Since..FirstUntil
    /\ Active => PageInv /\ ~cursor.stopped
    /\ ~Active => page = NoPage /\ answer = {} /\ sent = {}
    /\ status = "Limited" => cursor.stopped
    /\ NothingSkipped
    /\ ExhaustedIsComplete
    /\ LimitedOnlyAtCap

-----------------------------------------------------------------------------
(* The source's answers *)

LEMMA Bounds ==
    /\ Stamps \subseteq Nat
    /\ FirstUntil \in Nat /\ Since \in Nat /\ Since <= FirstUntil
    /\ MaxLimit \in Nat /\ InitialLimit \in 1..MaxLimit /\ MaxPartials \in Nat
BY CursorAssumption

LEMMA StampsAreNumbers ==
    ASSUME TypeOK
    PROVE  \A e \in Events : stamp[e] \in Nat
<1>1. stamp \in [Events -> Stamps]
  BY DEF TypeOK
<1> QED
  BY <1>1, Bounds

LEMMA FiniteParts ==
    ASSUME TypeOK, NEW a \in SUBSET Events
    PROVE  IsFiniteSet(a) /\ Cardinality(a) \in Nat
BY CursorAssumption, FS_Subset, FS_CardinalityType

\* An answer shorter than the limit is everything the filter matches.
LEMMA ShortAnswerIsAll ==
    ASSUME TypeOK, answer \in Answers, Cardinality(answer) < cursor.limit
    PROVE  answer = InRange
<1>1. answer \in SUBSET Events
  BY DEF TypeOK
<1>2. Cardinality(answer) \in Nat
  BY <1>1, FiniteParts
<1> QED
  BY <1>2, CursorAssumption DEF Answers, TypeOK

\* An answer leaves out nothing newer than one of its members.
LEMMA AnswerIsNewest ==
    ASSUME TypeOK, answer \in Answers, NEW e \in answer, NEW f \in InRange, stamp[f] > stamp[e]
    PROVE  f \in answer
<1>0. e \in Events /\ f \in Events
  BY DEF TypeOK, InRange
<1>1. stamp[e] \in Nat /\ stamp[f] \in Nat
  BY <1>0, StampsAreNumbers
<1> QED
  BY <1>1 DEF Answers

\* What the query wants and the cursor has passed is observed; the rest is in
\* range of the current filter.
LEMMA WantedSplit ==
    ASSUME CursorInv, NEW e \in Wanted, e \notin observed
    PROVE  e \in InRange
<1>1. stamp[e] \in Nat /\ stamp[e] \in Since..FirstUntil /\ e \in stored
  BY StampsAreNumbers DEF CursorInv, TypeOK, Wanted
<1>2. ~(stamp[e] > cursor.until)
  BY DEF CursorInv, NothingSkipped
<1> QED
  BY <1>1, <1>2, CursorAssumption DEF InRange, CursorInv, TypeOK

-----------------------------------------------------------------------------
(* Steps that begin a page or record a delivery *)

LEMMA InitEstablishes == Init => CursorInv
<1> SUFFICES ASSUME Init PROVE CursorInv
  OBVIOUS
<1>1. TypeOK
  BY CursorAssumption DEF Init, TypeOK, NoPage, None
<1>2. ~Active /\ page = NoPage /\ cursor.until = FirstUntil /\ status = "None"
  BY DEF Init, Active, NoPage, None
<1>3. \A e \in Wanted : ~(stamp[e] > FirstUntil)
  BY <1>1, StampsAreNumbers, CursorAssumption DEF Wanted, TypeOK
<1> QED
  BY <1>1, <1>2, <1>3, Bounds
     DEF Init, CursorInv, NothingSkipped, ExhaustedIsComplete, LimitedOnlyAtCap

LEMMA BeginPagePreserves ==
    ASSUME CursorInv, BeginPage
    PROVE  CursorInv'
<1> USE DEF BeginPage
<1>1. /\ stamp' = stamp /\ stored' = stored /\ observed' = observed /\ status' = status
      /\ cursor'.until = cursor.until /\ cursor'.limit = cursor.limit
      /\ cursor'.stopped = cursor.stopped
  BY DEF source, CursorInv, TypeOK
<1>2. InRange' = InRange /\ Answers' = Answers /\ Wanted' = Wanted
  BY <1>1 DEF InRange, Answers, Wanted
<1>3. page' = [token |-> cursor.generation + 1, seen |-> {}, oldest |-> None, overflow |-> FALSE]
  BY DEF NoPage
<1>4. answer' \in Answers /\ answer' \subseteq stored
  BY DEF Answers, InRange
<1>5. TypeOK'
  BY <1>1, <1>3, <1>4 DEF CursorInv, TypeOK, source
<1>6. Active' /\ ~cursor.stopped'
  BY <1>1, <1>3 DEF Active, None, CursorInv, TypeOK
<1>7. PageInv'
  BY <1>2, <1>3, <1>4 DEF PageInv, OldestIsLeast
<1>8. NothingSkipped' /\ ExhaustedIsComplete' /\ LimitedOnlyAtCap'
  BY <1>1, <1>2 DEF CursorInv, NothingSkipped, ExhaustedIsComplete, LimitedOnlyAtCap
<1> QED
  BY <1>1, <1>5, <1>6, <1>7, <1>8 DEF CursorInv

\* A delivery that observe() does not count changes nothing.
LEMMA IgnoredPreserves ==
    ASSUME CursorInv, UNCHANGED <<stamp, stored, answer, sent, cursor, page, observed, partials>>,
           status' = status \/ status' = "Stale"
    PROVE  CursorInv'
<1>1. /\ TypeOK' /\ PageInv' = PageInv /\ Active' = Active
      /\ Wanted' = Wanted /\ InRange' = InRange
  BY DEF CursorInv, TypeOK, PageInv, OldestIsLeast, Active, Wanted, InRange, Answers
<1> QED
  BY <1>1 DEF CursorInv, NothingSkipped, ExhaustedIsComplete, LimitedOnlyAtCap

LEMMA DeliverPreserves ==
    ASSUME CursorInv, NEW e \in Events, Deliver(e)
    PROVE  CursorInv'
<1>1. /\ stamp' = stamp /\ stored' = stored /\ status' = status /\ cursor' = cursor
      /\ answer' = answer /\ partials' = partials /\ sent' = sent \cup {e}
      /\ e \in answer /\ Active /\ PageInv /\ TypeOK
  BY DEF Deliver, source, CursorInv
<1>2. InRange' = InRange /\ Answers' = Answers /\ Wanted' = Wanted
  BY <1>1 DEF InRange, Answers, Wanted
<1>3. e \in InRange /\ stamp[e] \in Nat /\ stamp[e] \in Stamps
  BY <1>1, StampsAreNumbers DEF PageInv, Answers, TypeOK
<1>4. ASSUME TypeOK', page'.token = page.token, PageInv', observed \subseteq observed'
      PROVE  CursorInv'
  BY <1>1, <1>2, <1>4
     DEF CursorInv, Active, NothingSkipped, ExhaustedIsComplete, LimitedOnlyAtCap
<1>5. CASE Counts(page.token, e, TRUE) /\ Cardinality(page.seen) = MaxLimit
  <2>1. page' = [page EXCEPT !.overflow = TRUE] /\ observed' = observed
    BY <1>5 DEF Deliver, Observe
  <2>2. TypeOK'
    BY <1>1, <2>1 DEF TypeOK
  <2>3. PageInv'
    BY <1>1, <1>2, <1>5, <2>1 DEF PageInv, OldestIsLeast, TypeOK
  <2> QED
    BY <2>1, <2>2, <2>3, <1>4, <1>1 DEF TypeOK
<1>6. CASE Counts(page.token, e, TRUE) /\ Cardinality(page.seen) # MaxLimit
  <2> DEFINE oldest == IF page.oldest = None \/ stamp[e] < page.oldest THEN stamp[e] ELSE page.oldest
  <2>1. page' = [page EXCEPT !.seen = @ \cup {e}, !.oldest = oldest]
        /\ observed' = observed \cup {e}
    BY <1>6 DEF Deliver, Observe
  <2>2. oldest \in Stamps \cup {None} /\ oldest # None
    BY <1>1, <1>3 DEF TypeOK, None
  <2> HIDE DEF oldest
  <2>3. TypeOK'
    BY <1>1, <2>1, <2>2 DEF TypeOK
  <2>4. /\ page'.seen = page.seen \cup {e} /\ page'.oldest = oldest
        /\ page'.overflow = page.overflow /\ page'.token = page.token
    BY <1>1, <2>1 DEF TypeOK
  <2>5. ~page.overflow
    BY <1>1, <1>6 DEF PageInv
  <2>6. OldestIsLeast'
    <3>1. \A f \in page.seen : stamp[f] \in Nat
      BY <1>1, StampsAreNumbers DEF TypeOK
    <3>2. page.oldest = None \/ page.oldest \in Nat
      BY <1>1, Bounds DEF TypeOK
    <3>3. \A f \in page.seen \cup {e} : oldest <= stamp[f]
      BY <1>1, <1>3, <3>1, <3>2 DEF oldest, PageInv, OldestIsLeast
    <3>4. \E f \in page.seen \cup {e} : stamp[f] = oldest
      BY <1>1 DEF oldest, PageInv, OldestIsLeast
    <3> QED
      BY <1>1, <2>2, <2>4, <3>3, <3>4 DEF OldestIsLeast
  <2>7. PageInv'
    BY <1>1, <1>2, <2>1, <2>4, <2>5, <2>6 DEF PageInv
  <2> QED
    BY <2>1, <2>3, <2>4, <2>7, <1>4
<1>7. CASE ~Counts(page.token, e, TRUE)
  <2>1. page' = page /\ observed' = observed
    BY <1>7 DEF Deliver, Observe
  <2>2. e \in page.seen
    BY <1>1, <1>3, <1>7 DEF Counts, InRange
  <2>3. TypeOK'
    BY <1>1, <2>1 DEF TypeOK
  <2>4. PageInv'
    BY <1>1, <1>2, <2>1, <2>2 DEF PageInv, OldestIsLeast
  <2> QED
    BY <2>1, <2>3, <2>4, <1>4
<1> QED
  BY <1>5, <1>6, <1>7

\* Deliveries under an old token, or from another source, are not counted.
LEMMA StrangersPreserve ==
    ASSUME CursorInv, NEW e \in Events, NEW token,
           DeliverLate(token, e) \/ DeliverForeign(e)
    PROVE  CursorInv'
<1>1. UNCHANGED <<stamp, stored, answer, sent, cursor, page, observed, partials, status>>
  BY DEF DeliverLate, DeliverForeign, Observe, Counts, source
<1> QED
  BY <1>1, IgnoredPreserves

-----------------------------------------------------------------------------
(* finish_page *)

\* finish_page preserves the invariant whenever everything newer than the
\* `until` it sets is observed and the outcome it returns is justified.
LEMMA FinishPreserves ==
    ASSUME CursorInv, NEW until \in Since..cursor.until, NEW limit \in 1..MaxLimit,
           NEW stopped \in BOOLEAN,
           NEW outcome \in {"Advanced", "Retry", "Exhausted", "Limited"},
           Finish(until, limit, stopped, outcome), partials' \in 0..MaxPartials,
           \A e \in Wanted : stamp[e] > until => e \in observed,
           outcome = "Exhausted" => Wanted \subseteq observed,
           outcome = "Limited" =>
               stopped /\ until = cursor.until /\ Cardinality(InRange) >= MaxLimit
    PROVE  CursorInv'
<1>1. /\ stamp' = stamp /\ stored' = stored /\ observed' = observed /\ status' = outcome
      /\ page' = NoPage /\ answer' = {} /\ sent' = {}
  BY DEF Finish, source
<1>2. /\ cursor'.until = until /\ cursor'.limit = limit /\ cursor'.stopped = stopped
      /\ cursor' \in [until : Nat, limit : 1..MaxLimit, generation : Nat, stopped : BOOLEAN]
  <2>1. until \in Nat
    BY Bounds DEF CursorInv, TypeOK
  <2> QED
    BY <2>1 DEF Finish, CursorInv, TypeOK
<1>3. TypeOK'
  BY <1>1, <1>2 DEF CursorInv, TypeOK, NoPage
<1>4. ~Active'
  BY <1>1 DEF Active, NoPage
<1>5. Wanted' = Wanted /\ (until = cursor.until => InRange' = InRange)
  BY <1>1, <1>2 DEF Wanted, InRange
<1>6. NothingSkipped' /\ ExhaustedIsComplete' /\ LimitedOnlyAtCap'
  BY <1>1, <1>2, <1>5 DEF NothingSkipped, ExhaustedIsComplete, LimitedOnlyAtCap
<1>7. cursor'.until \in Since..FirstUntil
  BY <1>2, Bounds DEF CursorInv, TypeOK
<1> QED
  BY <1>1, <1>2, <1>3, <1>4, <1>6, <1>7 DEF CursorInv

\* A finished page without overflow recorded the whole answer.
LEMMA CompletedPage ==
    ASSUME CursorInv, Active, Completed
    PROVE  page.seen = answer
BY DEF CursorInv, PageInv, Completed

\* The filter of an active page.
LEMMA CurrentFilter ==
    ASSUME CursorInv
    PROVE  /\ cursor.until \in Nat /\ cursor.until \in Since..cursor.until
           /\ cursor.limit \in 1..MaxLimit /\ cursor.limit \in Nat
           /\ partials \in 0..MaxPartials
           /\ \A e \in Wanted : stamp[e] > cursor.until => e \in observed
BY Bounds DEF CursorInv, TypeOK, NothingSkipped

\* The page never records more than the filter matches.
LEMMA SeenInRange ==
    ASSUME CursorInv, Active
    PROVE  Cardinality(page.seen) \in Nat /\ Cardinality(InRange) \in Nat
           /\ Cardinality(page.seen) <= Cardinality(InRange)
<1>1. page.seen \in SUBSET InRange /\ InRange \in SUBSET Events
  BY DEF CursorInv, PageInv, Answers, InRange, TypeOK
<1>2. IsFiniteSet(InRange) /\ Cardinality(InRange) \in Nat
  BY <1>1, FiniteParts DEF CursorInv
<1> QED
  BY <1>1, <1>2, FS_Subset, FS_CardinalityType

LEMMA FinishOverflowPreserves ==
    ASSUME CursorInv, FinishOverflow
    PROVE  CursorInv'
<1>1. /\ Active /\ page.overflow /\ partials' = partials
      /\ Finish(cursor.until, cursor.limit, TRUE, "Limited")
  BY DEF FinishOverflow, Stop, Finish
<1>2. Cardinality(page.seen) = MaxLimit
  BY <1>1 DEF CursorInv, PageInv
<1>3. Cardinality(InRange) >= MaxLimit
  BY <1>1, <1>2, SeenInRange
<1> QED
  BY <1>1, <1>3, CurrentFilter, FinishPreserves

LEMMA FinishPartialPreserves ==
    ASSUME CursorInv, FinishPartial
    PROVE  CursorInv'
<1>1. partials' \in 0..MaxPartials
  BY CurrentFilter, Bounds DEF FinishPartial
<1> QED
  BY <1>1, CurrentFilter, FinishPreserves DEF FinishPartial

\* The page reached below `until`: its answer left out nothing newer than its
\* oldest event.
LEMMA FinishOlderPreserves ==
    ASSUME CursorInv, FinishOlder
    PROVE  CursorInv'
<1>1. /\ Active /\ Completed /\ page.oldest # None /\ page.oldest < cursor.until
      /\ Finish(page.oldest, InitialLimit, FALSE, "Advanced") /\ partials' = partials
  BY DEF FinishOlder, StepBack, Finish
<1>2. page.seen = answer /\ PageInv /\ TypeOK
  BY <1>1, CompletedPage DEF CursorInv
<1>3. PICK o \in answer : stamp[o] = page.oldest
  BY <1>1, <1>2 DEF PageInv, OldestIsLeast
<1>4. page.oldest \in Since..cursor.until
  BY <1>2, <1>3 DEF PageInv, Answers, InRange
<1>5. ASSUME NEW e \in Wanted, stamp[e] > page.oldest
      PROVE  e \in observed
  <2> SUFFICES ASSUME e \notin observed PROVE FALSE
    OBVIOUS
  <2>1. e \in InRange
    BY WantedSplit
  <2>2. e \in answer
    BY <1>2, <1>3, <1>5, <2>1, AnswerIsNewest DEF PageInv
  <2> QED
    BY <1>2, <2>2 DEF PageInv
<1> QED
  BY <1>1, <1>4, <1>5, Bounds, CurrentFilter, FinishPreserves

LEMMA FinishGrowPreserves ==
    ASSUME CursorInv, FinishGrow
    PROVE  CursorInv'
<1> DEFINE limit == IF 2 * cursor.limit < MaxLimit THEN 2 * cursor.limit ELSE MaxLimit
<1>1. limit \in 1..MaxLimit
  BY CurrentFilter, Bounds
<1>2. Finish(cursor.until, limit, FALSE, "Advanced") /\ partials' = partials
  BY DEF FinishGrow
<1> HIDE DEF limit
<1> QED
  BY <1>1, <1>2, CurrentFilter, FinishPreserves

LEMMA FinishDensePreserves ==
    ASSUME CursorInv, FinishDense
    PROVE  CursorInv'
<1>1. /\ Active /\ partials' = partials /\ Cardinality(page.seen) >= MaxLimit
      /\ Finish(cursor.until, cursor.limit, TRUE, "Limited")
  BY DEF FinishDense, Stop, Finish, Saturated
<1>2. Cardinality(InRange) >= MaxLimit
  BY <1>1, SeenInRange, Bounds
<1> QED
  BY <1>1, <1>2, CurrentFilter, FinishPreserves

\* A page that is not saturated holds everything the filter matches.
LEMMA UnsaturatedIsAll ==
    ASSUME CursorInv, Active, Completed, ~Saturated
    PROVE  \A e \in Wanted : e \in observed
<1>1. page.seen = answer /\ PageInv /\ TypeOK
  BY CompletedPage DEF CursorInv
<1>2. Cardinality(answer) < cursor.limit
  BY <1>1, SeenInRange, CurrentFilter DEF Saturated
<1>3. answer = InRange
  BY <1>1, <1>2, ShortAnswerIsAll DEF PageInv
<1> QED
  BY <1>1, <1>3, WantedSplit DEF PageInv

LEMMA FinishSecondPreserves ==
    ASSUME CursorInv, FinishSecond \/ FinishLastSecond
    PROVE  CursorInv'
<1>1. /\ Active /\ Completed /\ ~Saturated /\ partials' = partials
      /\ \/ /\ ~LastSecond
            /\ Finish(cursor.until - 1, InitialLimit, FALSE, "Advanced")
         \/ Finish(cursor.until, cursor.limit, TRUE, "Exhausted")
  BY DEF FinishSecond, FinishLastSecond, StepBack, Stop, Finish
<1>2. \A e \in Wanted : e \in observed
  BY <1>1, UnsaturatedIsAll
<1>3. ~LastSecond => cursor.until - 1 \in Since..cursor.until
  BY CurrentFilter, Bounds DEF LastSecond
<1> QED
  BY <1>1, <1>2, <1>3, Bounds, CurrentFilter, FinishPreserves

LEMMA FinishEmptyPreserves ==
    ASSUME CursorInv, FinishEmpty
    PROVE  CursorInv'
<1>1. /\ Active /\ Completed /\ page.oldest = None /\ partials' = partials
      /\ Finish(cursor.until, cursor.limit, TRUE, "Exhausted")
  BY DEF FinishEmpty, Stop, Finish
<1>2. page.seen = {}
  BY <1>1 DEF CursorInv, PageInv, OldestIsLeast
<1>3. ~Saturated
  BY <1>2, FS_EmptySet, CurrentFilter DEF Saturated
<1>4. \A e \in Wanted : e \in observed
  BY <1>1, <1>3, UnsaturatedIsAll
<1> QED
  BY <1>1, <1>4, CurrentFilter, FinishPreserves

LEMMA CancelPreserves ==
    ASSUME CursorInv, Cancel
    PROVE  CursorInv'
<1>1. /\ stamp' = stamp /\ stored' = stored /\ observed' = observed /\ status' = status
      /\ page' = NoPage /\ answer' = {} /\ sent' = {} /\ partials' = partials
      /\ cursor'.until = cursor.until /\ cursor'.limit = cursor.limit /\ cursor'.stopped
  BY DEF Cancel, source, CursorInv, TypeOK
<1>2. TypeOK'
  <2>1. cursor' \in [until : Nat, limit : 1..MaxLimit, generation : Nat, stopped : BOOLEAN]
    BY DEF Cancel, CursorInv, TypeOK
  <2> QED
    BY <1>1, <2>1 DEF CursorInv, TypeOK, NoPage
<1>3. ~Active' /\ Wanted' = Wanted /\ InRange' = InRange
  BY <1>1 DEF Active, NoPage, Wanted, InRange
<1> QED
  BY <1>1, <1>2, <1>3
     DEF CursorInv, NothingSkipped, ExhaustedIsComplete, LimitedOnlyAtCap

-----------------------------------------------------------------------------
(* The invariant holds, and what follows from it *)

\* CursorInv, the strengthening of the three safety properties of finish_page,
\* is an invariant of the cursor and its callbacks.
THEOREM CursorInvHolds == Spec => []CursorInv
<1>1. CursorInv /\ [Next]_vars => CursorInv'
  <2> SUFFICES ASSUME CursorInv, [Next]_vars PROVE CursorInv'
    OBVIOUS
  <2>1. CASE BeginPage
    BY <2>1, BeginPagePreserves
  <2>2. CASE \E e \in Events : Deliver(e) \/ DeliverForeign(e)
    BY <2>2, DeliverPreserves, StrangersPreserve
  <2>3. CASE \E token \in Tokens, e \in Events : DeliverLate(token, e)
    BY <2>3, StrangersPreserve
  <2>4. CASE FinishOverflow \/ FinishPartial
    BY <2>4, FinishOverflowPreserves, FinishPartialPreserves
  <2>5. CASE FinishComplete
    BY <2>5, FinishOlderPreserves, FinishGrowPreserves, FinishDensePreserves,
       FinishSecondPreserves, FinishEmptyPreserves DEF FinishComplete
  <2>6. CASE \E token \in Tokens : FinishStale(token)
    BY <2>6, IgnoredPreserves DEF FinishStale, source
  <2>7. CASE Cancel
    BY <2>7, CancelPreserves
  <2>8. CASE UNCHANGED vars
    BY <2>8, IgnoredPreserves DEF vars
  <2> QED
    BY <2>1, <2>2, <2>3, <2>4, <2>5, <2>6, <2>7, <2>8 DEF Next
<1> QED
  BY <1>1, InitEstablishes, PTL DEF Spec

\* For every history and every order of callbacks, the cursor never moves
\* `until` past an event of the source that observe() has not reported.
THEOREM CursorSkipsNothing == Spec => []NothingSkipped
BY CursorInvHolds, PTL DEF CursorInv

\* finish_page says Exhausted only after every event the filter matches at this
\* source was observed.
THEOREM ExhaustionIsComplete == Spec => []ExhaustedIsComplete
BY CursorInvHolds, PTL DEF CursorInv

\* finish_page says Limited only when max_limit events match the page's filter.
THEOREM LimitedAtCap == Spec => []LimitedOnlyAtCap
BY CursorInvHolds, PTL DEF CursorInv
=============================================================================
