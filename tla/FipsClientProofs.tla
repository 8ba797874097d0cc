-------------------------- MODULE FipsClientProofs --------------------------
(***************************************************************************)
(* Proofs about the receiving side of a FIPS client (FipsClient).          *)
(***************************************************************************)
EXTENDS FipsClient, FilterProofs, SequenceTheorems

-----------------------------------------------------------------------------
(* LocalDelivery *)

DeliverySet ==
    [sender : BOOLEAN, receiver : BOOLEAN, channel : Seq(Events), pending : Seq(Events),
     delivered : Seq(Events), status : {"active", "closed", "lagged"}]

\* Equal bodies are more than MaxDelivered places apart.
Spaced(q) == \A i, j \in DOMAIN q : i < j /\ q[i] = q[j] => j - i > MaxDelivered

\* What the application gets of d after it has received g.
Flow(d, g) == IF d.receiver THEN g \o d.channel \o d.pending ELSE g

\* While there is a receiver, d knows the newest bodies handed to the channel.
Delivering(d, g) ==
    /\ d \in DeliverySet /\ g \in Seq(Events) /\ Len(d.channel) <= MaxReplay
    /\ ~d.receiver => d.channel = <<>>
    /\ d.receiver => d.delivered = Newest(g \o d.channel, MaxDelivered)
    /\ Spaced(Flow(d, g))

\* t goes on where s ends.
Continues(s, t) ==
    /\ s \in Seq(Events) /\ t \in Seq(Events) /\ Len(s) <= Len(t)
    /\ \A i \in 1..Len(s) : t[i] = s[i]

\* d became next, losing nothing.
Advances(d, next, g) ==
    /\ Delivering(next, g) /\ next.receiver = d.receiver
    /\ Continues(Flow(d, g), Flow(next, g))

LEMMA Associative ==
    \A p, q, r \in Seq(Events) : (p \o q) \o r = p \o (q \o r)
BY ConcatAssociative

LEMMA Lesser ==
    ASSUME NEW a \in Int, NEW b \in Int
    PROVE  Min({a, b}) \in {a, b} /\ Min({a, b}) <= a /\ Min({a, b}) <= b
<1>1. \E x \in {a, b} : \A y \in {a, b} : x <= y
  BY a <= b \/ b <= a
<1>2. Min({a, b}) \in {a, b} /\ \A y \in {a, b} : Min({a, b}) <= y
  BY <1>1 DEF Min
<1> QED
  BY <1>2

LEMMA NewestType ==
    ASSUME NEW V, NEW queue \in Seq(V), NEW limit \in Nat
    PROVE  Newest(queue, limit) \in Seq(V)
<1>1. CASE Len(queue) > limit
  <2>1. Len(queue) - limit + 1 \in 1..(Len(queue) + 1) /\ Len(queue) \in Nat
    BY <1>1
  <2>2. SubSeq(queue, Len(queue) - limit + 1, Len(queue)) \in Seq(V)
    BY <2>1
  <2> QED
    BY <1>1, <2>2 DEF Newest
<1>2. CASE ~(Len(queue) > limit)
  BY <1>2 DEF Newest
<1> QED
  BY <1>1, <1>2

\* What is not among the newest is far behind.
LEMMA NewestFar ==
    ASSUME NEW queue \in Seq(Events), NEW e, ~Contains(Newest(queue, MaxDelivered), e),
           NEW i \in 1..Len(queue), queue[i] = e
    PROVE  Len(queue) + 1 - i > MaxDelivered
<1> DEFINE M == MaxDelivered
           n == Len(queue)
<1>1. M \in Nat /\ n \in Nat
  BY ClientAssumption
<1>2. SUFFICES ASSUME n + 1 - i <= M PROVE FALSE
  BY <1>1
<1>3. CASE n > M
  <2> DEFINE q == SubSeq(queue, n - M + 1, n)
  <2>1. q = Newest(queue, MaxDelivered)
    BY <1>3 DEF Newest
  <2>2. Len(q) = M /\ \A k \in 1..M : q[k] = queue[n - M + k]
    <3>1. n - M + 1 \in 1..(n + 1) /\ n \in (n - M + 1 - 1)..n
      BY <1>1, <1>3
    <3> QED
      BY <1>1, <1>3, <3>1
  <2>3. i - (n - M) \in 1..M /\ n - M + (i - (n - M)) = i
    BY <1>1, <1>2, <1>3
  <2> HIDE DEF q
  <2>4. q[i - (n - M)] = e
    BY <2>2, <2>3
  <2> QED
    BY <2>1, <2>2, <2>3, <2>4 DEF Contains
<1>4. CASE ~(n > M)
  BY <1>4 DEF Newest, Contains
<1> QED
  BY <1>3, <1>4

\* mark_delivered keeps the newest.
LEMMA MarkNewest ==
    ASSUME NEW h \in Seq(Events), NEW e \in Events
    PROVE  MarkDelivered(Newest(h, MaxDelivered), e) = Newest(Append(h, e), MaxDelivered)
<1> DEFINE M == MaxDelivered
           n == Len(h)
           q == Newest(h, M)
           a == Append(h, e)
<1>1. M \in Nat \ {0} /\ n \in Nat /\ a \in Seq(Events) /\ Len(a) = n + 1
  BY ClientAssumption
<1>2. CASE n < M
  BY <1>1, <1>2 DEF MarkDelivered, Newest
<1>3. CASE n = M
  <2>1. Newest(a, M) = SubSeq(a, 2, n + 1)
    BY <1>1, <1>3 DEF Newest
  <2>2. MarkDelivered(q, e) = Append(Tail(h), e)
    BY <1>1, <1>3 DEF MarkDelivered, Newest
  <2>3. SubSeq(a, 2, n + 1) = Append(Tail(h), e)
    BY <1>1, <1>3
  <2> QED
    BY <2>1, <2>2, <2>3
<1>4. CASE n > M
  <2>1. Newest(a, M) = SubSeq(a, n - M + 2, n + 1)
    BY <1>1, <1>4 DEF Newest
  <2>2. q = SubSeq(h, n - M + 1, n) /\ Len(q) = M
    BY <1>1, <1>4 DEF Newest
  <2>3. MarkDelivered(q, e) = Append(Tail(q), e)
    BY <2>2 DEF MarkDelivered
  <2>4. SubSeq(a, n - M + 2, n + 1) = Append(Tail(SubSeq(h, n - M + 1, n)), e)
    <3> DEFINE l == SubSeq(a, n - M + 2, n + 1)
               t == SubSeq(h, n - M + 1, n)
               r == Append(Tail(t), e)
    <3>1. l \in Seq(Events) /\ Len(l) = M /\ \A k \in 1..M : l[k] = a[n - M + 1 + k]
      BY <1>1, <1>4
    <3>2. t \in Seq(Events) /\ Len(t) = M /\ \A k \in 1..M : t[k] = h[n - M + k]
      BY <1>1, <1>4
    <3> HIDE DEF l, t
    <3>3. r \in Seq(Events) /\ Len(r) = M /\ r[M] = e /\ \A k \in 1..(M - 1) : r[k] = t[k + 1]
      BY <1>1, <3>2
    <3> HIDE DEF r
    <3>4. ASSUME NEW k \in 1..M PROVE l[k] = r[k]
      <4>1. CASE k = M
        BY <1>1, <3>1, <3>3, <4>1
      <4>2. CASE k # M
        <5>1. k \in 1..(M - 1) /\ k + 1 \in 1..M /\ n - M + (k + 1) = n - M + 1 + k
              /\ n - M + 1 + k \in 1..n
          BY <1>1, <1>4, <4>2
        <5>2. r[k] = t[k + 1] /\ t[k + 1] = h[n - M + (k + 1)]
          BY <3>2, <3>3, <5>1
        <5>3. l[k] = a[n - M + 1 + k] /\ a[n - M + 1 + k] = h[n - M + 1 + k]
          BY <3>1, <5>1
        <5> QED
          BY <5>1, <5>2, <5>3
      <4> QED
        BY <4>1, <4>2
    <3>5. l = r
      BY <3>1, <3>3, <3>4, SeqEqual
    <3> QED
      BY <3>5 DEF l, r, t
  <2> QED
    BY <2>1, <2>2, <2>3, <2>4
<1> QED
  BY <1>1, <1>2, <1>3, <1>4

\* Marking several bodies one by one.
LEMMA MarkSeveral ==
    ASSUME NEW h \in Seq(Events), NEW moved \in Seq(Events)
    PROVE  FoldLeft(MarkDelivered, Newest(h, MaxDelivered), moved) = Newest(h \o moved, MaxDelivered)
<1> DEFINE n == Len(moved)
           V == Seq(Events)
           x == Newest(h, MaxDelivered)
           F == [pair \in (1..n) \X V |-> MarkDelivered(pair[2], moved[pair[1]])]
           Folds(f) == f = [T \in SUBSET DOMAIN moved |-> IF T = {} THEN x
                                ELSE MarkDelivered(f[T \ {Max(T)}], moved[Max(T)])]
           result == CHOOSE f : Folds(f)
           Upto(i) == h \o SubSeq(moved, 1, i)
           G == {i \in 0..n : result[1..i] = Newest(Upto(i), MaxDelivered)}
<1>1. n \in Nat /\ DOMAIN moved = 1..n /\ x \in V
  <2>1. MaxDelivered \in Nat
    BY ClientAssumption
  <2>2. x \in V
    BY <2>1, NewestType
  <2> QED
    BY <2>2
<1>2. FoldLeft(MarkDelivered, x, moved) = result[DOMAIN moved]
  BY Zenon DEF FoldLeft, MapThenFoldSet
<1>3. ASSUME NEW i \in 1..n, NEW q \in V PROVE MarkDelivered(q, moved[i]) \in V
  <2>1. MaxDelivered \in Nat \ {0} /\ moved[i] \in Events
    BY <1>1, ClientAssumption
  <2>2. Len(q) = MaxDelivered => q # <<>>
    BY <2>1
  <2> QED
    BY <2>1, <2>2 DEF MarkDelivered
<1>4. F \in [(1..n) \X V -> V] /\ \A i \in 1..n, q \in V : F[<<i, q>>] = MarkDelivered(q, moved[i])
  BY <1>3
<1> HIDE DEF F, V, n, x
<1>5. \A T \in SUBSET (1..n) : T # {} => Max(T) \in T
  BY <1>1, GreatestIn
<1>6. PICK k : FoldFn(k, n, V, x, F)
  BY <1>1, <1>4, FoldExists
<1>7. Folds(k)
  <2>1. ASSUME NEW T \in SUBSET (1..n)
        PROVE  k[T] = IF T = {} THEN x ELSE MarkDelivered(k[T \ {Max(T)}], moved[Max(T)])
    <3>1. CASE T # {}
      <4>1. Max(T) \in 1..n /\ k[T \ {Max(T)}] \in V
        BY <1>5, <1>6, <3>1 DEF FoldFn
      <4> QED
        BY <1>4, <1>6, <3>1, <4>1 DEF FoldFn
    <3> QED
      BY <1>6, <3>1 DEF FoldFn
  <2> QED
    BY <1>1, <1>6, <2>1 DEF FoldFn
<1>8. Folds(result)
  BY <1>7, Zenon
<1> HIDE DEF result
<1>9. result[{}] = x /\ \A T \in SUBSET (1..n) :
            T # {} => result[T] = MarkDelivered(result[T \ {Max(T)}], moved[Max(T)])
  BY <1>1, <1>8
<1>10. \A T \in SUBSET (1..n) : T # {} /\ result[T \ {Max(T)}] \in V
            => result[T] = F[<<Max(T), result[T \ {Max(T)}]>>]
  <2>1. ASSUME NEW T \in SUBSET (1..n), T # {}, result[T \ {Max(T)}] \in V
        PROVE  result[T] = F[<<Max(T), result[T \ {Max(T)}]>>]
    <3>1. Max(T) \in 1..n
      BY <1>5, <2>1
    <3> QED
      BY <1>4, <1>9, <2>1, <3>1
  <2> QED
    BY <2>1
<1>11. FoldsOver(result, n, V, x, F)
  BY <1>9, <1>10 DEF FoldsOver
<1>12. Stepwise(result, n, V, x, F)
  BY <1>1, <1>4, <1>11, FoldSteps
<1>13. 0 \in G
  <2>1. Upto(0) = h
    OBVIOUS
  <2>2. result[1..0] = Newest(Upto(0), MaxDelivered)
    BY <1>12, <2>1 DEF x, Stepwise
  <2> HIDE DEF Upto
  <2> QED
    BY <1>1, <2>2
<1>14. ASSUME NEW i \in 0..n, i \in G, i < n PROVE i + 1 \in G
  <2>1. i + 1 \in 1..n /\ (i + 1) - 1 = i /\ i + 1 \in 0..n /\ moved[i + 1] \in Events
    BY <1>1, <1>14 DEF n
  <2>2. result[1..(i + 1)] = MarkDelivered(result[1..i], moved[i + 1])
    BY <1>4, <1>12, <2>1 DEF Stepwise
  <2>3. Upto(i) \in Seq(Events) /\ Append(Upto(i), moved[i + 1]) = Upto(i + 1)
    <3>1. SubSeq(moved, 1, i) \in Seq(Events)
      BY <1>1, <2>1 DEF n
    <3>2. SubSeq(moved, 1, i + 1) = Append(SubSeq(moved, 1, i), moved[i + 1])
      BY <1>1, <2>1 DEF n
    <3> DEFINE a == SubSeq(moved, 1, i)
    <3> HIDE DEF a
    <3>3. h \o Append(a, moved[i + 1]) = Append(h \o a, moved[i + 1]) /\ h \o a \in Seq(Events)
      BY <2>1, <3>1 DEF a
    <3> QED
      BY <3>2, <3>3 DEF a
  <2>4. MarkDelivered(Newest(Upto(i), MaxDelivered), moved[i + 1])
            = Newest(Append(Upto(i), moved[i + 1]), MaxDelivered)
    BY <2>1, <2>3, MarkNewest
  <2> HIDE DEF Upto
  <2> QED
    BY <1>14, <2>1, <2>2, <2>3, <2>4
<1> HIDE DEF G
<1>15. n \in G
  <2>1. \A i \in 0..n : i \in G /\ i < n => i + 1 \in G
    BY <1>14
  <2>2. \A i \in 0..n : i \in G
    BY <1>1, <1>13, <2>1, UpTo
  <2> QED
    BY <1>1, <2>2
<1>16. result[1..n] = Newest(h \o SubSeq(moved, 1, n), MaxDelivered) /\ SubSeq(moved, 1, n) = moved
  BY <1>15 DEF G, n
<1> QED
  BY <1>1, <1>2, <1>16 DEF x

LEMMA MarkNone == ASSUME NEW x PROVE FoldLeft(MarkDelivered, x, <<>>) = x
<1> DEFINE Folds(f) == f = [T \in SUBSET DOMAIN <<>> |-> IF T = {} THEN x
                                ELSE MarkDelivered(f[T \ {Max(T)}], <<>>[Max(T)])]
           result == CHOOSE f : Folds(f)
           h == [T \in SUBSET DOMAIN <<>> |-> x]
<1>1. FoldLeft(MarkDelivered, x, <<>>) = result[DOMAIN <<>>]
  BY Zenon DEF FoldLeft, MapThenFoldSet
<1>2. DOMAIN <<>> = {}
  OBVIOUS
<1>3. Folds(h)
  BY <1>2
<1>4. Folds(result)
  BY <1>3, Zenon
<1> HIDE DEF result
<1> QED
  BY <1>1, <1>2, <1>4

\* close: only the end of the channel and the status change.
LEMMA CloseKeeps ==
    ASSUME NEW d \in DeliverySet
    PROVE  /\ CloseDelivery(d) \in DeliverySet /\ ReleaseSender(d) \in DeliverySet
           /\ \A y \in {CloseDelivery(d), ReleaseSender(d)} :
                /\ y.receiver = d.receiver /\ y.channel = d.channel /\ y.pending = d.pending
                /\ y.delivered = d.delivered
           /\ ReleaseSender(d).status = d.status
<1>1. ASSUME NEW x \in DeliverySet
      PROVE  /\ ReleaseSender(x) \in DeliverySet
             /\ ReleaseSender(x).receiver = x.receiver /\ ReleaseSender(x).channel = x.channel
             /\ ReleaseSender(x).pending = x.pending /\ ReleaseSender(x).delivered = x.delivered
             /\ ReleaseSender(x).status = x.status
  BY DEF ReleaseSender, DeliverySet
<1> DEFINE x == [d EXCEPT !.status = IF @ = "active" THEN "closed" ELSE @]
<1>2. /\ x \in DeliverySet /\ x.receiver = d.receiver /\ x.channel = d.channel /\ x.pending = d.pending
      /\ x.delivered = d.delivered /\ CloseDelivery(d) = ReleaseSender(x)
  BY DEF DeliverySet, CloseDelivery
<1> HIDE DEF x
<1>3. /\ CloseDelivery(d) \in DeliverySet
      /\ CloseDelivery(d).receiver = d.receiver /\ CloseDelivery(d).channel = d.channel
      /\ CloseDelivery(d).pending = d.pending /\ CloseDelivery(d).delivered = d.delivered
  BY <1>1, <1>2
<1> QED
  BY <1>1, <1>3

\* Same bodies, same place.
Alike(d, next) ==
    /\ next.receiver = d.receiver /\ next.channel = d.channel /\ next.pending = d.pending
    /\ next.delivered = d.delivered

LEMMA AlikeDelivering ==
    ASSUME NEW d, NEW g, Delivering(d, g), NEW next \in DeliverySet, Alike(d, next)
    PROVE  Delivering(next, g) /\ Flow(next, g) = Flow(d, g)
BY DEF Delivering, Alike, Flow

\* Moving the first bodies of the pending queue to the end of the channel.
LEMMA MoveKeeps ==
    ASSUME NEW d \in DeliverySet, Len(d.channel) <= MaxReplay, NEW g \in Seq(Events)
    PROVE  LET a == SubSeq(d.pending, 1, Moved(d))
               b == SubSeq(d.pending, Moved(d) + 1, Len(d.pending))
           IN  /\ a \in Seq(Events) /\ b \in Seq(Events)
               /\ d.channel \o a \in Seq(Events) /\ Len(d.channel \o a) <= MaxReplay
               /\ Len(d.channel \o a) < MaxReplay => b = <<>>
               /\ g \o (d.channel \o a) = (g \o d.channel) \o a
               /\ (g \o (d.channel \o a)) \o b = g \o d.channel \o d.pending
               /\ d.pending = <<>> => a = <<>> /\ b = <<>>
<1> DEFINE p == d.pending
           ch == d.channel
           m == Moved(d)
           n == Len(p)
           a == SubSeq(p, 1, m)
           b == SubSeq(p, m + 1, n)
<1>1. p \in Seq(Events) /\ ch \in Seq(Events) /\ n \in Nat /\ Len(ch) \in Nat /\ MaxReplay \in Nat
  BY ClientAssumption DEF DeliverySet
<1>2. m \in 0..n /\ m <= MaxReplay - Len(ch) /\ (m < n => m = MaxReplay - Len(ch))
  <2>1. n \in Int /\ MaxReplay - Len(ch) \in Int
    BY <1>1
  <2>2. m \in {n, MaxReplay - Len(ch)} /\ m <= n /\ m <= MaxReplay - Len(ch)
    BY <2>1, Lesser DEF Moved
  <2> HIDE DEF m
  <2> QED
    BY <1>1, <2>2
<1> HIDE DEF p, ch, m
<1>3. a \in Seq(Events) /\ b \in Seq(Events) /\ Len(a) = m /\ Len(b) = n - m
  BY <1>1, <1>2
<1>4. a \o b = p
  <2>1. 1 \in 1..(n + 1) /\ m \in (1 - 1)..n /\ n \in m..n
    BY <1>1, <1>2
  <2>2. a \o b = SubSeq(p, 1, n)
    BY <1>1, <2>1, ConcatAdjacentSubSeq
  <2> QED
    BY <1>1, <2>2, SubSeqFull
<1> HIDE DEF a, b
<1>5. ch \o a \in Seq(Events) /\ Len(ch \o a) = Len(ch) + m
  <2>1. ch \o a \in Seq(Events) /\ Len(ch \o a) = Len(ch) + Len(a)
    BY <1>1, <1>3, ConcatProperties, Zenon
  <2> QED
    BY <1>3, <2>1
<1>6. g \o (ch \o a) = (g \o ch) \o a /\ g \o ch \in Seq(Events)
  <2>1. g \o ch \in Seq(Events)
    BY <1>1, ConcatProperties, Zenon
  <2>2. (g \o ch) \o a = g \o (ch \o a)
    BY <1>1, <1>3, Associative, Zenon
  <2> QED
    BY <2>1, <2>2, Zenon
<1>7. ((g \o ch) \o a) \o b = (g \o ch) \o p
  <2>1. ((g \o ch) \o a) \o b = (g \o ch) \o (a \o b)
    BY <1>3, <1>6, Associative, Zenon
  <2> QED
    BY <1>4, <2>1, Zenon
<1>8. Len(ch \o a) < MaxReplay => b = <<>>
  BY <1>1, <1>2, <1>3, <1>5
<1>9. p = <<>> => a = <<>> /\ b = <<>>
  BY <1>1, <1>2, <1>3
<1>10. Len(ch \o a) <= MaxReplay
  BY <1>1, <1>2, <1>5
<1> QED
  BY <1>3, <1>5, <1>6, <1>7, <1>8, <1>9, <1>10 DEF a, b, p, ch, m, n

\* refill: nothing is lost, and a channel with a free place has nothing waiting.
Refills(d, g, r) ==
    /\ Delivering(r, g) /\ r.receiver = d.receiver /\ Flow(r, g) = Flow(d, g)
    /\ r.receiver /\ Len(r.channel) < MaxReplay => r.pending = <<>>

LEMMA RefillKeeps ==
    ASSUME NEW d, NEW g, Delivering(d, g)
    PROVE  Refills(d, g, Refill(d))
<1> DEFINE a == SubSeq(d.pending, 1, Moved(d))
           b == SubSeq(d.pending, Moved(d) + 1, Len(d.pending))
           marked == FoldLeft(MarkDelivered, d.delivered, a)
           full == [d EXCEPT !.channel = @ \o a, !.pending = b, !.delivered = marked]
           bare == [d EXCEPT !.pending = <<>>]
           left == IF d.pending = <<>> \/ d.receiver THEN full ELSE CloseDelivery(bare)
<1>1. /\ d \in DeliverySet /\ Len(d.channel) <= MaxReplay /\ g \in Seq(Events)
      /\ d.channel \in Seq(Events) /\ d.pending \in Seq(Events) /\ d.delivered \in Seq(Events)
      /\ MaxDelivered \in Nat
  BY ClientAssumption DEF Delivering, DeliverySet
<1>2. Refill(d) = IF left.status # "active" THEN ReleaseSender(left) ELSE left
  BY DEF Refill
<1>3. /\ a \in Seq(Events) /\ b \in Seq(Events)
      /\ d.channel \o a \in Seq(Events) /\ Len(d.channel \o a) <= MaxReplay
      /\ Len(d.channel \o a) < MaxReplay => b = <<>>
      /\ g \o (d.channel \o a) = (g \o d.channel) \o a
      /\ (g \o (d.channel \o a)) \o b = g \o d.channel \o d.pending
      /\ d.pending = <<>> => a = <<>> /\ b = <<>>
  BY <1>1, MoveKeeps
<1> HIDE DEF a, b
<1>4. g \o d.channel \in Seq(Events)
  BY <1>1, ConcatProperties, Zenon
<1>5. CASE d.receiver
  <2>1. marked = Newest(g \o (d.channel \o a), MaxDelivered)
    <3>1. FoldLeft(MarkDelivered, Newest(g \o d.channel, MaxDelivered), a)
                = Newest((g \o d.channel) \o a, MaxDelivered)
      BY <1>3, <1>4, MarkSeveral, Zenon
    <3> QED
      BY <1>3, <1>5, <3>1, Zenon DEF Delivering
  <2>2. g \o (d.channel \o a) \in Seq(Events)
    BY <1>1, <1>3, ConcatProperties, Zenon
  <2>3. marked \in Seq(Events)
    BY <1>1, <2>1, <2>2, NewestType, Zenon
  <2> HIDE DEF marked
  <2>4. /\ full \in DeliverySet /\ full.receiver = d.receiver /\ full.channel = d.channel \o a
        /\ full.pending = b /\ full.delivered = marked /\ left = full
    BY <1>1, <1>3, <1>5, <2>3 DEF DeliverySet
  <2> HIDE DEF full, left
  <2>5. Flow(full, g) = Flow(d, g)
    BY <1>3, <1>5, <2>4, Zenon DEF Flow
  <2>6. Refills(d, g, full)
    BY <1>1, <1>3, <1>5, <2>1, <2>4, <2>5 DEF Refills, Delivering
  <2>7. Refills(d, g, ReleaseSender(full))
    <3>1. ReleaseSender(full) \in DeliverySet /\ Alike(full, ReleaseSender(full))
      BY <2>4, CloseKeeps DEF Alike
    <3>2. Delivering(full, g)
      BY <2>6 DEF Refills
    <3>3. Delivering(ReleaseSender(full), g) /\ Flow(ReleaseSender(full), g) = Flow(full, g)
      BY <3>1, <3>2, AlikeDelivering, Zenon
    <3> QED
      BY <2>4, <2>6, <3>1, <3>3 DEF Refills, Alike
  <2> QED
    BY <1>2, <2>4, <2>6, <2>7
<1>6. CASE ~d.receiver
  <2>1. Refill(d) \in DeliverySet /\ ~Refill(d).receiver /\ Refill(d).channel = <<>>
    <3>1. d.channel = <<>>
      BY <1>6 DEF Delivering
    <3>2. left \in DeliverySet /\ ~left.receiver /\ left.channel = <<>>
      <4>1. CASE d.pending = <<>>
        <5>1. a = <<>> /\ b = <<>> /\ d.channel \o a = <<>>
          BY <1>3, <3>1, <4>1
        <5>2. marked = d.delivered
          BY <5>1, MarkNone
        <5> HIDE DEF marked
        <5>3. left = [d EXCEPT !.channel = d.channel \o a, !.pending = b, !.delivered = marked]
          BY <4>1
        <5> HIDE DEF left
        <5>4. left = [d EXCEPT !.channel = <<>>, !.pending = <<>>, !.delivered = d.delivered]
          BY <5>1, <5>2, <5>3, Zenon
        <5>5. <<>> \in Seq(Events)
          OBVIOUS
        <5>6. left \in DeliverySet /\ left.receiver = d.receiver /\ left.channel = <<>>
          BY <1>1, <5>4, <5>5 DEF DeliverySet
        <5> QED
          BY <1>6, <5>6
      <4>2. CASE d.pending # <<>>
        <5>1. bare \in DeliverySet /\ ~bare.receiver /\ bare.channel = <<>>
          BY <1>1, <1>6, <3>1 DEF DeliverySet
        <5>2. left = CloseDelivery(bare)
          BY <1>6, <4>2
        <5> HIDE DEF bare, left
        <5>3. CloseDelivery(bare) \in DeliverySet /\ CloseDelivery(bare).receiver = bare.receiver
              /\ CloseDelivery(bare).channel = bare.channel
          BY <5>1, CloseKeeps
        <5> QED
          BY <5>1, <5>2, <5>3
      <4> QED
        BY <4>1, <4>2
    <3> HIDE DEF left
    <3>3. /\ ReleaseSender(left) \in DeliverySet /\ ReleaseSender(left).receiver = left.receiver
          /\ ReleaseSender(left).channel = left.channel
      BY <3>2, CloseKeeps
    <3> QED
      BY <1>2, <3>2, <3>3
  <2>2. Flow(Refill(d), g) = g /\ Flow(d, g) = g
    BY <1>6, <2>1 DEF Flow
  <2>3. Spaced(g) /\ MaxReplay \in Nat /\ Len(<<>>) = 0
    BY <2>2, ClientAssumption DEF Delivering
  <2>4. Delivering(Refill(d), g)
    BY <1>1, <2>1, <2>2, <2>3 DEF Delivering
  <2>5. Refill(d).receiver = d.receiver
    BY <1>1, <1>6, <2>1 DEF DeliverySet
  <2> QED
    BY <2>1, <2>2, <2>4, <2>5, Zenon DEF Refills
<1> QED
  BY <1>5, <1>6

-----------------------------------------------------------------------------
(* What is admitted and received *)

LEMMA ContinuesPrefix == ASSUME NEW s, NEW t, Continues(s, t) PROVE IsPrefix(s, t)
<1>1. Len(s) \in Nat /\ Len(t) \in Nat /\ Len(s) <= Len(t)
  BY DEF Continues
<1>2. SubSeq(s, 1, Len(s)) = [i \in 1..Len(s) |-> s[i]]
  BY <1>1 DEF Continues
<1>3. SubSeq(t, 1, Len(s)) = [i \in 1..Len(s) |-> t[i]]
  BY <1>1 DEF Continues
<1> QED
  BY <1>1, <1>2, <1>3 DEF Continues, IsPrefix

LEMMA ContinuesOn ==
    ASSUME NEW s, NEW t, NEW u, Continues(s, t), Continues(t, u)
    PROVE  Continues(s, u)
BY DEF Continues

LEMMA FlowType == ASSUME NEW d, NEW g, Delivering(d, g) PROVE Flow(d, g) \in Seq(Events)
<1>1. d.channel \in Seq(Events) /\ d.pending \in Seq(Events) /\ g \in Seq(Events)
  BY DEF Delivering, DeliverySet
<1>2. g \o d.channel \in Seq(Events)
  BY <1>1, ConcatProperties, Zenon
<1>3. (g \o d.channel) \o d.pending \in Seq(Events)
  BY <1>1, <1>2, ConcatProperties, Zenon
<1> QED
  BY <1>1, <1>3 DEF Flow

\* The same bodies are a continuation.
LEMMA SameAdvances ==
    ASSUME NEW d, NEW g, Delivering(d, g), NEW next, Delivering(next, g),
           next.receiver = d.receiver, Flow(next, g) = Flow(d, g)
    PROVE  Advances(d, next, g)
BY FlowType DEF Advances, Continues

LEMMA AdvancesOn ==
    ASSUME NEW d, NEW r, NEW n, NEW g, Advances(d, r, g), Advances(r, n, g)
    PROVE  Advances(d, n, g)
BY ContinuesOn DEF Advances

LEMMA ConcatContinues ==
    ASSUME NEW s \in Seq(Events), NEW t \in Seq(Events)
    PROVE  Continues(s, s \o t) /\ s \o t \in Seq(Events)
<1> DEFINE u == s \o t
<1>1. u \in Seq(Events) /\ Len(u) = Len(s) + Len(t) /\ Len(s) \in Nat /\ Len(t) \in Nat
      /\ \A i \in 1..Len(s) : u[i] = s[i]
  OBVIOUS
<1> HIDE DEF u
<1>2. Len(s) <= Len(u)
  BY <1>1
<1>3. Continues(s, u)
  BY <1>1, <1>2 DEF Continues
<1> QED
  BY <1>1, <1>3 DEF u

LEMMA ConcatAppend ==
    ASSUME NEW s \in Seq(Events), NEW t \in Seq(Events), NEW e \in Events
    PROVE  s \o Append(t, e) = Append(s \o t, e)
OBVIOUS

\* A body that a subscription does not know may follow the others.
LEMMA SpacedMore ==
    ASSUME NEW d, NEW g, Delivering(d, g), d.receiver, NEW e \in Events, ~Knows(d, e)
    PROVE  Spaced(Append(Flow(d, g), e))
<1> DEFINE h == g \o d.channel
           p == d.pending
           f == h \o p
           M == MaxDelivered
<1>1. d.channel \in Seq(Events) /\ p \in Seq(Events) /\ g \in Seq(Events) /\ M \in Nat
  BY ClientAssumption DEF Delivering, DeliverySet
<1>2. h \in Seq(Events)
  BY <1>1, ConcatProperties, Zenon
<1>3. Flow(d, g) = f /\ ~Contains(Newest(h, M), e) /\ ~Contains(p, e)
  BY DEF Flow, Knows, Delivering
<1> HIDE DEF h, p
<1>4. f \in Seq(Events) /\ Len(f) = Len(h) + Len(p)
      /\ \A i \in 1..(Len(h) + Len(p)) : f[i] = IF i <= Len(h) THEN h[i] ELSE p[i - Len(h)]
  BY <1>1, <1>2, ConcatProperties, Zenon
<1> HIDE DEF f
<1>5. Spaced(f)
  BY <1>3 DEF Delivering
<1>6. ASSUME NEW i \in 1..Len(f), f[i] = e PROVE Len(f) + 1 - i > M
  <2>1. Len(h) \in Nat /\ Len(p) \in Nat /\ f[i] = IF i <= Len(h) THEN h[i] ELSE p[i - Len(h)]
    BY <1>1, <1>2, <1>4
  <2>2. CASE i <= Len(h)
    <3>1. i \in 1..Len(h) /\ h[i] = e
      BY <1>4, <1>6, <2>1, <2>2
    <3>2. Len(h) + 1 - i > M
      BY <1>2, <1>3, <3>1, NewestFar
    <3> QED
      BY <1>1, <1>4, <2>1, <2>2, <3>2
  <2>3. CASE ~(i <= Len(h))
    <3>1. i - Len(h) \in 1..Len(p) /\ p[i - Len(h)] = e
      BY <1>4, <1>6, <2>1, <2>3
    <3> QED
      BY <1>1, <1>3, <3>1 DEF Contains
  <2> QED
    BY <2>2, <2>3
<1> DEFINE a == Append(f, e)
<1>7. Len(f) \in Nat /\ DOMAIN a = 1..(Len(f) + 1) /\ a[Len(f) + 1] = e /\ DOMAIN f = 1..Len(f)
      /\ \A i \in 1..Len(f) : a[i] = f[i]
  BY <1>4
<1> HIDE DEF a
<1>8. ASSUME NEW i \in DOMAIN a, NEW j \in DOMAIN a, i < j, a[i] = a[j] PROVE j - i > M
  <2>1. CASE j = Len(f) + 1
    BY <1>6, <1>7, <1>8, <2>1
  <2>2. CASE j # Len(f) + 1
    BY <1>5, <1>7, <1>8, <2>2 DEF Spaced
  <2> QED
    BY <2>1, <2>2
<1>9. Spaced(a)
  BY <1>8 DEF Spaced
<1> QED
  BY <1>3, <1>9 DEF a

\* A body follows the others when it is added at the end of the channel and
\* nothing is pending, or at the end of the queue.
LEMMA AddedAdvances ==
    ASSUME NEW d, NEW g, Delivering(d, g), d.receiver, NEW e \in Events,
           Spaced(Append(Flow(d, g), e)), NEW n \in DeliverySet, n.receiver,
           Len(n.channel) <= MaxReplay, n.delivered = Newest(g \o n.channel, MaxDelivered),
           g \o n.channel \o n.pending = Append(Flow(d, g), e)
    PROVE  Advances(d, n, g)
<1>1. Flow(d, g) \in Seq(Events)
  BY FlowType
<1>2. Flow(n, g) = Append(Flow(d, g), e)
  BY DEF Flow
<1>3. Continues(Flow(d, g), Append(Flow(d, g), e))
  BY <1>1 DEF Continues
<1>4. Delivering(n, g)
  BY <1>2 DEF Delivering
<1>5. n.receiver = d.receiver
  BY DEF DeliverySet, Delivering
<1> QED
  BY <1>2, <1>3, <1>4, <1>5 DEF Advances

LEMMA EnqueueKeeps ==
    ASSUME NEW d, NEW g, Delivering(d, g), NEW e \in Events
    PROVE  Advances(d, Enqueue(d, e), g)
<1> DEFINE r == Refill(d)
<1>1. Refills(d, g, r)
  BY RefillKeeps
<1> HIDE DEF r
<1>2. /\ r \in DeliverySet /\ g \in Seq(Events) /\ r.channel \in Seq(Events)
      /\ r.pending \in Seq(Events) /\ r.delivered \in Seq(Events) /\ Len(r.channel) <= MaxReplay
      /\ Delivering(r, g) /\ r.receiver = d.receiver /\ Flow(r, g) = Flow(d, g)
      /\ MaxReplay \in Nat /\ MaxDelivered \in Nat
  BY <1>1, ClientAssumption DEF Refills, Delivering, DeliverySet
<1>3. Advances(d, d, g) /\ Advances(d, r, g)
  BY <1>2, SameAdvances
<1>4. CASE d.status # "active" \/ Knows(d, e)
  BY <1>3, <1>4 DEF Enqueue
<1>5. CASE ~(d.status # "active" \/ Knows(d, e)) /\ ~r.sender
  BY <1>3, <1>5 DEF Enqueue, r
<1>6. CASE ~(d.status # "active" \/ Knows(d, e)) /\ r.sender /\ ~r.receiver
  <2>1. CloseDelivery(r) \in DeliverySet /\ Alike(r, CloseDelivery(r))
    BY <1>2, CloseKeeps DEF Alike
  <2>2. Delivering(CloseDelivery(r), g) /\ Flow(CloseDelivery(r), g) = Flow(r, g)
    BY <1>2, <2>1, AlikeDelivering, Zenon
  <2>3. CloseDelivery(r).receiver = d.receiver
    BY <1>2, <2>1 DEF Alike
  <2>4. Advances(d, CloseDelivery(r), g)
    BY <1>2, <2>2, <2>3, SameAdvances
  <2> QED
    BY <1>6, <2>4 DEF Enqueue, r
<1>7. CASE ~(d.status # "active" \/ Knows(d, e)) /\ r.sender /\ r.receiver
  <2>1. d.receiver /\ ~Knows(d, e)
    BY <1>2, <1>7
  <2>2. Spaced(Append(Flow(r, g), e))
    BY <1>2, <2>1, SpacedMore
  <2>3. r.delivered = Newest(g \o r.channel, MaxDelivered) /\ Flow(r, g) = g \o r.channel \o r.pending
    BY <1>2, <1>7 DEF Delivering, Flow
  <2>4. g \o r.channel \in Seq(Events)
    BY <1>2, ConcatProperties, Zenon
  <2>5. CASE Len(r.channel) < MaxReplay
    <3> DEFINE n == [r EXCEPT !.channel = Append(@, e), !.delivered = MarkDelivered(@, e)]
    <3>1. r.pending = <<>>
      BY <1>1, <1>7, <2>5 DEF Refills
    <3>2. g \o Append(r.channel, e) = Append(g \o r.channel, e)
          /\ Append(g \o r.channel, e) \in Seq(Events)
      BY <1>2, <2>4
    <3>3. MarkDelivered(r.delivered, e) = Newest(g \o Append(r.channel, e), MaxDelivered)
      BY <2>3, <2>4, <3>2, MarkNewest
    <3>4. MarkDelivered(r.delivered, e) \in Seq(Events)
      BY <1>2, <3>2, <3>3, NewestType
    <3>5. Append(r.channel, e) \in Seq(Events) /\ Len(Append(r.channel, e)) <= MaxReplay
      BY <1>2, <2>5
    <3>6. /\ n \in DeliverySet /\ n.receiver /\ n.channel = Append(r.channel, e)
          /\ n.pending = <<>> /\ n.delivered = MarkDelivered(r.delivered, e)
      BY <1>2, <1>7, <3>1, <3>4, <3>5 DEF DeliverySet
    <3> HIDE DEF n
    <3>7. g \o n.channel \o n.pending = Append(Flow(r, g), e)
      BY <2>3, <2>4, <3>1, <3>2, <3>6
    <3>8. Advances(r, n, g)
      <4>1. n.delivered = Newest(g \o n.channel, MaxDelivered)
        BY <3>3, <3>6, Zenon
      <4> QED
        BY <1>2, <1>7, <2>2, <3>5, <3>6, <3>7, <4>1, AddedAdvances
    <3>9. Enqueue(d, e) = n
      BY <1>7, <2>5 DEF Enqueue, r, n
    <3> QED
      BY <1>3, <3>8, <3>9, AdvancesOn
  <2>6. CASE ~(Len(r.channel) < MaxReplay) /\ Len(r.pending) < MaxReplay
    <3> DEFINE n == [r EXCEPT !.pending = Append(@, e)]
    <3>0. Append(r.pending, e) \in Seq(Events)
      BY <1>2
    <3>1. /\ n \in DeliverySet /\ n.receiver = r.receiver /\ n.channel = r.channel
          /\ n.pending = Append(r.pending, e) /\ n.delivered = r.delivered
      <4>1. r \in DeliverySet
        BY <1>2
      <4> QED
        BY <3>0, <4>1 DEF DeliverySet
    <3> HIDE DEF n
    <3>2. (g \o r.channel) \o Append(r.pending, e) = Append((g \o r.channel) \o r.pending, e)
      BY <1>2, <2>4, ConcatAppend, Zenon
    <3>3. g \o n.channel \o n.pending = Append(Flow(r, g), e)
      BY <2>3, <3>1, <3>2
    <3>4. Advances(r, n, g)
      <4>1. n.delivered = Newest(g \o n.channel, MaxDelivered) /\ Len(n.channel) <= MaxReplay
        BY <1>2, <2>3, <3>1
      <4> QED
        BY <1>2, <1>7, <2>2, <3>1, <3>3, <4>1, AddedAdvances
    <3>5. Enqueue(d, e) = n
      BY <1>7, <2>6 DEF Enqueue, r, n
    <3> QED
      BY <1>3, <3>4, <3>5, AdvancesOn
  <2>7. CASE ~(Len(r.channel) < MaxReplay) /\ ~(Len(r.pending) < MaxReplay)
    <3> DEFINE n == [r EXCEPT !.status = "lagged"]
    <3>1. n \in DeliverySet /\ Alike(r, n)
      BY <1>2 DEF DeliverySet, Alike
    <3> HIDE DEF n
    <3>2. Delivering(n, g) /\ Flow(n, g) = Flow(r, g)
      BY <1>2, <3>1, AlikeDelivering, Zenon
    <3>3. n.receiver = d.receiver
      BY <1>2, <3>1 DEF Alike
    <3>4. Enqueue(d, e) = n
      BY <1>7, <2>7 DEF Enqueue, r, n
    <3> QED
      BY <1>2, <3>2, <3>3, <3>4, SameAdvances
  <2> QED
    BY <2>5, <2>6, <2>7
<1> QED
  BY <1>4, <1>5, <1>6, <1>7

LEMMA CloseAdvances ==
    ASSUME NEW d, NEW g, Delivering(d, g)
    PROVE  Advances(d, CloseDelivery(d), g)
<1>1. d \in DeliverySet
  BY DEF Delivering
<1>2. CloseDelivery(d) \in DeliverySet /\ Alike(d, CloseDelivery(d))
  BY <1>1, CloseKeeps DEF Alike
<1>3. Delivering(CloseDelivery(d), g) /\ Flow(CloseDelivery(d), g) = Flow(d, g)
  BY <1>2, AlikeDelivering, Zenon
<1> QED
  BY <1>2, <1>3, SameAdvances DEF Alike

\* The application drops its end.
LEMMA DropKeeps ==
    ASSUME NEW d, NEW g, Delivering(d, g)
    PROVE  Delivering(DropReceiver(d), g) /\ DropReceiver(d).receiver = FALSE
           /\ Len(Flow(DropReceiver(d), g)) <= Len(Flow(d, g))
<1> DEFINE n == DropReceiver(d)
<1>1. n \in DeliverySet /\ n.receiver = FALSE /\ n.channel = <<>> /\ n.pending = d.pending
  <2>1. <<>> \in Seq(Events) /\ d \in DeliverySet
    BY DEF Delivering
  <2>2. n = [d EXCEPT !.receiver = FALSE, !.channel = <<>>]
    BY DEF DropReceiver
  <2> QED
    BY <2>1, <2>2 DEF DeliverySet
<1>2. g \in Seq(Events) /\ d.channel \in Seq(Events) /\ d.pending \in Seq(Events)
      /\ MaxReplay \in Nat /\ MaxDelivered \in Nat
  BY ClientAssumption DEF Delivering, DeliverySet
<1> HIDE DEF n
<1>3. Flow(n, g) = g
  BY <1>1 DEF Flow
<1>4. Continues(g, Flow(d, g))
  <2>1. Continues(g, g \o d.channel) /\ g \o d.channel \in Seq(Events)
    BY <1>2, ConcatContinues
  <2>2. Continues(g \o d.channel, (g \o d.channel) \o d.pending)
    BY <1>2, <2>1, ConcatContinues
  <2>3. Continues(g, (g \o d.channel) \o d.pending)
    BY <2>1, <2>2, ContinuesOn
  <2>4. Continues(g, g)
    BY <1>2 DEF Continues
  <2> QED
    BY <2>3, <2>4 DEF Flow
<1>5. Spaced(g)
  <2>1. Spaced(Flow(d, g)) /\ \A i \in 1..Len(g) : Flow(d, g)[i] = g[i]
    BY <1>4 DEF Delivering, Continues
  <2>2. DOMAIN g = 1..Len(g) /\ DOMAIN g \subseteq DOMAIN Flow(d, g)
    BY <1>4 DEF Continues
  <2> QED
    BY <2>1, <2>2 DEF Spaced
<1>6. Delivering(n, g)
  BY <1>1, <1>2, <1>3, <1>5 DEF Delivering
<1> QED
  BY <1>1, <1>3, <1>4, <1>6 DEF n, Continues

LEMMA ConcatPlaces ==
    ASSUME NEW s \in Seq(Events), NEW t \in Seq(Events)
    PROVE  /\ s \o t \in Seq(Events) /\ Len(s \o t) = Len(s) + Len(t)
           /\ \A i \in 1..Len(s) : (s \o t)[i] = s[i]
           /\ \A i \in 1..Len(t) : (s \o t)[Len(s) + i] = t[i]
OBVIOUS

LEMMA HeadFirst ==
    ASSUME NEW g \in Seq(Events), NEW ch \in Seq(Events), ch # <<>>
    PROVE  /\ Append(g, Head(ch)) \in Seq(Events) /\ Tail(ch) \in Seq(Events)
           /\ Append(g, Head(ch)) \o Tail(ch) = g \o ch /\ Len(Tail(ch)) <= Len(ch)
<1> DEFINE h == Append(g, Head(ch))
           t == Tail(ch)
           l == h \o t
           r == g \o ch
<1>1. /\ Head(ch) = ch[1] /\ ch[1] \in Events /\ t \in Seq(Events) /\ Len(t) = Len(ch) - 1
      /\ Len(ch) \in Nat \ {0} /\ \A i \in 1..Len(t) : t[i] = ch[i + 1]
  OBVIOUS
<1>2. /\ h \in Seq(Events) /\ Len(h) = Len(g) + 1 /\ h[Len(g) + 1] = ch[1] /\ Len(g) \in Nat
      /\ \A i \in 1..Len(g) : h[i] = g[i]
  BY <1>1
<1> HIDE DEF h, t
<1>3. /\ l \in Seq(Events) /\ Len(l) = Len(h) + Len(t) /\ \A i \in 1..Len(h) : l[i] = h[i]
      /\ \A i \in 1..Len(t) : l[Len(h) + i] = t[i]
  BY <1>1, <1>2, ConcatPlaces
<1>4. /\ r \in Seq(Events) /\ Len(r) = Len(g) + Len(ch) /\ \A i \in 1..Len(g) : r[i] = g[i]
      /\ \A i \in 1..Len(ch) : r[Len(g) + i] = ch[i]
  OBVIOUS
<1> HIDE DEF l, r
<1>5. Len(l) = Len(r)
  BY <1>1, <1>2, <1>3, <1>4
<1>6. ASSUME NEW i \in 1..Len(l) PROVE l[i] = r[i]
  <2>1. CASE i <= Len(g)
    BY <1>2, <1>3, <1>4, <2>1
  <2>2. CASE i = Len(g) + 1
    <3>1. i \in 1..Len(h) /\ l[i] = ch[1]
      BY <1>2, <1>3, <2>2
    <3>2. 1 \in 1..Len(ch)
      BY <1>1
    <3> QED
      BY <1>4, <2>2, <3>1, <3>2
  <2>3. CASE i > Len(g) + 1
    <3> DEFINE k == i - Len(h)
    <3>1. k \in 1..Len(t) /\ Len(h) + k = i /\ k + 1 \in 1..Len(ch) /\ Len(g) + (k + 1) = i
      BY <1>1, <1>2, <1>3, <2>3
    <3> HIDE DEF k
    <3>2. l[i] = t[k] /\ t[k] = ch[k + 1]
      BY <1>1, <1>3, <3>1
    <3>3. r[i] = ch[k + 1]
      BY <1>4, <3>1
    <3> QED
      BY <3>2, <3>3
  <2> QED
    BY <1>2, <2>1, <2>2, <2>3
<1>7. l = r
  BY <1>3, <1>4, <1>5, <1>6, SeqEqual
<1>8. Len(t) <= Len(ch)
  BY <1>1
<1> QED
  BY <1>1, <1>2, <1>7, <1>8 DEF l, r, h, t

\* recv: what is received leaves the channel, and nothing else does.
LEMMA ReceiveKeeps ==
    ASSUME NEW d, NEW g, Delivering(d, g), Refill(d).channel # <<>>
    PROVE  LET h == Append(g, Head(Refill(d).channel)) IN
           /\ h \in Seq(Events) /\ Delivering(Receive(d), h) /\ Receive(d).receiver = d.receiver
           /\ Flow(Receive(d), h) = Flow(d, g)
<1> DEFINE r == Refill(d)
           h == Append(g, Head(r.channel))
           n == [r EXCEPT !.channel = Tail(@)]
<1>1. Refills(d, g, r)
  BY RefillKeeps
<1>2. r.channel # <<>>
  OBVIOUS
<1>3. Receive(d) = Refill(n)
  BY DEF Receive
<1> HIDE DEF r
<1>4. /\ r \in DeliverySet /\ g \in Seq(Events) /\ r.channel \in Seq(Events) /\ r.receiver
      /\ Len(r.channel) <= MaxReplay /\ MaxReplay \in Nat
      /\ r.delivered = Newest(g \o r.channel, MaxDelivered) /\ Spaced(Flow(r, g))
      /\ r.receiver = d.receiver /\ Flow(r, g) = Flow(d, g)
  BY <1>1, <1>2, ClientAssumption DEF Refills, Delivering, DeliverySet
<1>5. /\ h \in Seq(Events) /\ Tail(r.channel) \in Seq(Events)
      /\ h \o Tail(r.channel) = g \o r.channel /\ Len(Tail(r.channel)) <= Len(r.channel)
  BY <1>2, <1>4, HeadFirst
<1> HIDE DEF h
<1>6. /\ n \in DeliverySet /\ n.receiver = r.receiver /\ n.channel = Tail(r.channel)
      /\ n.pending = r.pending /\ n.delivered = r.delivered
  BY <1>4, <1>5 DEF DeliverySet
<1> HIDE DEF n
<1>7. Flow(n, h) = Flow(r, g)
  BY <1>4, <1>5, <1>6, Zenon DEF Flow
<1>8. Len(n.channel) <= MaxReplay /\ n.delivered = Newest(h \o n.channel, MaxDelivered) /\ n.receiver
  <2>1. Len(n.channel) <= MaxReplay
    <3>1. Len(r.channel) \in Nat /\ Len(Tail(r.channel)) \in Nat
      BY <1>4, <1>5
    <3> QED
      BY <1>4, <1>5, <1>6, <3>1
  <2>2. n.delivered = Newest(h \o n.channel, MaxDelivered) /\ n.receiver
    BY <1>4, <1>5, <1>6, Zenon
  <2> QED
    BY <2>1, <2>2
<1>9. Delivering(n, h)
  BY <1>4, <1>5, <1>6, <1>7, <1>8 DEF Delivering
<1>10. Refills(n, h, Refill(n))
  BY <1>9, RefillKeeps
<1>11. Delivering(Refill(n), h) /\ Refill(n).receiver = d.receiver /\ Flow(Refill(n), h) = Flow(d, g)
  BY <1>4, <1>6, <1>7, <1>10 DEF Refills
<1> QED
  BY <1>3, <1>5, <1>11 DEF h, r

-----------------------------------------------------------------------------
(* The pending wants: every provider has announced the event *)

ProviderSet == [peer : Peers, subs : SUBSET Subs, requested : BOOLEAN]
EntrySet ==
    [selected : ProviderSet, alternatives : Seq(ProviderSet), claim : Claims,
     age : Int, retries : Nat]

\* The providers of e's entry are among those in A to have announced e.
Vouched(entry, e, A) ==
    entry \in EntrySet /\ \A q \in Providers(entry) : <<q.peer, e>> \in A

TableSet == [entries : [Events -> EntrySet \cup {NoEntry}], order : Seq(Events)]

VouchedTable(w, A) ==
    /\ w \in TableSet
    /\ \A e \in Held(w) : Vouched(w.entries[e], e, A)

\* The providers of `after` are peers of `entry`, none of them in Q.
Follows(entry, after, Q) ==
    /\ after \in EntrySet
    /\ \A r \in Providers(after) : r.peer \notin Q /\ \E q \in Providers(entry) : r.peer = q.peer

LEMMA FollowsVouched ==
    ASSUME NEW A, NEW e, NEW entry, Vouched(entry, e, A), NEW Q, NEW after, Follows(entry, after, Q)
    PROVE  Vouched(after, e, {a \in A : a[1] \notin Q})
<1>1. ASSUME NEW r \in Providers(after) PROVE <<r.peer, e>> \in {a \in A : a[1] \notin Q}
  BY DEF Vouched, Follows
<1> QED
  BY <1>1 DEF Vouched, Follows

LEMMA Unfiltered == ASSUME NEW A PROVE {a \in A : a[1] \notin {}} = A
OBVIOUS

LEMMA FollowsItself == ASSUME NEW entry \in EntrySet PROVE Follows(entry, entry, {})
BY DEF Follows

With(entry, q, others) == [entry EXCEPT !.selected = q, !.alternatives = others]

\* Other providers in an entry leave the rest of it alone.
LEMMA WithProviders ==
    ASSUME NEW entry \in EntrySet, NEW q \in ProviderSet, NEW others \in Seq(ProviderSet)
    PROVE  /\ With(entry, q, others) \in EntrySet
           /\ With(entry, q, others).selected = q /\ With(entry, q, others).alternatives = others
           /\ With(entry, q, others).retries = entry.retries
BY DEF EntrySet, With

Stamped(entry, age, retries) == [entry EXCEPT !.age = age, !.retries = retries]

\* A new clock leaves the providers alone.
LEMMA WithClock ==
    ASSUME NEW entry \in EntrySet, NEW age \in Int, NEW retries \in Nat
    PROVE  /\ Stamped(entry, age, retries) \in EntrySet
           /\ Stamped(entry, age, retries).selected = entry.selected
           /\ Stamped(entry, age, retries).alternatives = entry.alternatives
BY DEF EntrySet, Stamped

LEMMA Appended == \A q \in Seq(Events), e \in Events : Append(q, e) \in Seq(Events) /\ Append(q, e) # <<>>
<1>1. ASSUME NEW q \in Seq(Events), NEW e \in Events
      PROVE  Append(q, e) \in Seq(Events) /\ Len(Append(q, e)) = Len(q) + 1 /\ Len(q) \in Nat
  OBVIOUS
<1>2. ASSUME NEW q \in Seq(Events), NEW e \in Events, Append(q, e) = <<>> PROVE FALSE
  <2>1. Len(q) + 1 = 0 /\ Len(q) \in Nat
    BY <1>1, <1>2
  <2> QED
    BY <2>1
<1> QED
  BY <1>1, <1>2

LEMMA AppendedSet ==
    ASSUME NEW V, NEW s \in Seq(V), NEW x \in V
    PROVE  Append(s, x) \in Seq(V) /\ ToSet(Append(s, x)) \subseteq ToSet(s) \cup {x}
<1> DEFINE t == Append(s, x)
<1>1. /\ t \in Seq(V) /\ DOMAIN t = 1..(Len(s) + 1) /\ t[Len(s) + 1] = x /\ DOMAIN s = 1..Len(s)
      /\ \A i \in 1..Len(s) : t[i] = s[i]
  OBVIOUS
<1> HIDE DEF t
<1>2. ASSUME NEW i \in DOMAIN t PROVE t[i] = x \/ (i \in DOMAIN s /\ t[i] = s[i])
  BY <1>1
<1>3. ToSet(t) \subseteq ToSet(s) \cup {x}
  BY <1>2 DEF ToSet
<1> QED
  BY <1>1, <1>3 DEF t

LEMMA MergeFollows ==
    ASSUME NEW entry \in EntrySet, NEW p, NEW subs \in SUBSET Subs
    PROVE  Follows(entry, Merge(entry, p, subs), {})
<1> DEFINE after == Merge(entry, p, subs)
           s == entry.alternatives
           merged == [i \in DOMAIN s |-> Merged(s[i], p, subs)]
<1>1. \A q \in ProviderSet : Merged(q, p, subs) \in ProviderSet /\ Merged(q, p, subs).peer = q.peer
  BY DEF Merged, ProviderSet
<1>2. s \in Seq(ProviderSet) /\ entry.selected \in ProviderSet
  BY DEF EntrySet
<1>3. after = With(entry, Merged(entry.selected, p, subs), merged)
  BY DEF Merge, With
<1>4. merged \in Seq(ProviderSet) /\ DOMAIN merged = DOMAIN s
      /\ \A i \in DOMAIN s : merged[i] = Merged(s[i], p, subs) /\ s[i] \in ProviderSet
  BY <1>1, <1>2
<1> HIDE DEF after, s, merged
<1>5. after \in EntrySet /\ after.selected = Merged(entry.selected, p, subs) /\ after.alternatives = merged
  BY <1>1, <1>2, <1>3, <1>4, WithProviders
<1>6. ASSUME NEW r \in Providers(after) PROVE \E q \in Providers(entry) : r.peer = q.peer
  <2>1. CASE r = after.selected
    BY <1>1, <1>2, <1>5, <2>1 DEF Providers
  <2>2. CASE r \in ToSet(merged)
    <3>1. PICK i \in DOMAIN s : r = merged[i]
      BY <1>4, <2>2 DEF ToSet
    <3>2. r.peer = s[i].peer /\ s[i] \in Providers(entry)
      BY <1>1, <1>4, <3>1 DEF Providers, ToSet, s
    <3> QED
      BY <3>2
  <2> QED
    BY <1>5, <2>1, <2>2 DEF Providers
<1> QED
  BY <1>5, <1>6 DEF Follows, after

\* A further inventory is ignored, merged, or adds the provider (insert).
LEMMA JoinVouched ==
    ASSUME NEW A, NEW e, NEW entry, Vouched(entry, e, A), NEW p \in Peers, <<p, e>> \in A,
           NEW subs \in SUBSET Subs, NEW claim
    PROVE  Vouched(Join(entry, p, subs, claim), e, A)
<1> DEFINE new == Provider(p, subs, FALSE)
           after == [entry EXCEPT !.alternatives = Append(entry.alternatives, new)]
<1>1. entry \in EntrySet /\ entry.alternatives \in Seq(ProviderSet) /\ entry.selected \in ProviderSet
  BY DEF Vouched, EntrySet
<1>2. Vouched(Merge(entry, p, subs), e, A)
  BY <1>1, MergeFollows, FollowsVouched, Unfiltered
<1>3. Vouched(after, e, A)
  <2>1. new \in ProviderSet /\ new.peer = p
    BY DEF Provider, ProviderSet
  <2>2. after = With(entry, entry.selected, Append(entry.alternatives, new))
    BY <1>1 DEF With, EntrySet
  <2> HIDE DEF new, after
  <2>3. Append(entry.alternatives, new) \in Seq(ProviderSet)
        /\ ToSet(Append(entry.alternatives, new)) \subseteq ToSet(entry.alternatives) \cup {new}
    BY <1>1, <2>1, AppendedSet
  <2>4. after \in EntrySet /\ after.selected = entry.selected
        /\ after.alternatives = Append(entry.alternatives, new)
    BY <1>1, <2>2, <2>3, WithProviders
  <2>5. Providers(after) \subseteq Providers(entry) \cup {new}
    BY <2>3, <2>4 DEF Providers
  <2> QED
    BY <2>1, <2>4, <2>5 DEF Vouched
<1> HIDE DEF after
<1>4. Join(entry, p, subs, claim) \in {entry, Merge(entry, p, subs), after}
  BY DEF Join, after
<1> QED
  BY <1>2, <1>3, <1>4

LEMMA PromoteFollows ==
    ASSUME NEW entry \in EntrySet, entry.alternatives # <<>>
    PROVE  LET after == Promote(entry) IN
           /\ after \in EntrySet /\ Providers(after) \subseteq ToSet(entry.alternatives)
           /\ after.alternatives = Tail(entry.alternatives) /\ after.selected \in ProviderSet
           /\ after.retries = entry.retries
<1> DEFINE s == entry.alternatives
           after == Promote(entry)
<1>1. s \in Seq(ProviderSet) /\ s # <<>>
  BY DEF EntrySet
<1>2. /\ Head(s) \in ProviderSet /\ Tail(s) \in Seq(ProviderSet)
      /\ Head(s) \in ToSet(s) /\ ToSet(Tail(s)) \subseteq ToSet(s)
  BY <1>1 DEF ToSet
<1>3. after = With(entry, Head(s), Tail(s))
  BY DEF Promote, With
<1> HIDE DEF after, s
<1>4. /\ after \in EntrySet /\ after.selected = Head(s) /\ after.alternatives = Tail(s)
      /\ after.retries = entry.retries
  BY <1>2, <1>3, WithProviders
<1> QED
  BY <1>2, <1>4 DEF Providers, after, s

LEMMA UnsubscribedFollows ==
    ASSUME NEW entry \in EntrySet, NEW sub
    PROVE  Follows(entry, Unsubscribed(entry, sub), {})
<1> DEFINE s == entry.alternatives
           gone == [i \in DOMAIN s |-> Leaving(s[i], sub)]
           others == Subscribed(gone)
           q == Leaving(entry.selected, sub)
           left == With(entry, q, others)
           after == IF left.selected.subs = {} /\ left.alternatives # <<>> THEN Promote(left) ELSE left
<1>1. s \in Seq(ProviderSet) /\ entry.selected \in ProviderSet
  BY DEF EntrySet
<1>2. \A r \in ProviderSet : Leaving(r, sub) \in ProviderSet /\ Leaving(r, sub).peer = r.peer
  BY DEF ProviderSet, Leaving
<1>3. after = Unsubscribed(entry, sub)
  BY DEF Unsubscribed, With
<1> HIDE DEF after
<1>4. gone \in Seq(ProviderSet) /\ DOMAIN gone = DOMAIN s
      /\ \A i \in DOMAIN s : gone[i] = Leaving(s[i], sub) /\ s[i] \in ProviderSet
  BY <1>1, <1>2
<1> HIDE DEF s, gone
<1>5. others \in Seq(ProviderSet) /\ ToSet(others) \subseteq ToSet(gone)
  BY <1>4, OnlyRetains DEF Subscribed
<1> HIDE DEF others, q, left
<1>6. left \in EntrySet /\ left.selected = q /\ left.alternatives = others
  BY <1>1, <1>2, <1>5, WithProviders DEF left, q
<1>7. after \in EntrySet /\ Providers(after) \subseteq {q} \cup ToSet(others)
  <2>1. CASE after = left
    BY <1>6, <2>1 DEF Providers
  <2>2. CASE after = Promote(left) /\ left.alternatives # <<>>
    BY <1>6, <2>2, PromoteFollows
  <2> QED
    BY <2>1, <2>2 DEF after
<1>8. q.peer = entry.selected.peer /\ entry.selected \in Providers(entry)
  BY <1>1, <1>2 DEF q, Providers
<1>9. ASSUME NEW r \in ToSet(others) PROVE \E x \in Providers(entry) : r.peer = x.peer
  <2>1. PICK i \in DOMAIN s : r = gone[i]
    BY <1>4, <1>5 DEF ToSet
  <2>2. r.peer = s[i].peer /\ s[i] \in Providers(entry)
    BY <1>2, <1>4, <2>1 DEF Providers, ToSet, s
  <2> QED
    BY <2>2
<1> QED
  BY <1>3, <1>7, <1>8, <1>9 DEF Follows

\* remove_peer: the peer is not a provider any more.
LEMMA LeftByFollows ==
    ASSUME NEW entry \in EntrySet, NEW p, LeftBy(entry, p).selected.peer # p
    PROVE  Follows(entry, LeftBy(entry, p), {p})
<1> DEFINE s == entry.alternatives
           others == Others(s, p)
           left == With(entry, entry.selected, others)
           reset == [Promote(left) EXCEPT !.age = 0, !.retries = 0]
           after == IF left.selected.peer = p /\ left.alternatives # <<>> THEN reset ELSE left
<1>1. s \in Seq(ProviderSet) /\ entry.selected \in ProviderSet
  BY DEF EntrySet
<1>2. [entry EXCEPT !.alternatives = others] = left
  BY <1>1 DEF With, EntrySet
<1>3. after = LeftBy(entry, p)
  BY <1>2 DEF LeftBy
<1> HIDE DEF after, reset, left
<1>4. others \in Seq(ProviderSet) /\ ToSet(others) \subseteq ToSet(s) /\ \A r \in ToSet(others) : r.peer # p
  BY <1>1, OnlyRetains DEF Others
<1> HIDE DEF others
<1>5. ToSet(others) \subseteq Providers(entry) /\ entry.selected \in Providers(entry)
  BY <1>4 DEF Providers, s
<1> HIDE DEF s
<1>6. left \in EntrySet /\ left.selected = entry.selected /\ left.alternatives = others
  BY <1>1, <1>4, WithProviders DEF left
<1>7. CASE left.selected.peer = p /\ left.alternatives # <<>>
  <2> DEFINE first == Promote(left)
  <2>1. first \in EntrySet /\ Providers(first) \subseteq ToSet(others)
    BY <1>6, <1>7, PromoteFollows
  <2>2. reset = Stamped(first, 0, 0)
    BY DEF reset, Stamped
  <2> HIDE DEF first
  <2>3. reset \in EntrySet /\ Providers(reset) = Providers(first)
    BY <2>1, <2>2, WithClock DEF Providers
  <2>4. after = reset
    BY <1>7 DEF after
  <2> QED
    BY <1>3, <1>4, <1>5, <2>1, <2>3, <2>4 DEF Follows
<1>8. CASE ~(left.selected.peer = p /\ left.alternatives # <<>>)
  <2>1. after = left
    BY <1>8 DEF after
  <2>2. entry.selected.peer # p
    BY <1>3, <1>6, <2>1
  <2>3. Providers(after) = {entry.selected} \cup ToSet(others)
    BY <1>6, <2>1 DEF Providers
  <2> QED
    BY <1>3, <1>4, <1>5, <1>6, <2>1, <2>2, <2>3 DEF Follows
<1> QED
  BY <1>7, <1>8

LEMMA RetryFollows ==
    ASSUME NEW entry \in EntrySet
    PROVE  Follows(entry, Retry(entry), {})
<1> DEFINE turned == Rotate(entry)
           after == [turned EXCEPT !.selected.requested = TRUE, !.age = 0, !.retries = @ + 1]
<1>1. turned \in EntrySet /\ Providers(turned) \subseteq Providers(entry)
  <2>1. CASE entry.alternatives = <<>>
    BY <2>1 DEF Rotate
  <2>2. CASE entry.alternatives # <<>>
    <3> DEFINE first == Promote(entry)
               longer == Append(first.alternatives, entry.selected)
    <3>1. /\ first \in EntrySet /\ Providers(first) \subseteq ToSet(entry.alternatives)
          /\ first.selected \in ProviderSet /\ entry.selected \in ProviderSet
          /\ first.alternatives \in Seq(ProviderSet)
      BY <2>2, PromoteFollows DEF EntrySet
    <3>2. turned = [first EXCEPT !.alternatives = longer]
      BY <2>2 DEF Rotate
    <3> HIDE DEF turned, first
    <3>3. turned = With(first, first.selected, longer)
      BY <3>1, <3>2 DEF With, EntrySet
    <3>4. longer \in Seq(ProviderSet) /\ ToSet(longer) \subseteq ToSet(first.alternatives) \cup {entry.selected}
      BY <3>1, AppendedSet
    <3> HIDE DEF longer
    <3>5. turned \in EntrySet /\ turned.selected = first.selected /\ turned.alternatives = longer
      BY <3>1, <3>3, <3>4, WithProviders
    <3> QED
      BY <3>1, <3>4, <3>5 DEF Providers
  <2> QED
    BY <2>1, <2>2
<1>2. after = Retry(entry)
  BY DEF Retry
<1> HIDE DEF turned
<1>3. after \in EntrySet /\ after.selected.peer = turned.selected.peer
      /\ after.alternatives = turned.alternatives
  <2> DEFINE q == [turned.selected EXCEPT !.requested = TRUE]
             asks == [turned EXCEPT !.selected.requested = TRUE]
  <2>1. q \in ProviderSet /\ q.peer = turned.selected.peer
    BY <1>1 DEF ProviderSet, EntrySet
  <2>2. asks = With(turned, q, turned.alternatives)
    BY <1>1 DEF With, EntrySet
  <2>3. after = Stamped(asks, 0, turned.retries + 1)
    BY <1>1 DEF Stamped, EntrySet
  <2>4. turned.alternatives \in Seq(ProviderSet) /\ turned.retries + 1 \in Nat
    BY <1>1 DEF EntrySet
  <2> HIDE DEF q, asks, after
  <2>5. asks \in EntrySet /\ asks.selected = q /\ asks.alternatives = turned.alternatives
    BY <1>1, <2>1, <2>2, <2>4, WithProviders
  <2>6. after \in EntrySet /\ after.selected = asks.selected /\ after.alternatives = asks.alternatives
    BY <2>3, <2>4, <2>5, WithClock
  <2> QED
    BY <2>1, <2>5, <2>6
<1> HIDE DEF after
<1>4. ASSUME NEW r \in Providers(after) PROVE \E q \in Providers(entry) : r.peer = q.peer
  <2>1. CASE r = after.selected
    BY <1>1, <1>3, <2>1 DEF Providers
  <2>2. CASE r # after.selected
    BY <1>1, <1>3, <2>2 DEF Providers
  <2> QED
    BY <2>1, <2>2
<1> QED
  BY <1>2, <1>3, <1>4 DEF Follows

LEMMA EmptyVouched == ASSUME NEW A PROVE VouchedTable(EmptyTable, A)
<1> DEFINE w == EmptyTable
<1>1. w \in TableSet /\ w.entries = [e \in Events |-> NoEntry]
  BY DEF EmptyTable, TableSet
<1> HIDE DEF w
<1>2. Held(w) = {}
  BY <1>1 DEF Held
<1>3. VouchedTable(w, A)
  BY <1>1, <1>2 DEF VouchedTable
<1> QED
  BY <1>3 DEF w

\* More announcements vouch as well.
LEMMA MoreVouched ==
    ASSUME NEW w, NEW A, VouchedTable(w, A), NEW B, A \subseteq B
    PROVE  VouchedTable(w, B)
BY DEF VouchedTable, Vouched

AllVouched(held, changed, A) == \A e \in held : Vouched(changed[e], e, A)

LEMMA KeptVouched ==
    ASSUME NEW w \in TableSet, NEW A, NEW held \in SUBSET Events, NEW changed,
           AllVouched(held, changed, A)
    PROVE  VouchedTable(Kept(w, held, changed), A)
<1> DEFINE after == Kept(w, held, changed)
<1> DEFINE left == Only(w.order, held)
<1>0. w.order \in Seq(Events)
  BY DEF TableSet
<1>6. left \in Seq(Events)
  BY <1>0, OnlyRetains
<1> HIDE DEF left
<1>1. /\ after = [entries |-> after.entries, order |-> left]
      /\ after.entries = [e \in Events |-> IF e \in held THEN changed[e] ELSE NoEntry]
  BY DEF Kept, left
<1> HIDE DEF after
<1>2. Held(after) \subseteq held
  BY <1>1 DEF Held
<1>3. \A e \in held : after.entries[e] = changed[e]
  BY <1>1
<1>4. after.entries \in [Events -> EntrySet \cup {NoEntry}]
  BY <1>1 DEF AllVouched, Vouched
<1>7. after \in TableSet
  BY <1>1, <1>4, <1>6 DEF TableSet
<1>5. VouchedTable(after, A)
  BY <1>2, <1>3, <1>7 DEF VouchedTable, AllVouched
<1> QED
  BY <1>5 DEF after

LEMMA TakenVouched ==
    ASSUME NEW w, NEW A, VouchedTable(w, A), NEW e
    PROVE  VouchedTable(Taken(w, e), A)
<1>1. Held(w) \ {e} \in SUBSET Events /\ AllVouched(Held(w) \ {e}, w.entries, A)
  BY DEF Held, AllVouched, VouchedTable
<1> QED
  BY <1>1, KeptVouched DEF Taken, VouchedTable

LEMMA WithoutSubscriptionVouched ==
    ASSUME NEW w, NEW A, VouchedTable(w, A), NEW sub
    PROVE  VouchedTable(WithoutSubscription(w, sub), A)
<1> DEFINE left == [e \in Held(w) |-> Unsubscribed(w.entries[e], sub)]
           held == {e \in Held(w) : left[e].selected.subs # {}}
<1>1. held \in SUBSET Events /\ held \subseteq Held(w)
  BY DEF Held
<1>2. ASSUME NEW e \in Held(w) PROVE Vouched(left[e], e, A)
  <2>1. Vouched(w.entries[e], e, A) /\ w.entries[e] \in EntrySet
    BY DEF VouchedTable, Vouched
  <2>2. Follows(w.entries[e], Unsubscribed(w.entries[e], sub), {})
    BY <2>1, UnsubscribedFollows
  <2>3. Vouched(Unsubscribed(w.entries[e], sub), e, A)
    BY <2>1, <2>2, FollowsVouched, Unfiltered
  <2> QED
    BY <2>3
<1>3. AllVouched(held, left, A)
  BY <1>1, <1>2 DEF AllVouched
<1>4. WithoutSubscription(w, sub) = Kept(w, held, left)
  BY DEF WithoutSubscription
<1> HIDE DEF left, held
<1> QED
  BY <1>1, <1>3, <1>4, KeptVouched DEF VouchedTable

\* remove_peer: what is left is vouched for by the others.
LEMMA WithoutPeerVouched ==
    ASSUME NEW w, NEW A, VouchedTable(w, A), NEW p
    PROVE  VouchedTable(WithoutPeer(w, p), {a \in A : a[1] # p})
<1> DEFINE left == [e \in Held(w) |-> LeftBy(w.entries[e], p)]
           held == {e \in Held(w) : left[e].selected.peer # p}
           B == {a \in A : a[1] # p}
<1>1. held \in SUBSET Events /\ held \subseteq Held(w)
  BY DEF Held
<1>2. ASSUME NEW e \in held PROVE Vouched(left[e], e, B)
  <2>1. Vouched(w.entries[e], e, A) /\ w.entries[e] \in EntrySet /\ LeftBy(w.entries[e], p).selected.peer # p
    BY <1>1 DEF VouchedTable, Vouched
  <2>2. Follows(w.entries[e], LeftBy(w.entries[e], p), {p})
    BY <2>1, LeftByFollows
  <2>3. Vouched(LeftBy(w.entries[e], p), e, {a \in A : a[1] \notin {p}})
    BY <2>1, <2>2, FollowsVouched
  <2>4. {a \in A : a[1] \notin {p}} = B
    OBVIOUS
  <2> QED
    BY <2>3, <2>4
<1>3. AllVouched(held, left, B)
  BY <1>2 DEF AllVouched
<1>4. WithoutPeer(w, p) = Kept(w, held, left)
  BY DEF WithoutPeer
<1> HIDE DEF left, held
<1> QED
  BY <1>1, <1>3, <1>4, KeptVouched DEF VouchedTable

LEMMA RetriedVouched ==
    ASSUME NEW w, NEW A, VouchedTable(w, A), NEW due
    PROVE  VouchedTable(Retried(w, due), A)
<1> DEFINE again == due \ GivenUp(w, due)
           left == [e \in Held(w) |-> IF e \in again THEN Retry(w.entries[e]) ELSE w.entries[e]]
           held == Held(w) \ GivenUp(w, due)
<1>1. held \in SUBSET Events /\ held \subseteq Held(w)
  BY DEF Held
<1>2. ASSUME NEW e \in Held(w) PROVE Vouched(left[e], e, A)
  <2>1. Vouched(w.entries[e], e, A) /\ w.entries[e] \in EntrySet
    BY DEF VouchedTable, Vouched
  <2>2. Follows(w.entries[e], Retry(w.entries[e]), {})
    BY <2>1, RetryFollows
  <2>3. Vouched(Retry(w.entries[e]), e, A)
    BY <2>1, <2>2, FollowsVouched, Unfiltered
  <2> QED
    BY <2>1, <2>3
<1>3. AllVouched(held, left, A)
  BY <1>1, <1>2 DEF AllVouched
<1>4. Retried(w, due) = Kept(w, held, left)
  BY DEF Retried
<1> HIDE DEF left, held
<1> QED
  BY <1>1, <1>3, <1>4, KeptVouched DEF VouchedTable

LEMMA EvictVouched ==
    ASSUME NEW w, NEW A, VouchedTable(w, A), w.order # <<>>
    PROVE  VouchedTable(Evict(w), A)
<1> DEFINE first == Head(w.order)
           after == [entries |-> [w.entries EXCEPT ![first] = NoEntry], order |-> Tail(w.order)]
<1>1. after = [entries |-> after.entries, order |-> Tail(w.order)]
      /\ after.entries = [w.entries EXCEPT ![first] = NoEntry]
  OBVIOUS
<1>2. Evict(w) = w \/ Evict(w) = after
  BY DEF Evict
<1> HIDE DEF first, after
<1>3. w.entries \in [Events -> EntrySet \cup {NoEntry}] /\ Tail(w.order) \in Seq(Events)
  BY DEF VouchedTable, TableSet
<1>4. after.entries \in [Events -> EntrySet \cup {NoEntry}]
      /\ \A e \in Events : after.entries[e] \in {NoEntry, w.entries[e]}
  BY <1>1, <1>3
<1>5. \A e \in Held(after) : e \in Held(w) /\ after.entries[e] = w.entries[e]
  BY <1>4 DEF Held
<1>6. after \in TableSet
  <2> DEFINE t == Tail(w.order)
             f == after.entries
  <2>1. t \in Seq(Events) /\ f \in [Events -> EntrySet \cup {NoEntry}]
        /\ after = [entries |-> f, order |-> t]
    BY <1>1, <1>3, <1>4
  <2> HIDE DEF t, f
  <2> QED
    BY <2>1 DEF TableSet
<1>7. VouchedTable(after, A)
  BY <1>5, <1>6 DEF VouchedTable
<1> QED
  BY <1>2, <1>7

\* insert, of an inventory of a peer that has announced the event.
LEMMA InsertVouched ==
    ASSUME NEW w, NEW A, VouchedTable(w, A), NEW e \in Events, NEW p \in Peers, <<p, e>> \in A,
           NEW subs \in SUBSET Subs, NEW claim \in Claims
    PROVE  VouchedTable(Insert(w, e, p, subs, claim), A)
<1> DEFINE first == [selected |-> Provider(p, subs, TRUE), alternatives |-> <<>>,
                     claim |-> claim, age |-> 0, retries |-> 0]
           Put(entry, order) == [entries |-> [w.entries EXCEPT ![e] = entry], order |-> order]
<1>1. w.entries \in [Events -> EntrySet \cup {NoEntry}] /\ w = [entries |-> w.entries, order |-> w.order]
      /\ w.order \in Seq(Events)
  BY DEF VouchedTable, TableSet
<1>2. ASSUME NEW entry, Vouched(entry, e, A), NEW order \in Seq(Events) PROVE VouchedTable(Put(entry, order), A)
  <2> DEFINE after == Put(entry, order)
  <2>1. after = [entries |-> after.entries, order |-> order]
        /\ after.entries = [w.entries EXCEPT ![e] = entry]
    OBVIOUS
  <2> HIDE DEF after
  <2>2. entry \in EntrySet
    BY <1>2 DEF Vouched
  <2>3. after.entries \in [Events -> EntrySet \cup {NoEntry}]
        /\ \A x \in Events : after.entries[x] = IF x = e THEN entry ELSE w.entries[x]
    BY <1>1, <2>1, <2>2
  <2>4. \A x \in Held(after) : x = e \/ (x \in Held(w) /\ after.entries[x] = w.entries[x])
    BY <2>3 DEF Held
  <2>5. \A x \in Held(after) : Vouched(after.entries[x], x, A)
    BY <1>2, <2>3, <2>4 DEF VouchedTable, Held
  <2>7. after \in TableSet
    BY <2>1, <2>3 DEF TableSet
  <2>6. VouchedTable(after, A)
    BY <2>5, <2>7 DEF VouchedTable
  <2> QED
    BY <2>6 DEF after
<1>3. Vouched(first, e, A)
  <2> DEFINE q == Provider(p, subs, TRUE)
  <2>1. q \in ProviderSet /\ q.peer = p
    BY DEF Provider, ProviderSet
  <2>2. first = [selected |-> q, alternatives |-> <<>>, claim |-> claim, age |-> 0, retries |-> 0]
        /\ <<>> \in Seq(ProviderSet)
    OBVIOUS
  <2> HIDE DEF q, first
  <2>3. first \in EntrySet /\ first.selected = q /\ first.alternatives = <<>>
    BY <2>1, <2>2 DEF EntrySet
  <2>4. Providers(first) = {q}
    BY <2>3 DEF Providers, ToSet
  <2> QED
    BY <2>1, <2>3, <2>4 DEF Vouched
<1> HIDE DEF first
<1>4. CASE e \in Held(w)
  <2> DEFINE entry == Join(w.entries[e], p, subs, claim)
  <2>1. Vouched(w.entries[e], e, A)
    BY <1>4 DEF VouchedTable
  <2>2. Vouched(entry, e, A)
    BY <2>1, JoinVouched
  <2>3. Insert(w, e, p, subs, claim) = [w EXCEPT !.entries[e] = entry]
    BY <1>4 DEF Insert
  <2> HIDE DEF entry
  <2>4. [w EXCEPT !.entries[e] = entry] = Put(entry, w.order)
    BY <1>1
  <2>5. VouchedTable(Put(entry, w.order), A)
    BY <1>1, <1>2, <2>2
  <2> QED
    BY <2>3, <2>4, <2>5, Zenon
<1>5. CASE e \notin Held(w)
  <2> DEFINE longer == Append(w.order, e)
  <2>1. Insert(w, e, p, subs, claim) = Evict(Put(first, longer))
    BY <1>5 DEF Insert, InsertNew, first
  <2>4. longer \in Seq(Events) /\ longer # <<>>
    <3>1. w.order \in Seq(Events)
      BY <1>1
    <3> QED
      BY <3>1, Appended
  <2> HIDE DEF longer
  <2>2. VouchedTable(Put(first, longer), A) /\ Put(first, longer).order # <<>>
    BY <1>2, <1>3, <2>4
  <2> HIDE DEF Put
  <2>3. VouchedTable(Evict(Put(first, longer)), A)
    BY <2>2, EvictVouched
  <2> QED
    BY <2>1, <2>3
<1> QED
  BY <1>4, <1>5

-----------------------------------------------------------------------------
(* The shared client *)

SubsSet == [Subs -> (SUBSET Peers) \cup {Closed}]
CachedSet == [event : Events, hops : {0}]
RecentSet == [ids : Seq(Events), entries : Seq(CachedSet)]
InventoriesSet == SUBSET (Peers \X Subs \X Events)
FullsSet == SUBSET (Peers \X (Subs \cup {NoSub}) \X Events \X BOOLEAN)
Commands == Peers \cup {"send"}
DeliveriesSet == [Subs -> DeliverySet]
OutboxSet == Seq(Commands)
ClientSet ==
    [subs : SubsSet, delivery : DeliveriesSet, recent : RecentSet, wants : TableSet,
     inventories : InventoriesSet, fulls : FullsSet, outbox : OutboxSet]

\* The client x is sound when g has been received and A announced.
Fine(x, g, A) ==
    /\ x \in ClientSet /\ VouchedTable(x.wants, A)
    /\ \A s \in Subs : Delivering(x.delivery[s], g[s])

\* From x to y nothing is opened, lost, or admitted by what is not open.
Onward(x, y, g) ==
    /\ Active(y) \subseteq Active(x)
    /\ \A s \in Subs : /\ Advances(x.delivery[s], y.delivery[s], g[s])
                       /\ s \notin Active(x) => y.delivery[s] = x.delivery[s]

\* What the properties are about is the same in y.
Same(x, y) == y.subs = x.subs /\ y.delivery = x.delivery /\ y.recent = x.recent /\ y.wants = x.wants

LEMMA OnwardItself ==
    ASSUME NEW x, NEW g, NEW A, Fine(x, g, A)
    PROVE  Onward(x, x, g)
BY SameAdvances DEF Onward, Fine

LEMMA OnwardOn ==
    ASSUME NEW x, NEW y, NEW z, NEW g, Onward(x, y, g), Onward(y, z, g)
    PROVE  Onward(x, z, g)
<1>1. ASSUME NEW s \in Subs PROVE Advances(x.delivery[s], z.delivery[s], g[s])
  <2>1. Advances(x.delivery[s], y.delivery[s], g[s]) /\ Advances(y.delivery[s], z.delivery[s], g[s])
    BY DEF Onward
  <2> QED
    BY <2>1, AdvancesOn
<1>2. ASSUME NEW s \in Subs, s \notin Active(x) PROVE z.delivery[s] = x.delivery[s]
  BY <1>2 DEF Onward
<1> QED
  BY <1>1, <1>2 DEF Onward

LEMMA SameFine ==
    ASSUME NEW x, NEW g, NEW A, Fine(x, g, A), NEW y \in ClientSet, Same(x, y)
    PROVE  Fine(y, g, A) /\ Onward(x, y, g) /\ Active(y) = Active(x)
<1>1. Fine(y, g, A) /\ Active(y) = Active(x)
  BY DEF Fine, Same, Active
<1>2. Onward(x, x, g)
  BY OnwardItself
<1> QED
  BY <1>1, <1>2 DEF Onward, Same

\* Fewer peers are counted on, or fewer wants pending.
LEMMA LessFine ==
    ASSUME NEW x, NEW g, NEW A, Fine(x, g, A), NEW y \in ClientSet, NEW B,
           y.delivery = x.delivery, Active(y) \subseteq Active(x), VouchedTable(y.wants, B)
    PROVE  Fine(y, g, B) /\ Onward(x, y, g)
<1>1. Fine(y, g, B)
  BY DEF Fine
<1>2. Onward(x, x, g)
  BY OnwardItself
<1> QED
  BY <1>1, <1>2 DEF Onward

\* A command finds a place or is lost.
LEMMA QueueSame ==
    ASSUME NEW x \in ClientSet, NEW command \in Commands, NEW n \in Nat
    PROVE  Queue(x, command, n) \in ClientSet /\ Same(x, Queue(x, command, n))
<1> DEFINE k == Min({n, Room(x)})
           more == [i \in 1..k |-> command]
           outbox == x.outbox \o more
<1>1. x.outbox \in Seq(Commands) /\ OutboxCap \in Nat
  BY ClientAssumption DEF ClientSet, OutboxSet
<1>2. k \in Int
  <2>1. Room(x) \in Int
    BY <1>1 DEF Room
  <2> HIDE DEF k
  <2>3. n \in Int
    OBVIOUS
  <2>2. k \in {n, Room(x)}
    BY <2>1, <2>3, Lesser, Zenon DEF k
  <2> QED
    BY <2>1, <2>2
<1> HIDE DEF k
<1>3. more \in Seq(Commands)
  <2>1. CASE k >= 0
    BY <1>2, <2>1
  <2>2. CASE k < 0
    <3>1. 1..k = {}
      BY <1>2, <2>2
    <3>2. more = <<>> /\ <<>> \in Seq(Commands)
      BY <3>1
    <3> HIDE DEF more
    <3> QED
      BY <3>2
  <2> QED
    BY <1>2, <2>1, <2>2
<1> HIDE DEF more
<1>4. outbox \in OutboxSet
  BY <1>1, <1>3, ConcatProperties, Zenon DEF OutboxSet
<1>5. Queue(x, command, n) = [x EXCEPT !.outbox = outbox]
  BY DEF Queue, more, k
<1> HIDE DEF outbox
<1> QED
  BY <1>4, <1>5 DEF ClientSet, Same

\* close_subscription
Closes(x, y, g, A, closing) ==
    /\ Fine(y, g, A) /\ Onward(x, y, g)
    /\ Active(y) = Active(x) \ closing /\ y.recent = x.recent

LEMMA CloseSubFine ==
    ASSUME NEW x, NEW g, NEW A, Fine(x, g, A), NEW s \in Subs
    PROVE  Closes(x, CloseSub(x, s), g, A, {s})
<1>1. CASE s \notin Active(x)
  BY <1>1, OnwardItself DEF CloseSub, Closes
<1>2. CASE s \in Active(x)
  <2> DEFINE subs == [x.subs EXCEPT ![s] = Closed]
             delivery == [x.delivery EXCEPT ![s] = CloseDelivery(x.delivery[s])]
             wants == WithoutSubscription(x.wants, s)
             inventories == {o \in x.inventories : o[2] # s}
             y == [x EXCEPT !.subs = subs, !.delivery = delivery, !.wants = wants,
                            !.inventories = inventories]
             n == Cardinality(x.subs[s])
  <2>1. /\ x \in ClientSet /\ x.subs \in SubsSet /\ x.delivery \in DeliveriesSet
        /\ x.inventories \in InventoriesSet /\ x.recent \in RecentSet
        /\ \A t \in Subs : Delivering(x.delivery[t], g[t])
    BY DEF Fine, ClientSet
  <2>2. CloseSub(x, s) = Queue(y, "send", n)
    BY <1>2 DEF CloseSub
  <2>3. n \in Nat
    <3>1. x.subs[s] \in SUBSET Peers
      BY <1>2, <2>1 DEF Active, SubsSet
    <3>2. IsFiniteSet(x.subs[s])
      BY <3>1, ClientAssumption, FS_Subset
    <3> QED
      BY <3>2, FS_CardinalityType
  <2>4. subs \in SubsSet /\ subs[s] = Closed /\ \A t \in Subs \ {s} : subs[t] = x.subs[t]
    BY <2>1 DEF SubsSet
  <2>5. Advances(x.delivery[s], CloseDelivery(x.delivery[s]), g[s])
    BY <2>1, CloseAdvances
  <2>6. /\ delivery \in DeliveriesSet /\ delivery[s] = CloseDelivery(x.delivery[s])
        /\ \A t \in Subs \ {s} : delivery[t] = x.delivery[t]
    <3>1. CloseDelivery(x.delivery[s]) \in DeliverySet
      BY <2>5 DEF Advances, Delivering
    <3> QED
      BY <2>1, <3>1 DEF DeliveriesSet
  <2>7. VouchedTable(wants, A) /\ wants \in TableSet
    BY WithoutSubscriptionVouched DEF Fine, VouchedTable
  <2>8. inventories \in InventoriesSet
    BY <2>1 DEF InventoriesSet
  <2> HIDE DEF subs, delivery, wants, inventories, n
  <2>9. /\ y \in ClientSet /\ y.subs = subs /\ y.delivery = delivery /\ y.wants = wants
        /\ y.recent = x.recent
    BY <2>1, <2>4, <2>6, <2>7, <2>8 DEF ClientSet
  <2> HIDE DEF y
  <2>10. Active(y) = Active(x) \ {s}
    BY <2>4, <2>9 DEF Active
  <2>11. Onward(x, x, g)
    BY OnwardItself
  <2>12. \A t \in Subs : Advances(x.delivery[t], y.delivery[t], g[t])
    BY <2>5, <2>6, <2>9, <2>11 DEF Onward
  <2>13. Onward(x, y, g)
    BY <1>2, <2>6, <2>9, <2>10, <2>12 DEF Onward
  <2>14. Fine(y, g, A)
    BY <2>7, <2>9, <2>12 DEF Fine, Advances
  <2> DEFINE z == Queue(y, "send", n)
  <2>15. z \in ClientSet /\ Same(y, z)
    BY <2>3, <2>9, QueueSame DEF Commands
  <2> HIDE DEF z
  <2>16. Fine(z, g, A) /\ Onward(y, z, g) /\ Active(z) = Active(y) /\ z.recent = x.recent
    BY <2>9, <2>14, <2>15, SameFine DEF Same
  <2>17. Onward(x, z, g)
    BY <2>13, <2>16, OnwardOn
  <2> QED
    BY <2>2, <2>10, <2>16, <2>17 DEF Closes, z
<1> QED
  BY <1>1, <1>2

\* One subscription after the other, in any order.
LEMMA CloseSubsFine ==
    ASSUME NEW x, NEW g, NEW A, Fine(x, g, A), NEW closing \in SUBSET Subs
    PROVE  Closes(x, CloseSubs(x, closing), g, A, closing)
<1> DEFINE Pick(T) == CHOOSE s \in T : TRUE
           pick == [T \in SUBSET closing |-> Pick(T)]
           Folds(f) == f = [T \in SUBSET closing |-> IF T = {} THEN x
                                ELSE CloseSub(f[T \ {Pick(T)}], Pick(T))]
           result == CHOOSE f : Folds(f)
           V == {y \in ClientSet : Fine(y, g, A) /\ Onward(x, y, g)}
           F == [pair \in closing \X V |-> CloseSub(pair[2], pair[1])]
           G == {T \in SUBSET closing : Closes(x, result[T], g, A, T)}
<1>1. CloseSubs(x, closing) = result[closing]
  BY Zenon DEF CloseSubs, FoldSet, MapThenFoldSet
<1>2. IsFiniteSet(closing)
  BY ClientAssumption, FS_Subset
<1>3. \A T \in SUBSET closing : pick[T] = Pick(T) /\ (T # {} => Pick(T) \in T)
  OBVIOUS
<1>4. ASSUME NEW s \in closing, NEW y \in V PROVE CloseSub(y, s) \in V
  <2>1. Closes(y, CloseSub(y, s), g, A, {s})
    BY CloseSubFine
  <2>2. Onward(x, CloseSub(y, s), g)
    BY <2>1, OnwardOn DEF Closes
  <2> QED
    BY <2>1, <2>2 DEF Closes, Fine
<1>5. F \in [closing \X V -> V] /\ \A s \in closing, y \in V : F[<<s, y>>] = CloseSub(y, s)
  BY <1>4
<1>6. x \in V
  BY OnwardItself DEF Fine
<1> HIDE DEF F, V, pick, Pick
<1>7. PICK f \in [SUBSET closing -> V] : Recurses(f, closing, pick, x, F)
  <2>1. \A T \in SUBSET closing : T # {} => pick[T] \in T
    BY <1>3
  <2>2. F \in [closing \X V -> V]
    BY <1>5
  <2> QED
    BY <1>2, <1>6, <2>1, <2>2, SetRecursion
<1>8. Folds(f)
  <2>1. ASSUME NEW T \in SUBSET closing
        PROVE  f[T] = IF T = {} THEN x ELSE CloseSub(f[T \ {Pick(T)}], Pick(T))
    <3>1. f[T] = IF T = {} THEN x ELSE F[<<pick[T], f[T \ {pick[T]}]>>]
      BY <1>7 DEF Recurses
    <3>2. CASE T # {}
      <4>1. pick[T] = Pick(T) /\ Pick(T) \in closing /\ T \ {Pick(T)} \in SUBSET closing
        BY <1>3, <3>2
      <4>2. f[T \ {Pick(T)}] \in V
        BY <4>1
      <4>3. F[<<Pick(T), f[T \ {Pick(T)}]>>] = CloseSub(f[T \ {Pick(T)}], Pick(T))
        BY <1>5, <4>1, <4>2
      <4> QED
        BY <3>1, <3>2, <4>1, <4>3
    <3> QED
      BY <3>1, <3>2
  <2> QED
    BY <2>1
<1>9. Folds(result)
  BY <1>8, Zenon
<1> HIDE DEF result
<1>10. result[{}] = x
       /\ \A T \in SUBSET closing : T # {} => result[T] = CloseSub(result[T \ {Pick(T)}], Pick(T))
  BY <1>9
<1>11. ASSUME NEW T \in SUBSET closing, \A U \in SUBSET T : U # T => U \in G PROVE T \in G
  <2>1. CASE T = {}
    <3>1. Active(x) = Active(x) \ {}
      OBVIOUS
    <3>2. Closes(x, x, g, A, {})
      BY <3>1, OnwardItself DEF Closes
    <3> QED
      BY <1>10, <2>1, <3>2
  <2>2. CASE T # {}
    <3> DEFINE s == Pick(T)
               U == T \ {s}
               y == result[U]
    <3>1. s \in T /\ U \in SUBSET T /\ U # T /\ s \in Subs
      BY <1>3, <2>2
    <3>2. Closes(x, y, g, A, U)
      <4>1. U \in G
        BY <1>11, <3>1
      <4> QED
        BY <4>1
    <3>3. result[T] = CloseSub(y, s)
      BY <1>10, <2>2
    <3> HIDE DEF y, U, s
    <3>4. Closes(y, CloseSub(y, s), g, A, {s})
      BY <3>1, <3>2, CloseSubFine DEF Closes
    <3>5. Onward(x, CloseSub(y, s), g)
      BY <3>2, <3>4, OnwardOn DEF Closes
    <3>6. Active(CloseSub(y, s)) = Active(x) \ T
      <4>1. Active(CloseSub(y, s)) = (Active(x) \ U) \ {s}
        BY <3>2, <3>4 DEF Closes
      <4>2. (Active(x) \ U) \ {s} = Active(x) \ T
        BY <3>1 DEF U
      <4> QED
        BY <4>1, <4>2
    <3>7. Closes(x, CloseSub(y, s), g, A, T)
      BY <3>2, <3>4, <3>5, <3>6 DEF Closes
    <3> QED
      BY <3>3, <3>7
  <2> QED
    BY <2>1, <2>2
<1> HIDE DEF G
<1>12. closing \in G
  BY <1>2, <1>11, SubsetInduction
<1>13. Closes(x, result[closing], g, A, closing)
  BY <1>12 DEF G
<1> QED
  BY <1>1, <1>13

\* Deliveries that advance, of what is open.
LEMMA ToldFine ==
    ASSUME NEW x, NEW g, NEW A, Fine(x, g, A), NEW delivery, DOMAIN delivery = Subs,
           delivery = [s \in Subs |-> delivery[s]],
           \A s \in Subs : /\ Advances(x.delivery[s], delivery[s], g[s])
                           /\ s \notin Active(x) => delivery[s] = x.delivery[s]
    PROVE  LET y == [x EXCEPT !.delivery = delivery] IN
           /\ Fine(y, g, A) /\ Onward(x, y, g) /\ Active(y) = Active(x)
           /\ y.recent = x.recent /\ y.delivery = delivery
<1> DEFINE y == [x EXCEPT !.delivery = delivery]
<1>1. delivery \in DeliveriesSet
  BY DEF Advances, Delivering, DeliveriesSet
<1>2. y \in ClientSet /\ y.subs = x.subs /\ y.wants = x.wants /\ y.recent = x.recent
      /\ y.delivery = delivery
  BY <1>1 DEF Fine, ClientSet
<1> HIDE DEF y
<1>3. Active(y) = Active(x)
  BY <1>2 DEF Active
<1>4. Fine(y, g, A)
  BY <1>2 DEF Fine, Advances
<1>5. Onward(x, y, g)
  BY <1>2, <1>3 DEF Onward
<1> QED
  BY <1>2, <1>3, <1>4, <1>5 DEF y

\* deliver_local
LEMMA DeliverToFine ==
    ASSUME NEW x, NEW g, NEW A, Fine(x, g, A), NEW targets, targets \subseteq Active(x),
           NEW e \in Events
    PROVE  /\ Fine(DeliverTo(x, targets, e), g, A) /\ Onward(x, DeliverTo(x, targets, e), g)
           /\ DeliverTo(x, targets, e).recent = x.recent
<1> DEFINE delivery == [s \in Subs |-> IF s \in targets THEN Enqueue(x.delivery[s], e) ELSE x.delivery[s]]
           told == [x EXCEPT !.delivery = delivery]
           closing == {s \in targets : told.delivery[s].status = "lagged"}
<1>1. DeliverTo(x, targets, e) = CloseSubs(told, closing)
  BY DEF DeliverTo
<1>2. ASSUME NEW s \in Subs
      PROVE  /\ Advances(x.delivery[s], delivery[s], g[s])
             /\ s \notin Active(x) => delivery[s] = x.delivery[s]
  <2>1. Delivering(x.delivery[s], g[s])
    BY DEF Fine
  <2>2. Advances(x.delivery[s], Enqueue(x.delivery[s], e), g[s])
    BY <2>1, EnqueueKeeps
  <2>3. Advances(x.delivery[s], x.delivery[s], g[s])
    BY <2>1, SameAdvances
  <2> QED
    BY <2>2, <2>3
<1>3. DOMAIN delivery = Subs /\ delivery = [s \in Subs |-> delivery[s]]
  OBVIOUS
<1>4. closing \in SUBSET Subs
  BY DEF Active
<1> HIDE DEF delivery, closing
<1>5. Fine(told, g, A) /\ Onward(x, told, g) /\ told.recent = x.recent
  BY <1>2, <1>3, ToldFine
<1> HIDE DEF told
<1>6. Closes(told, CloseSubs(told, closing), g, A, closing)
  BY <1>4, <1>5, CloseSubsFine
<1>7. Onward(x, CloseSubs(told, closing), g)
  BY <1>5, <1>6, OnwardOn DEF Closes
<1> QED
  BY <1>1, <1>5, <1>6, <1>7 DEF Closes

\* replay_local_events: a cached body after the other.
LEMMA ReplayAdvances ==
    ASSUME NEW d, NEW g, Delivering(d, g), NEW cached \in Seq(CachedSet)
    PROVE  Advances(d, FoldLeft(LAMBDA x, r : Enqueue(x, r.event), d, cached), g)
<1> DEFINE n == Len(cached)
           V == {x \in DeliverySet : Advances(d, x, g)}
           F == [pair \in (1..n) \X V |-> Enqueue(pair[2], cached[pair[1]].event)]
           Folds(f) == f = [T \in SUBSET DOMAIN cached |-> IF T = {} THEN d
                                ELSE Enqueue(f[T \ {Max(T)}], cached[Max(T)].event)]
           result == CHOOSE f : Folds(f)
<1>1. n \in Nat /\ DOMAIN cached = 1..n /\ d \in V
  <2>1. Advances(d, d, g) /\ d \in DeliverySet
    BY SameAdvances DEF Delivering
  <2> QED
    BY <2>1
<1>2. FoldLeft(LAMBDA x, r : Enqueue(x, r.event), d, cached) = result[DOMAIN cached]
  BY Zenon DEF FoldLeft, MapThenFoldSet
<1>3. ASSUME NEW i \in 1..n, NEW x \in V PROVE Enqueue(x, cached[i].event) \in V
  <2>1. cached[i] \in CachedSet
    BY <1>1
  <2>2. cached[i].event \in Events
    BY <2>1 DEF CachedSet
  <2>3. Advances(x, Enqueue(x, cached[i].event), g)
    BY <2>2, EnqueueKeeps DEF Advances
  <2>4. Advances(d, Enqueue(x, cached[i].event), g)
    BY <2>3, AdvancesOn
  <2> QED
    BY <2>4 DEF Advances, Delivering
<1>4. F \in [(1..n) \X V -> V] /\ \A i \in 1..n, x \in V : F[<<i, x>>] = Enqueue(x, cached[i].event)
  BY <1>3
<1> HIDE DEF F, V, n
<1>5. \A T \in SUBSET (1..n) : T # {} => Max(T) \in T
  BY <1>1, GreatestIn
<1>6. PICK k : FoldFn(k, n, V, d, F)
  BY <1>1, <1>4, FoldExists
<1>7. Folds(k)
  <2>1. ASSUME NEW T \in SUBSET (1..n)
        PROVE  k[T] = IF T = {} THEN d ELSE Enqueue(k[T \ {Max(T)}], cached[Max(T)].event)
    <3>1. CASE T # {}
      <4>1. Max(T) \in 1..n /\ k[T \ {Max(T)}] \in V
        BY <1>5, <1>6, <3>1 DEF FoldFn
      <4> QED
        BY <1>4, <1>6, <3>1, <4>1 DEF FoldFn
    <3> QED
      BY <1>6, <3>1 DEF FoldFn
  <2> QED
    BY <1>1, <1>6, <2>1 DEF FoldFn
<1>8. Folds(result)
  BY <1>7, Zenon
<1> HIDE DEF result
<1>9. result[{}] = d /\ \A T \in SUBSET (1..n) :
            T # {} => result[T] = Enqueue(result[T \ {Max(T)}], cached[Max(T)].event)
  BY <1>1, <1>8
<1>10. \A T \in SUBSET (1..n) : T # {} /\ result[T \ {Max(T)}] \in V
            => result[T] = F[<<Max(T), result[T \ {Max(T)}]>>]
  <2>1. ASSUME NEW T \in SUBSET (1..n), T # {}, result[T \ {Max(T)}] \in V
        PROVE  result[T] = F[<<Max(T), result[T \ {Max(T)}]>>]
    <3>1. Max(T) \in 1..n
      BY <1>5, <2>1
    <3> QED
      BY <1>4, <1>9, <2>1, <3>1
  <2> QED
    BY <2>1
<1>11. FoldsOver(result, n, V, d, F)
  BY <1>9, <1>10 DEF FoldsOver
<1>12. result[1..n] \in V
  BY <1>1, <1>4, <1>11, FoldSteps
<1> QED
  BY <1>1, <1>2, <1>12 DEF V

\* insert, of a body just delivered.
LEMMA RememberFine ==
    ASSUME NEW x, NEW g, NEW A, Fine(x, g, A), NEW e \in Events
    PROVE  LET y == [x EXCEPT !.recent = Remember(@, e, 0)] IN
           Fine(y, g, A) /\ Onward(x, y, g)
<1> DEFINE r == x.recent
           new == [event |-> e, hops |-> 0]
           recent == Remember(r, e, 0)
           y == [x EXCEPT !.recent = recent]
<1>1. /\ x \in ClientSet /\ r \in RecentSet /\ r.ids \in Seq(Events) /\ r.entries \in Seq(CachedSet)
      /\ MaxSeenIds \in Nat /\ MaxPayloads \in Nat
  BY ClientAssumption DEF Fine, ClientSet, RecentSet
<1> HIDE DEF r
<1>2. new \in CachedSet
  BY DEF CachedSet
<1>3. recent \in RecentSet
  <2>1. Append(r.ids, e) \in Seq(Events) /\ Append(r.entries, new) \in Seq(CachedSet)
    BY <1>1, <1>2, AppendedSet
  <2> HIDE DEF new
  <2>2. Newest(Append(r.ids, e), MaxSeenIds) \in Seq(Events)
    BY <1>1, <2>1, NewestType
  <2>3. Newest(Append(r.entries, new), MaxPayloads) \in Seq(CachedSet)
    BY <1>1, <2>1, NewestType
  <2>4. recent = r \/ recent = [ids |-> Newest(Append(r.ids, e), MaxSeenIds),
                                entries |-> Newest(Append(r.entries, new), MaxPayloads)]
    BY DEF Remember, new
  <2> HIDE DEF recent
  <2> QED
    BY <1>1, <2>2, <2>3, <2>4 DEF RecentSet
<1> HIDE DEF recent
<1>4. y \in ClientSet /\ y.subs = x.subs /\ y.delivery = x.delivery /\ y.wants = x.wants
  BY <1>1, <1>3 DEF ClientSet
<1> HIDE DEF y
<1>5. VouchedTable(y.wants, A) /\ Active(y) \subseteq Active(x)
  BY <1>4 DEF Fine, Active
<1>6. Fine(y, g, A) /\ Onward(x, y, g)
  BY <1>4, <1>5, LessFine
<1> QED
  BY <1>6 DEF y, recent, r

\* reset_peer_epoch: nothing of the peer is left.
LEMMA ResetFine ==
    ASSUME NEW x, NEW g, NEW A, Fine(x, g, A), NEW p
    PROVE  LET y == ResetPeerEpoch(x, p) IN
           /\ Fine(y, g, {a \in A : a[1] # p}) /\ Onward(x, y, g) /\ y.subs = x.subs
           /\ y.delivery = x.delivery
<1> DEFINE inventories == {o \in x.inventories : o[1] # p}
           fulls == {o \in x.fulls : o[1] # p}
           wants == WithoutPeer(x.wants, p)
           B == {a \in A : a[1] # p}
           y == [x EXCEPT !.inventories = inventories, !.fulls = fulls, !.wants = wants]
<1>1. x \in ClientSet /\ x.inventories \in InventoriesSet /\ x.fulls \in FullsSet
  BY DEF Fine, ClientSet
<1>2. inventories \in InventoriesSet /\ fulls \in FullsSet
  BY <1>1 DEF InventoriesSet, FullsSet
<1>3. VouchedTable(wants, B) /\ wants \in TableSet
  <2>1. VouchedTable(x.wants, A)
    BY DEF Fine
  <2>2. VouchedTable(wants, B)
    BY <2>1, WithoutPeerVouched
  <2> QED
    BY <2>2 DEF VouchedTable
<1>4. y = ResetPeerEpoch(x, p)
  BY DEF ResetPeerEpoch
<1> HIDE DEF inventories, fulls, wants, B
<1>5. y \in ClientSet /\ y.subs = x.subs /\ y.delivery = x.delivery /\ y.wants = wants
  BY <1>1, <1>2, <1>3 DEF ClientSet
<1> HIDE DEF y
<1>6. Active(y) \subseteq Active(x) /\ VouchedTable(y.wants, B)
  BY <1>3, <1>5 DEF Active
<1>7. Fine(y, g, B) /\ Onward(x, y, g)
  BY <1>5, <1>6, LessFine
<1> QED
  BY <1>4, <1>5, <1>7 DEF B

\* The peers that open subscriptions count on change.
LEMMA CountedFine ==
    ASSUME NEW x, NEW g, NEW A, Fine(x, g, A), NEW subs \in SubsSet,
           \A s \in Subs : s \notin Active(x) => subs[s] = Closed
    PROVE  LET y == [x EXCEPT !.subs = subs] IN
           Fine(y, g, A) /\ Onward(x, y, g) /\ y.subs = subs
<1> DEFINE y == [x EXCEPT !.subs = subs]
<1>1. y \in ClientSet /\ y.subs = subs /\ y.delivery = x.delivery /\ y.wants = x.wants
  BY DEF Fine, ClientSet
<1> HIDE DEF y
<1>2. Active(y) \subseteq Active(x) /\ VouchedTable(y.wants, A)
  BY <1>1 DEF Active, Fine
<1>3. Fine(y, g, A) /\ Onward(x, y, g)
  BY <1>1, <1>2, LessFine
<1> QED
  BY <1>1, <1>3 DEF y

LEMMA ForgetFine ==
    ASSUME NEW x, NEW g, NEW A, Fine(x, g, A), NEW p
    PROVE  LET y == ForgetPeerState(x, p) IN
           Fine(y, g, {a \in A : a[1] # p}) /\ Onward(x, y, g)
<1> DEFINE z == ResetPeerEpoch(x, p)
           B == {a \in A : a[1] # p}
           subs == [s \in Subs |-> IF s \in Active(x) THEN z.subs[s] \ {p} ELSE Closed]
           y == [z EXCEPT !.subs = subs]
<1>1. Fine(z, g, B) /\ Onward(x, z, g) /\ z.subs = x.subs
  BY ResetFine
<1>2. y = ForgetPeerState(x, p)
  BY DEF ForgetPeerState
<1> HIDE DEF z, B
<1>3. \A s \in Active(x) : z.subs[s] \in SUBSET Peers
  BY <1>1 DEF Fine, ClientSet, SubsSet, Active
<1>4. subs \in SubsSet /\ \A s \in Subs : s \notin Active(z) => subs[s] = Closed
  BY <1>1, <1>3 DEF SubsSet, Active
<1> HIDE DEF subs
<1>5. Fine(y, g, B) /\ Onward(z, y, g)
  BY <1>1, <1>4, CountedFine
<1> HIDE DEF y
<1>6. Onward(x, y, g)
  BY <1>1, <1>5, OnwardOn
<1> QED
  BY <1>2, <1>5, <1>6 DEF B

LEMMA OfferedFine ==
    ASSUME NEW x, NEW g, NEW A, Fine(x, g, A), NEW p \in Peers
    PROVE  Fine(Offered(x, p), g, A) /\ Onward(x, Offered(x, p), g)
<1> DEFINE subs == [s \in Subs |-> IF s \in Active(x) THEN x.subs[s] \cup {p} ELSE Closed]
<1>1. \A s \in Active(x) : x.subs[s] \in SUBSET Peers
  BY DEF Fine, ClientSet, SubsSet, Active
<1>2. subs \in SubsSet /\ \A s \in Subs : s \notin Active(x) => subs[s] = Closed
  BY <1>1 DEF SubsSet, Active
<1>3. Offered(x, p) = [x EXCEPT !.subs = subs]
  BY DEF Offered
<1> HIDE DEF subs
<1> QED
  BY <1>2, <1>3, CountedFine

-----------------------------------------------------------------------------
(* The inductive invariant *)

CallSet ==
    [Subs -> [at : {"unused", "begun", "registered", "replayed", "open", "over"},
              peers : SUBSET Peers]]

\* What a frame's first half leaves to its second: an inventory between the
\* two is still vouched for, since nothing ends the peer's epoch meanwhile.
TaskSound(t, A) ==
    /\ t.kind = "cached" => t.event \in Events
    /\ t.kind = "event" => t.event \in Events
    /\ t.kind = "inv" => /\ t.peer \in Peers /\ t.event \in Events /\ t.claim \in Claims
                         /\ t.ids \in SUBSET Subs /\ <<t.peer, t.event>> \in A

ClientInv ==
    /\ Fine(c, got, announced) /\ got = [s \in Subs |-> got[s]]
    /\ call \in CallSet /\ links \in SUBSET Peers /\ TaskSound(task, announced)
    /\ ~open => Active(c) = {}

\* What a step does to the subscriptions: what was admitted stays in place
\* unless the receiver is gone, and what is not open gets nothing.
Moves ==
    /\ ~open => Active(c') \subseteq Active(c)
    /\ \A s \in Subs :
        /\ c'.delivery[s].receiver =>
                Continues(Flow(c.delivery[s], got[s]), Flow(c'.delivery[s], got'[s]))
        /\ s \notin Active(c) =>
                Len(Flow(c'.delivery[s], got'[s])) <= Len(Flow(c.delivery[s], got[s]))

LEMMA IdleSound == ASSUME NEW A PROVE TaskSound(Idle, A)
BY DEF TaskSound, Idle

LEMMA OnwardMoves ==
    ASSUME Fine(c, got, announced), Onward(c, c', got), got' = got
    PROVE  Moves
<1>1. ASSUME NEW s \in Subs
      PROVE  /\ Continues(Flow(c.delivery[s], got[s]), Flow(c'.delivery[s], got[s]))
             /\ s \notin Active(c) => c'.delivery[s] = c.delivery[s]
             /\ Len(Flow(c.delivery[s], got[s])) \in Nat
  <2>1. Delivering(c.delivery[s], got[s])
    BY DEF Fine
  <2>2. Flow(c.delivery[s], got[s]) \in Seq(Events)
    BY <2>1, FlowType
  <2> QED
    BY <2>2 DEF Onward, Advances
<1>2. ASSUME NEW s \in Subs, s \notin Active(c)
      PROVE  Len(Flow(c'.delivery[s], got[s])) <= Len(Flow(c.delivery[s], got[s]))
  BY <1>1, <1>2
<1>3. Active(c') \subseteq Active(c)
  BY DEF Onward
<1> QED
  BY <1>1, <1>2, <1>3 DEF Moves

\* A step that only goes onward.
LEMMA OnwardKeeps ==
    ASSUME ClientInv, Fine(c', got, announced'), Onward(c, c', got), got' = got,
           open' = open, call' \in CallSet, links' \in SUBSET Peers, TaskSound(task', announced')
    PROVE  ClientInv' /\ Moves
<1>1. Moves
  BY OnwardMoves DEF ClientInv
<1>2. ~open' => Active(c') = {}
  BY DEF ClientInv, Onward
<1>3. got' = [s \in Subs |-> got'[s]] /\ Fine(c', got', announced')
  BY DEF ClientInv
<1> QED
  BY <1>1, <1>2, <1>3 DEF ClientInv

\* A step that leaves the client alone.
LEMMA StillKeeps ==
    ASSUME ClientInv, c' = c, got' = got, open' = open, call' \in CallSet, announced \subseteq announced',
           links' \in SUBSET Peers, TaskSound(task', announced')
    PROVE  ClientInv' /\ Moves
<1>1. Fine(c, got, announced) /\ Onward(c, c, got)
  BY OnwardItself DEF ClientInv
<1>2. Fine(c, got, announced')
  BY <1>1, MoreVouched DEF Fine
<1> QED
  BY <1>1, <1>2, OnwardKeeps

LEMMA ClientInitially == Init => ClientInv
<1> SUFFICES ASSUME Init PROVE ClientInv
  OBVIOUS
<1> USE DEF Init
<1>1. NewDelivery \in DeliverySet /\ Delivering(NewDelivery, <<>>)
  <2>1. NewDelivery \in DeliverySet
    BY DEF NewDelivery, DeliverySet
  <2>2. /\ NewDelivery.channel = <<>> /\ NewDelivery.delivered = <<>> /\ NewDelivery.receiver
        /\ NewDelivery.pending = <<>>
    BY DEF NewDelivery
  <2>3. <<>> \o <<>> = <<>> /\ Len(<<>>) = 0 /\ <<>> \in Seq(Events) /\ DOMAIN <<>> = {}
    OBVIOUS
  <2>4. Newest(<<>>, MaxDelivered) = <<>>
    BY <2>3, ClientAssumption DEF Newest
  <2>5. Flow(NewDelivery, <<>>) = <<>>
    BY <2>2, <2>3 DEF Flow
  <2>6. Spaced(<<>>)
    BY <2>3 DEF Spaced
  <2>7. Len(NewDelivery.channel) <= MaxReplay
    BY <2>2, <2>3, ClientAssumption
  <2> QED
    BY <2>1, <2>2, <2>3, <2>4, <2>5, <2>6, <2>7 DEF Delivering
<1>2. /\ c.subs = [s \in Subs |-> Closed] /\ c.delivery = [s \in Subs |-> NewDelivery]
      /\ c.wants = EmptyTable /\ c.recent = NoRecent /\ c.inventories = {} /\ c.fulls = {}
      /\ c.outbox = <<>>
      /\ c = [subs |-> c.subs, delivery |-> c.delivery, recent |-> c.recent, wants |-> c.wants,
              inventories |-> c.inventories, fulls |-> c.fulls, outbox |-> c.outbox]
  BY DEF NewClient
<1>3. VouchedTable(EmptyTable, announced) /\ EmptyTable \in TableSet
  BY EmptyVouched DEF VouchedTable
<1>4. NoRecent \in RecentSet
  BY DEF NoRecent, RecentSet
<1>5. c \in ClientSet
  <2>1. c.subs \in SubsSet /\ c.delivery \in DeliveriesSet
    BY <1>1, <1>2 DEF SubsSet, DeliveriesSet
  <2>2. c.inventories \in InventoriesSet /\ c.fulls \in FullsSet /\ c.outbox \in OutboxSet
    BY <1>2 DEF InventoriesSet, FullsSet, OutboxSet
  <2> QED
    BY <1>2, <1>3, <1>4, <2>1, <2>2 DEF ClientSet
<1>6. \A s \in Subs : Delivering(c.delivery[s], got[s])
  BY <1>1, <1>2
<1>7. Fine(c, got, announced)
  BY <1>2, <1>3, <1>5, <1>6 DEF Fine
<1>8. call \in CallSet
  BY DEF CallSet
<1> QED
  BY <1>7, <1>8, IdleSound DEF ClientInv

-----------------------------------------------------------------------------
(* The application's calls *)

LEMMA SubscribeBeginKeeps ==
    ASSUME ClientInv, NEW s \in Subs, SubscribeBegin(s)
    PROVE  ClientInv' /\ Moves
<1>1. call' \in CallSet
  BY DEF SubscribeBegin, ClientInv, CallSet
<1>2. /\ c' = c /\ got' = got /\ open' = open /\ announced' = announced /\ links' = links
      /\ task' = task
  BY DEF SubscribeBegin
<1> QED
  BY <1>1, <1>2, StillKeeps DEF ClientInv

LEMMA SubscribeRegisterKeeps ==
    ASSUME ClientInv, NEW s \in Subs, SubscribeRegister(s)
    PROVE  ClientInv' /\ Moves
<1>1. /\ got' = got /\ open' = open /\ announced' = announced /\ links' = links /\ task' = task
  BY DEF SubscribeRegister
<1>2. CASE open /\ c' = [c EXCEPT !.subs[s] = call[s].peers]
           /\ call' = [call EXCEPT ![s].at = "registered"]
  <2> DEFINE subs == [c.subs EXCEPT ![s] = call[s].peers]
  <2>1. call' \in CallSet
    BY <1>2 DEF ClientInv, CallSet
  <2>2. c' = [c EXCEPT !.subs = subs]
    BY <1>2
  <2>3. subs \in SubsSet
    BY DEF ClientInv, Fine, ClientSet, SubsSet, CallSet
  <2> HIDE DEF subs
  <2>4. c' \in ClientSet /\ c'.delivery = c.delivery /\ c'.wants = c.wants
    BY <2>2, <2>3 DEF ClientInv, Fine, ClientSet
  <2>5. Fine(c', got', announced')
    BY <1>1, <2>4 DEF ClientInv, Fine
  <2>6. ClientInv'
    BY <1>1, <1>2, <2>1, <2>5 DEF ClientInv
  <2>7. \A t \in Subs : c'.delivery[t] = c.delivery[t] /\ got'[t] = got[t]
                        /\ Continues(Flow(c.delivery[t], got[t]), Flow(c.delivery[t], got[t]))
                        /\ Len(Flow(c.delivery[t], got[t])) \in Nat
    BY <1>1, <2>4, FlowType DEF ClientInv, Fine, Continues
  <2>8. Moves
    BY <1>2, <2>7 DEF Moves
  <2> QED
    BY <2>6, <2>8
<1>3. CASE call' = [call EXCEPT ![s].at = "over"] /\ c' = c
  <2>1. call' \in CallSet
    BY <1>3 DEF ClientInv, CallSet
  <2> QED
    BY <1>1, <1>3, <2>1, StillKeeps DEF ClientInv
<1> QED
  BY <1>2, <1>3 DEF SubscribeRegister, Readmitted

LEMMA SubscribeReplayKeeps ==
    ASSUME ClientInv, NEW s \in Subs, SubscribeReplay(s)
    PROVE  ClientInv' /\ Moves
<1>1. /\ got' = got /\ open' = open /\ announced' = announced /\ links' = links /\ task' = task
      /\ call' = [call EXCEPT ![s].at = "replayed"]
  BY DEF SubscribeReplay
<1>2. call' \in CallSet
  BY <1>1 DEF ClientInv, CallSet
<1>3. Fine(c, got, announced)
  BY DEF ClientInv
<1>4. CASE s \in Fresh \/ s \notin Active(c)
  <2>1. c' = c
    BY <1>4 DEF SubscribeReplay
  <2> QED
    BY <1>1, <1>2, <2>1, StillKeeps DEF ClientInv
<1>5. CASE ~(s \in Fresh \/ s \notin Active(c))
  <2> DEFINE cached == Only(c.recent.entries, {r \in ToSet(c.recent.entries) : r.event \in Matches[s]})
             told == FoldLeft(LAMBDA d, r : Enqueue(d, r.event), c.delivery[s], cached)
             delivery == [c.delivery EXCEPT ![s] = told]
             y == [c EXCEPT !.delivery = delivery]
  <2>1. c' = IF told.status = "lagged" THEN CloseSub(y, s) ELSE y
    BY <1>5 DEF SubscribeReplay
  <2>2. c.recent.entries \in Seq(CachedSet) /\ c.delivery \in DeliveriesSet
        /\ Delivering(c.delivery[s], got[s])
    BY <1>3 DEF Fine, ClientSet, RecentSet
  <2>3. cached \in Seq(CachedSet)
    BY <2>2, OnlyRetains
  <2> HIDE DEF cached
  <2>4. Advances(c.delivery[s], told, got[s])
    BY <2>2, <2>3, ReplayAdvances
  <2> HIDE DEF told
  <2>5. \A t \in Subs : Advances(c.delivery[t], c.delivery[t], got[t])
    BY <1>3, SameAdvances DEF Fine
  <2>6. /\ DOMAIN delivery = Subs /\ delivery = [t \in Subs |-> delivery[t]]
        /\ \A t \in Subs : delivery[t] = IF t = s THEN told ELSE c.delivery[t]
    BY <2>2 DEF DeliveriesSet
  <2> HIDE DEF delivery
  <2>7. \A t \in Subs : /\ Advances(c.delivery[t], delivery[t], got[t])
                        /\ t \notin Active(c) => delivery[t] = c.delivery[t]
    BY <1>5, <2>4, <2>5, <2>6
  <2>8. Fine(y, got, announced) /\ Onward(c, y, got)
    BY <1>3, <2>6, <2>7, ToldFine
  <2> HIDE DEF y
  <2>9. Fine(CloseSub(y, s), got, announced) /\ Onward(y, CloseSub(y, s), got)
    BY <2>8, CloseSubFine DEF Closes
  <2>10. Onward(c, CloseSub(y, s), got)
    BY <2>8, <2>9, OnwardOn
  <2>11. Fine(c', got, announced') /\ Onward(c, c', got)
    BY <1>1, <2>1, <2>8, <2>9, <2>10
  <2> QED
    BY <1>1, <1>2, <2>11, OnwardKeeps DEF ClientInv
<1> QED
  BY <1>4, <1>5

\* The application's end goes once the subscription is closed.
LEMMA DropMoves ==
    ASSUME ClientInv, NEW s \in Subs, NEW x, Fine(x, got, announced), Onward(c, x, got),
           c' = [x EXCEPT !.delivery[s] = DropReceiver(@)], got' = got, open' = open,
           announced' = announced, call' \in CallSet, links' = links, task' = task
    PROVE  ClientInv' /\ Moves
<1> DEFINE n == DropReceiver(x.delivery[s])
           delivery == [x.delivery EXCEPT ![s] = n]
<1>1. Delivering(x.delivery[s], got[s]) /\ x \in ClientSet /\ x.delivery \in DeliveriesSet
  BY DEF Fine, ClientSet
<1>2. Delivering(n, got[s]) /\ n.receiver = FALSE
      /\ Len(Flow(n, got[s])) <= Len(Flow(x.delivery[s], got[s]))
  BY <1>1, DropKeeps
<1>3. c' = [x EXCEPT !.delivery = delivery]
  OBVIOUS
<1> HIDE DEF n
<1>4. delivery \in DeliveriesSet /\ \A t \in Subs : delivery[t] = IF t = s THEN n ELSE x.delivery[t]
  BY <1>1, <1>2 DEF DeliveriesSet, Delivering
<1> HIDE DEF delivery
<1>5. c' \in ClientSet /\ c'.subs = x.subs /\ c'.wants = x.wants /\ c'.delivery = delivery
  BY <1>1, <1>3, <1>4 DEF ClientSet
<1>6. Active(c') = Active(x)
  BY <1>5 DEF Active
<1>7. Fine(c', got', announced')
  BY <1>2, <1>4, <1>5 DEF Fine
<1>8. ClientInv'
  <2>1. ~open' => Active(c') = {}
    BY <1>6 DEF ClientInv, Onward
  <2>2. got' = [t \in Subs |-> got'[t]] /\ links' \in SUBSET Peers /\ TaskSound(task', announced')
    BY DEF ClientInv
  <2> QED
    BY <1>7, <2>1, <2>2 DEF ClientInv
<1>9. ASSUME NEW t \in Subs, c'.delivery[t].receiver
      PROVE  Continues(Flow(c.delivery[t], got[t]), Flow(c'.delivery[t], got'[t]))
  <2>1. t # s
    BY <1>2, <1>4, <1>5, <1>9
  <2>2. c'.delivery[t] = x.delivery[t]
    BY <1>4, <1>5, <2>1
  <2> QED
    BY <2>2 DEF Onward, Advances
<1>10. ASSUME NEW t \in Subs, t \notin Active(c)
       PROVE  Len(Flow(c'.delivery[t], got'[t])) <= Len(Flow(c.delivery[t], got[t]))
  <2>1. x.delivery[t] = c.delivery[t]
    BY <1>10 DEF Onward
  <2>2. Flow(c.delivery[t], got[t]) \in Seq(Events)
    BY FlowType DEF ClientInv, Fine
  <2>3. Len(Flow(c.delivery[t], got[t])) \in Nat
    BY <2>2
  <2> QED
    BY <1>2, <1>4, <1>5, <2>1, <2>3
<1>11. Moves
  BY <1>6, <1>9, <1>10 DEF Moves, Onward
<1> QED
  BY <1>8, <1>11

LEMMA SubscribeSendKeeps ==
    ASSUME ClientInv, NEW s \in Subs, SubscribeSend(s)
    PROVE  ClientInv' /\ Moves
<1>1. /\ got' = got /\ open' = open /\ announced' = announced /\ links' = links /\ task' = task
      /\ call[s].peers \in SUBSET Peers
  BY DEF SubscribeSend, ClientInv, CallSet
<1> DEFINE peers == call[s].peers
           Y(told) == Queue(c, "send", Cardinality(told))
           Z(told) == IF s \in Active(Y(told))
                      THEN [Y(told) EXCEPT !.subs[s] = @ \ (peers \ told)] ELSE Y(told)
           Failed(told) == peers # {} /\ told = {}
<1>2. PICK told \in SUBSET peers :
        /\ c' = IF Failed(told) THEN [CloseSub(Z(told), s) EXCEPT !.delivery[s] = DropReceiver(@)]
                ELSE Z(told)
        /\ call' = [call EXCEPT ![s].at = IF Failed(told) THEN "over" ELSE "open"]
  BY DEF SubscribeSend
<1> DEFINE y == Y(told)
           z == Z(told)
           failed == Failed(told)
<1>3. call' \in CallSet
  <2>1. (IF failed THEN "over" ELSE "open") \in {"over", "open"}
    OBVIOUS
  <2> HIDE DEF failed
  <2> QED
    BY <1>2, <2>1 DEF ClientInv, CallSet, failed
<1>4. Fine(c, got, announced)
  BY DEF ClientInv
<1>5. Cardinality(told) \in Nat
  <2>1. IsFiniteSet(told)
    BY <1>1, ClientAssumption, FS_Subset
  <2> QED
    BY <2>1, FS_CardinalityType
<1>6. Fine(y, got, announced) /\ Onward(c, y, got)
  <2>1. y \in ClientSet /\ Same(c, y)
    BY <1>4, <1>5, QueueSame DEF Fine, Commands
  <2> QED
    BY <1>4, <2>1, SameFine
<1>7. z = IF s \in Active(y) THEN [y EXCEPT !.subs[s] = @ \ (peers \ told)] ELSE y
  OBVIOUS
<1>8. c' = IF failed THEN [CloseSub(z, s) EXCEPT !.delivery[s] = DropReceiver(@)] ELSE z
  BY <1>2
<1> HIDE DEF y, z, failed
<1>9. Fine(z, got, announced) /\ Onward(c, z, got)
  <2>1. CASE s \in Active(y)
    <3> DEFINE subs == [y.subs EXCEPT ![s] = y.subs[s] \ (peers \ told)]
    <3>1. z = [y EXCEPT !.subs = subs]
      BY <1>7, <2>1
    <3>2. y.subs \in SubsSet /\ y.subs[s] \in SUBSET Peers
      BY <1>6, <2>1 DEF Fine, ClientSet, Active, SubsSet
    <3>3. subs \in SubsSet /\ \A t \in Subs : t \notin Active(y) => subs[t] = Closed
      BY <2>1, <3>2 DEF SubsSet, Active
    <3> HIDE DEF subs
    <3>4. Fine(z, got, announced) /\ Onward(y, z, got)
      BY <1>6, <3>1, <3>3, CountedFine
    <3> QED
      BY <1>6, <3>4, OnwardOn
  <2>2. CASE s \notin Active(y)
    BY <1>6, <1>7, <2>2
  <2> QED
    BY <2>1, <2>2
<1>10. CASE ~failed
  <2>1. c' = z
    BY <1>8, <1>10
  <2> QED
    BY <1>1, <1>3, <1>9, <2>1, OnwardKeeps DEF ClientInv
<1>11. CASE failed
  <2> DEFINE x == CloseSub(z, s)
  <2>1. Fine(x, got, announced) /\ Onward(z, x, got)
    BY <1>9, CloseSubFine DEF Closes
  <2>2. c' = [x EXCEPT !.delivery[s] = DropReceiver(@)]
    BY <1>8, <1>11
  <2> HIDE DEF x
  <2>3. Onward(c, x, got)
    BY <1>9, <2>1, OnwardOn
  <2> QED
    BY <1>1, <1>3, <2>1, <2>2, <2>3, DropMoves
<1> QED
  BY <1>10, <1>11

LEMMA CloseCallKeeps ==
    ASSUME ClientInv, NEW s \in Subs, Close(s)
    PROVE  ClientInv' /\ Moves
<1> DEFINE x == CloseSub(c, s)
<1>1. /\ got' = got /\ open' = open /\ announced' = announced /\ links' = links /\ task' = task
      /\ c' = [x EXCEPT !.delivery[s] = DropReceiver(@)] /\ call' = [call EXCEPT ![s].at = "over"]
  BY DEF Close
<1>2. call' \in CallSet
  BY <1>1 DEF ClientInv, CallSet
<1>3. Fine(x, got, announced) /\ Onward(c, x, got)
  BY CloseSubFine DEF Closes, ClientInv
<1> HIDE DEF x
<1> QED
  BY <1>1, <1>2, <1>3, DropMoves

LEMMA RecvKeeps ==
    ASSUME ClientInv, NEW s \in Subs, Recv(s)
    PROVE  ClientInv' /\ Moves
<1> DEFINE d == c.delivery[s]
           h == Append(got[s], Head(Refill(d).channel))
           delivery == [c.delivery EXCEPT ![s] = Receive(d)]
<1>1. /\ open' = open /\ announced' = announced /\ links' = links /\ task' = task /\ call' = call
      /\ got' = [got EXCEPT ![s] = h] /\ Refill(d).channel # <<>>
      /\ c' = [c EXCEPT !.delivery = delivery]
  BY DEF Recv
<1>2. /\ Delivering(d, got[s]) /\ c \in ClientSet /\ c.delivery \in DeliveriesSet
      /\ VouchedTable(c.wants, announced) /\ got = [t \in Subs |-> got[t]]
  BY DEF ClientInv, Fine, ClientSet
<1>3. Delivering(Receive(d), h) /\ Receive(d).receiver = d.receiver /\ Flow(Receive(d), h) = Flow(d, got[s])
  BY <1>1, <1>2, ReceiveKeeps
<1>4. delivery \in DeliveriesSet
      /\ \A t \in Subs : delivery[t] = IF t = s THEN Receive(d) ELSE c.delivery[t]
  BY <1>2, <1>3 DEF DeliveriesSet, Delivering
<1> HIDE DEF delivery, h
<1>5. c' \in ClientSet /\ c'.subs = c.subs /\ c'.wants = c.wants /\ c'.delivery = delivery
  BY <1>1, <1>2, <1>4 DEF ClientSet
<1>6. got' = [t \in Subs |-> got'[t]] /\ \A t \in Subs : got'[t] = IF t = s THEN h ELSE got[t]
  BY <1>1, <1>2
<1>7. \A t \in Subs : Delivering(c'.delivery[t], got'[t])
  BY <1>3, <1>4, <1>5, <1>6 DEF ClientInv, Fine
<1>8. Fine(c', got', announced')
  BY <1>1, <1>2, <1>5, <1>7 DEF Fine
<1>9. Active(c') = Active(c)
  BY <1>5 DEF Active
<1>10. ClientInv'
  BY <1>1, <1>6, <1>8, <1>9 DEF ClientInv
<1>11. ASSUME NEW t \in Subs
       PROVE  /\ Flow(c'.delivery[t], got'[t]) = Flow(c.delivery[t], got[t])
              /\ Flow(c.delivery[t], got[t]) \in Seq(Events)
  <2>1. Flow(c.delivery[t], got[t]) \in Seq(Events)
    BY FlowType DEF ClientInv, Fine
  <2> QED
    BY <1>3, <1>4, <1>5, <1>6, <2>1
<1>12. ASSUME NEW t \in Subs
       PROVE  /\ Continues(Flow(c.delivery[t], got[t]), Flow(c'.delivery[t], got'[t]))
              /\ Len(Flow(c'.delivery[t], got'[t])) <= Len(Flow(c.delivery[t], got[t]))
  <2> DEFINE f == Flow(c.delivery[t], got[t])
  <2>1. Flow(c'.delivery[t], got'[t]) = f /\ f \in Seq(Events)
    BY <1>11
  <2> HIDE DEF f
  <2>2. Continues(f, f) /\ Len(f) <= Len(f)
    BY <2>1 DEF Continues
  <2> QED
    BY <2>1, <2>2 DEF f
<1>13. Moves
  BY <1>9, <1>12 DEF Moves
<1> QED
  BY <1>10, <1>13

\* close_all
LEMMA ShutdownKeeps ==
    ASSUME ClientInv, Shutdown
    PROVE  ClientInv' /\ Moves
<1> DEFINE x == CloseSubs(c, Active(c))
<1>1. /\ open' = FALSE /\ got' = got /\ announced' = announced /\ links' = links /\ task' = task
      /\ call' = call /\ c' = [x EXCEPT !.wants = EmptyTable, !.inventories = c.inventories]
  BY DEF Shutdown
<1>2. Active(c) \in SUBSET Subs /\ Fine(c, got, announced)
  BY DEF Active, ClientInv
<1>3. Closes(c, x, got, announced, Active(c))
  BY <1>2, CloseSubsFine
<1> HIDE DEF x
<1>4. Fine(x, got, announced) /\ Onward(c, x, got) /\ Active(x) = {}
  BY <1>3 DEF Closes
<1>5. VouchedTable(EmptyTable, announced) /\ EmptyTable \in TableSet
  BY EmptyVouched DEF VouchedTable
<1>6. c' \in ClientSet /\ c'.subs = x.subs /\ c'.delivery = x.delivery /\ c'.wants = EmptyTable
  BY <1>1, <1>2, <1>4, <1>5 DEF Fine, ClientSet
<1>7. Active(c') = Active(x)
  BY <1>6 DEF Active
<1>8. Fine(c', got, announced) /\ Onward(x, c', got)
  BY <1>4, <1>5, <1>6, <1>7, LessFine
<1>9. Onward(c, c', got)
  BY <1>4, <1>8, OnwardOn
<1>10. Moves
  BY <1>1, <1>2, <1>9, OnwardMoves
<1>11. ClientInv'
  BY <1>1, <1>4, <1>7, <1>8 DEF ClientInv
<1> QED
  BY <1>10, <1>11

-----------------------------------------------------------------------------
(* The transport task *)

LEMMA ViolationFine ==
    ASSUME NEW x, Fine(x, got, announced), Onward(c, x, got), NEW p \in Peers, NEW crossed,
           Violation(x, p, crossed)
    PROVE  Fine(c', got, announced) /\ Onward(c, c', got)
<1>1. Queue(x, p, 1) \in ClientSet /\ Same(x, Queue(x, p, 1))
  BY QueueSame DEF Fine, Commands
<1>2. Fine(Queue(x, p, 1), got, announced) /\ Onward(x, Queue(x, p, 1), got)
  BY <1>1, SameFine
<1>3. Onward(c, Queue(x, p, 1), got)
  BY <1>2, OnwardOn
<1>4. c' = x \/ c' = Queue(x, p, 1)
  BY DEF Violation
<1> QED
  BY <1>2, <1>3, <1>4

LEMMA MalformedKeeps ==
    ASSUME ClientInv, NEW p \in Peers, Malformed(p)
    PROVE  ClientInv' /\ Moves
<1>1. /\ open' = open /\ got' = got /\ announced' = announced /\ links' = links /\ task' = task
      /\ call' = call
  BY DEF Malformed
<1>2. PICK crossed \in BOOLEAN : Violation(c, p, crossed)
  BY DEF Malformed
<1>3. Fine(c, got, announced) /\ Onward(c, c, got)
  BY OnwardItself DEF ClientInv
<1>4. Fine(c', got, announced) /\ Onward(c, c', got)
  BY <1>2, <1>3, ViolationFine
<1> QED
  BY <1>1, <1>4, OnwardKeeps DEF ClientInv

LEMMA RetryPendingKeeps ==
    ASSUME ClientInv, NEW due, RetryPending(due)
    PROVE  ClientInv' /\ Moves
<1> DEFINE x == [c EXCEPT !.wants = Retried(@, due)]
           wants == Retried(c.wants, due)
<1>1. /\ open' = open /\ got' = got /\ announced' = announced /\ links' = links /\ task' = task
      /\ call' = call
  BY DEF RetryPending
<1>2. PICK p \in Peers, crossed \in BOOLEAN : Violation(x, p, crossed)
  BY DEF RetryPending
<1>3. Fine(c, got, announced)
  BY DEF ClientInv
<1>4. VouchedTable(wants, announced) /\ wants \in TableSet
  BY <1>3, RetriedVouched DEF Fine, VouchedTable
<1>5. x = [c EXCEPT !.wants = wants]
  OBVIOUS
<1> HIDE DEF wants, x
<1>6. x \in ClientSet /\ x.subs = c.subs /\ x.delivery = c.delivery /\ x.wants = wants
  BY <1>3, <1>4, <1>5 DEF Fine, ClientSet
<1>7. Active(x) \subseteq Active(c)
  BY <1>6 DEF Active
<1>8. Fine(x, got, announced) /\ Onward(c, x, got)
  BY <1>3, <1>4, <1>6, <1>7, LessFine
<1>9. Fine(c', got, announced) /\ Onward(c, c', got)
  BY <1>2, <1>8, ViolationFine
<1> QED
  BY <1>1, <1>9, OnwardKeeps DEF ClientInv

LEMMA InvBeginKeeps ==
    ASSUME ClientInv, NEW p \in Peers, NEW ids \in SUBSET Subs, NEW e \in Events,
           NEW claim \in Claims, InvBegin(p, ids, e, claim)
    PROVE  ClientInv' /\ Moves
<1>1. /\ c' = c /\ open' = open /\ got' = got /\ links' = links /\ call' = call
      /\ announced' = announced \cup {<<p, e>>}
  BY DEF InvBegin
<1> DEFINE named == {s \in ids : /\ Counts(c, s, p)
                                 /\ ~Seen(c.recent, e) \/ s \in Fresh
                                 /\ ~Knows(c.delivery[s], e)}
<1>2. \/ task' = [kind |-> "cached", peer |-> p, ids |-> ids, event |-> e, claim |-> claim]
      \/ task' = [kind |-> "inv", peer |-> p, event |-> e, claim |-> claim, ids |-> named]
  BY DEF InvBegin
<1>3. named \in SUBSET Subs
  OBVIOUS
<1> HIDE DEF named
<1>4. TaskSound(task', announced')
  BY <1>1, <1>2, <1>3 DEF TaskSound
<1> QED
  BY <1>1, <1>4, StillKeeps DEF ClientInv

LEMMA InvFinishCachedKeeps ==
    ASSUME ClientInv, InvFinishCached
    PROVE  ClientInv' /\ Moves
<1> DEFINE targets == {s \in task.ids \cap Fresh : /\ Interested(c, s, task.peer, task.event)
                                                   /\ ~Knows(c.delivery[s], task.event)}
<1>1. /\ open' = open /\ got' = got /\ announced' = announced /\ links' = links /\ task' = Idle
      /\ call' = call /\ (c' = c \/ c' = DeliverTo(c, targets, task.event))
  BY DEF InvFinishCached
<1>2. targets \subseteq Active(c) /\ task.event \in Events /\ Fine(c, got, announced)
  BY DEF InvFinishCached, ClientInv, TaskSound, Interested, Counts
<1> HIDE DEF targets
<1>3. Fine(DeliverTo(c, targets, task.event), got, announced)
      /\ Onward(c, DeliverTo(c, targets, task.event), got)
  BY <1>2, DeliverToFine
<1>4. Fine(c', got, announced) /\ Onward(c, c', got)
  BY <1>1, <1>2, <1>3, OnwardItself
<1> QED
  BY <1>1, <1>4, IdleSound, OnwardKeeps DEF ClientInv

LEMMA InvFinishKeeps ==
    ASSUME ClientInv, InvFinish
    PROVE  ClientInv' /\ Moves
<1> DEFINE p == task.peer
           e == task.event
           valid == {s \in task.ids : <<p, s, e>> \notin c.inventories}
           inventories == c.inventories \cup {<<p, s, e>> : s \in valid}
           wants == Insert(c.wants, e, p, valid, task.claim)
           y == [c EXCEPT !.inventories = inventories, !.wants = wants]
<1>1. /\ open' = open /\ got' = got /\ announced' = announced /\ links' = links /\ task' = Idle
      /\ call' = call /\ (c' = c \/ c' = y \/ c' = Queue(y, "send", 1))
  BY DEF InvFinish
<1>2. /\ Fine(c, got, announced) /\ c \in ClientSet /\ c.inventories \in InventoriesSet
      /\ VouchedTable(c.wants, announced)
  BY DEF ClientInv, Fine, ClientSet
<1>3. /\ p \in Peers /\ e \in Events /\ task.claim \in Claims /\ valid \in SUBSET Subs
      /\ <<p, e>> \in announced
  BY DEF InvFinish, ClientInv, TaskSound
<1> HIDE DEF valid, p, e
<1>4. VouchedTable(wants, announced)
  BY <1>2, <1>3, InsertVouched
<1>5. wants \in TableSet /\ inventories \in InventoriesSet
  BY <1>2, <1>3, <1>4 DEF VouchedTable, InventoriesSet
<1> HIDE DEF wants, inventories
<1>6. y \in ClientSet /\ y.subs = c.subs /\ y.delivery = c.delivery /\ y.wants = wants
  BY <1>2, <1>5 DEF ClientSet
<1> HIDE DEF y
<1>7. Active(y) \subseteq Active(c)
  BY <1>6 DEF Active
<1>8. Fine(y, got, announced) /\ Onward(c, y, got)
  BY <1>2, <1>4, <1>6, <1>7, LessFine
<1>9. Queue(y, "send", 1) \in ClientSet /\ Same(y, Queue(y, "send", 1))
  BY <1>6, QueueSame DEF Commands
<1>10. Fine(Queue(y, "send", 1), got, announced) /\ Onward(y, Queue(y, "send", 1), got)
  BY <1>8, <1>9, SameFine
<1>11. Onward(c, Queue(y, "send", 1), got)
  BY <1>8, <1>10, OnwardOn
<1>12. Fine(c', got, announced) /\ Onward(c, c', got)
  BY <1>1, <1>2, <1>8, <1>10, <1>11, OnwardItself
<1> QED
  BY <1>1, <1>12, IdleSound, OnwardKeeps DEF ClientInv

LEMMA EventBeginKeeps ==
    ASSUME ClientInv, NEW p \in Peers, NEW wire \in Subs \cup {NoSub}, NEW e \in Events,
           EventBegin(p, wire, e)
    PROVE  ClientInv' /\ Moves
<1> DEFINE matched == MatchesWire(p, wire, e)
           fresh == IF matched /\ wire # NoSub THEN FreshResponses(p, e) ELSE {}
           Y(response) == [c EXCEPT !.fulls = Observing(p, {wire, response}, e, matched)]
<1>1. open' = open /\ got' = got /\ announced' = announced /\ links' = links /\ call' = call
  BY DEF EventBegin
<1>2. PICK response \in IF fresh = {} THEN {wire} ELSE fresh :
        IF matched
        THEN /\ c' = Y(response)
             /\ task' = IF Observed(p, response, e) THEN Idle
                        ELSE [kind |-> "event", peer |-> p, event |-> e, ids |-> {response}]
        ELSE /\ \E crossed \in BOOLEAN : Violation(Y(response), p, crossed)
             /\ UNCHANGED task
  BY DEF EventBegin
<1>3. matched \in BOOLEAN
  BY DEF MatchesWire
<1>4. fresh \subseteq Fresh /\ \A s \in fresh : s \in Subs
  BY DEF FreshResponses, Interested, Counts, Active
<1>5. response \in Subs \cup {NoSub}
  BY <1>2, <1>4
<1>6. Fine(c, got, announced) /\ c \in ClientSet /\ c.fulls \in FullsSet
  BY DEF ClientInv, Fine, ClientSet
<1> DEFINE fulls == Observing(p, {wire, response}, e, matched)
           y == Y(response)
<1>7. fulls \in FullsSet
  <2> DEFINE new == {i \in {wire, response} : ~Observed(p, i, e)}
             added == {<<p, s, e, matched>> : s \in new}
  <2>1. new \subseteq Subs \cup {NoSub}
    BY <1>5
  <2>2. fulls = c.fulls \cup added
    BY DEF Observing
  <2> HIDE DEF new, matched, fulls
  <2>3. added \subseteq Peers \X (Subs \cup {NoSub}) \X Events \X BOOLEAN
    BY <1>3, <2>1
  <2> HIDE DEF added
  <2> QED
    BY <1>6, <2>2, <2>3 DEF FullsSet
<1>8. y = [c EXCEPT !.fulls = fulls]
  OBVIOUS
<1>9. \/ matched /\ c' = y /\ (task' = Idle \/ task' = [kind |-> "event", peer |-> p, event |-> e,
                                                       ids |-> {response}])
      \/ task' = task /\ \E crossed \in BOOLEAN : Violation(y, p, crossed)
  BY <1>2
<1> HIDE DEF y, fulls, matched, fresh, Y
<1>10. y \in ClientSet /\ Same(c, y)
  BY <1>6, <1>7, <1>8 DEF ClientSet, Same
<1>11. Fine(y, got, announced) /\ Onward(c, y, got)
  BY <1>6, <1>10, SameFine
<1>12. Fine(c', got, announced) /\ Onward(c, c', got)
  BY <1>9, <1>11, ViolationFine
<1>13. TaskSound(task', announced')
  <2>1. TaskSound(task, announced) /\ TaskSound(Idle, announced)
    BY IdleSound DEF ClientInv
  <2>2. TaskSound([kind |-> "event", peer |-> p, event |-> e, ids |-> {response}], announced)
    BY DEF TaskSound
  <2> QED
    BY <1>1, <1>9, <2>1, <2>2
<1> QED
  BY <1>1, <1>12, <1>13, OnwardKeeps DEF ClientInv

LEMMA EventFinishKeeps ==
    ASSUME ClientInv, EventFinish
    PROVE  ClientInv' /\ Moves
<1> DEFINE p == task.peer
           e == task.event
           answered == \E s \in task.ids \ {NoSub} :
                            Interested(c, s, p, e) /\ Answers(c.wants, e, p, s, "true")
           y == IF answered THEN [c EXCEPT !.wants = Taken(@, e)] ELSE c
           targets == {s \in Subs : Interested(c, s, p, e) /\ ~Knows(c.delivery[s], e)}
           z == DeliverTo(y, targets, e)
           r == [z EXCEPT !.recent = Remember(@, e, 0)]
<1>1. /\ open' = open /\ got' = got /\ announced' = announced /\ links' = links /\ task' = Idle
      /\ call' = call /\ (c' = c \/ c' = z \/ c' = r)
  BY DEF EventFinish
<1>2. Fine(c, got, announced) /\ e \in Events
  BY DEF ClientInv, EventFinish, TaskSound
<1>3. targets \subseteq Active(c)
  BY DEF Interested, Counts
<1>4. y = c \/ y = [c EXCEPT !.wants = Taken(c.wants, e)]
  OBVIOUS
<1> HIDE DEF targets, y, e
<1>5. Fine(y, got, announced) /\ Onward(c, y, got) /\ Active(y) = Active(c)
  <2> DEFINE wants == Taken(c.wants, e)
             x == [c EXCEPT !.wants = wants]
  <2>1. VouchedTable(wants, announced) /\ wants \in TableSet
    BY <1>2, TakenVouched DEF Fine, VouchedTable
  <2> HIDE DEF wants
  <2>2. x \in ClientSet /\ x.subs = c.subs /\ x.delivery = c.delivery /\ x.wants = wants
    BY <1>2, <2>1 DEF Fine, ClientSet
  <2>3. y = c \/ y = x
    BY <1>4 DEF wants
  <2> HIDE DEF x
  <2>4. Active(x) = Active(c)
    BY <2>2 DEF Active
  <2>5. Fine(x, got, announced) /\ Onward(c, x, got)
    BY <1>2, <2>1, <2>2, <2>4, LessFine
  <2> QED
    BY <1>2, <2>3, <2>4, <2>5, OnwardItself
<1>6. Fine(z, got, announced) /\ Onward(y, z, got)
  BY <1>2, <1>3, <1>5, DeliverToFine
<1> HIDE DEF z
<1>7. Onward(c, z, got)
  BY <1>5, <1>6, OnwardOn
<1>8. Fine(r, got, announced) /\ Onward(z, r, got)
  BY <1>2, <1>6, RememberFine
<1> HIDE DEF r
<1>9. Onward(c, r, got)
  BY <1>7, <1>8, OnwardOn
<1>10. Fine(c', got, announced) /\ Onward(c, c', got)
  BY <1>1, <1>2, <1>6, <1>7, <1>8, <1>9, OnwardItself
<1> QED
  BY <1>1, <1>10, IdleSound, OnwardKeeps DEF ClientInv

\* Only while the transport task is idle does a peer's epoch end.
LEMMA PeerUpKeeps ==
    ASSUME ClientInv, NEW p \in Peers, NEW dialled \in BOOLEAN, PeerUp(p, dialled)
    PROVE  ClientInv' /\ Moves
<1> DEFINE A == {a \in announced : a[1] # p}
           x == ForgetPeerState(c, p)
           y == ResetPeerEpoch(c, p)
           z == Offered(y, p)
<1>1. /\ open' = open /\ got' = got /\ announced' = A /\ task' = Idle /\ call' = call
      /\ (c' = x \/ c' = y \/ c' = z) /\ (links' = links \/ links' = links \cup {p})
  BY DEF PeerUp, Handled
<1>2. Fine(c, got, announced) /\ links' \in SUBSET Peers
  BY <1>1 DEF ClientInv
<1>3. Fine(x, got, A) /\ Onward(c, x, got)
  BY <1>2, ForgetFine
<1>4. Fine(y, got, A) /\ Onward(c, y, got)
  BY <1>2, ResetFine
<1> HIDE DEF x, y, A
<1>5. Fine(z, got, A) /\ Onward(y, z, got)
  BY <1>4, OfferedFine
<1> HIDE DEF z
<1>6. Onward(c, z, got)
  BY <1>4, <1>5, OnwardOn
<1>7. Fine(c', got, announced') /\ Onward(c, c', got)
  BY <1>1, <1>3, <1>4, <1>5, <1>6
<1> QED
  BY <1>1, <1>2, <1>7, IdleSound, OnwardKeeps DEF ClientInv

LEMMA PromotedKeeps ==
    ASSUME ClientInv, NEW p \in Peers, Promoted(p)
    PROVE  ClientInv' /\ Moves
<1>1. /\ open' = open /\ got' = got /\ announced' = announced /\ links' = links /\ task' = task
      /\ call' = call /\ c' = Offered(c, p)
  BY DEF Promoted
<1>2. Fine(c', got, announced) /\ Onward(c, c', got)
  BY <1>1, OfferedFine DEF ClientInv
<1> QED
  BY <1>1, <1>2, OnwardKeeps DEF ClientInv

LEMMA PeerDownKeeps ==
    ASSUME ClientInv, NEW p \in Peers, PeerDown(p)
    PROVE  ClientInv' /\ Moves
<1> DEFINE A == {a \in announced : a[1] # p}
<1>1. /\ open' = open /\ got' = got /\ announced' = A /\ task' = Idle /\ call' = call
      /\ c' = ForgetPeerState(c, p) /\ links' = links \ {p}
  BY DEF PeerDown, Handled, Unlinked
<1>2. Fine(c', got, A) /\ Onward(c, c', got)
  BY <1>1, ForgetFine DEF ClientInv
<1>3. links' \in SUBSET Peers
  BY <1>1 DEF ClientInv
<1> HIDE DEF A
<1> QED
  BY <1>1, <1>2, <1>3, IdleSound, OnwardKeeps DEF ClientInv

LEMMA TakeCommandKeeps ==
    ASSUME ClientInv, TakeCommand
    PROVE  ClientInv' /\ Moves
<1> DEFINE y == [c EXCEPT !.outbox = Tail(@)]
           p == Head(c.outbox)
           A == {a \in announced : a[1] # p}
<1>1. /\ open' = open /\ got' = got /\ task' = Idle /\ call' = call /\ c.outbox # <<>>
      /\ \/ c' = ForgetPeerState(y, p) /\ announced' = A /\ links' = links \ {p}
         \/ c' = y /\ announced' = announced /\ links' = links
  BY DEF TakeCommand, Unlinked
<1>2. Fine(c, got, announced) /\ c \in ClientSet /\ c.outbox \in Seq(Commands)
  BY DEF ClientInv, Fine, ClientSet, OutboxSet
<1>3. y \in ClientSet /\ Same(c, y)
  <2> DEFINE t == Tail(c.outbox)
  <2>1. t \in OutboxSet
    BY <1>1, <1>2 DEF OutboxSet
  <2>2. y = [c EXCEPT !.outbox = t]
    OBVIOUS
  <2> HIDE DEF t, y
  <2> QED
    BY <1>2, <2>1, <2>2 DEF ClientSet, Same
<1> HIDE DEF y, p
<1>4. Fine(y, got, announced) /\ Onward(c, y, got)
  BY <1>2, <1>3, SameFine
<1>5. Fine(ForgetPeerState(y, p), got, A) /\ Onward(y, ForgetPeerState(y, p), got)
  BY <1>4, ForgetFine
<1> HIDE DEF A
<1>6. Onward(c, ForgetPeerState(y, p), got)
  BY <1>4, <1>5, OnwardOn
<1>7. Fine(c', got, announced') /\ Onward(c, c', got)
  BY <1>1, <1>4, <1>5, <1>6
<1>8. links' \in SUBSET Peers
  BY <1>1 DEF ClientInv
<1> QED
  BY <1>1, <1>7, <1>8, IdleSound, OnwardKeeps DEF ClientInv

LEMMA CooldownOverKeeps ==
    ASSUME ClientInv, NEW p \in Peers, CooldownOver(p)
    PROVE  ClientInv' /\ Moves
<1>1. /\ c' = c /\ open' = open /\ got' = got /\ announced' = announced /\ links' = links
      /\ task' = task /\ call' = call
  BY DEF CooldownOver
<1> QED
  BY <1>1, StillKeeps DEF ClientInv

LEMMA ApplicationKeeps == ASSUME ClientInv, Application PROVE ClientInv' /\ Moves
<1> PICK s \in Subs : SubscribeBegin(s) \/ SubscribeRegister(s) \/ SubscribeReplay(s)
                        \/ SubscribeSend(s) \/ Recv(s) \/ Close(s)
  BY DEF Application
<1>1. CASE SubscribeBegin(s)
  BY <1>1, SubscribeBeginKeeps
<1>2. CASE SubscribeRegister(s)
  BY <1>2, SubscribeRegisterKeeps
<1>3. CASE SubscribeReplay(s)
  BY <1>3, SubscribeReplayKeeps
<1>4. CASE SubscribeSend(s)
  BY <1>4, SubscribeSendKeeps
<1>5. CASE Recv(s)
  BY <1>5, RecvKeeps
<1>6. CASE Close(s)
  BY <1>6, CloseCallKeeps
<1> QED
  BY <1>1, <1>2, <1>3, <1>4, <1>5, <1>6

LEMMA TransportKeeps == ASSUME ClientInv, Transport PROVE ClientInv' /\ Moves
<1>1. ASSUME NEW p \in Peers, Malformed(p) \/ Promoted(p) \/ PeerDown(p) \/ CooldownOver(p)
      PROVE  ClientInv' /\ Moves
  <2>1. CASE Malformed(p)
    BY <2>1, MalformedKeeps
  <2>2. CASE Promoted(p)
    BY <2>2, PromotedKeeps
  <2>3. CASE PeerDown(p)
    BY <2>3, PeerDownKeeps
  <2>4. CASE CooldownOver(p)
    BY <2>4, CooldownOverKeeps
  <2> QED
    BY <1>1, <2>1, <2>2, <2>3, <2>4
<1>2. ASSUME NEW p \in Peers, NEW dialled \in BOOLEAN, PeerUp(p, dialled)
      PROVE  ClientInv' /\ Moves
  BY <1>2, PeerUpKeeps
<1>3. ASSUME NEW p \in Peers, NEW ids \in SUBSET Subs, NEW e \in Events, NEW claim \in Claims,
             InvBegin(p, ids, e, claim)
      PROVE  ClientInv' /\ Moves
  BY <1>3, InvBeginKeeps
<1>4. ASSUME NEW p \in Peers, NEW wire \in Subs \cup {NoSub}, NEW e \in Events, EventBegin(p, wire, e)
      PROVE  ClientInv' /\ Moves
  BY <1>4, EventBeginKeeps
<1>5. ASSUME InvFinishCached \/ InvFinish \/ EventFinish \/ TakeCommand PROVE ClientInv' /\ Moves
  <2>1. CASE InvFinishCached
    BY <2>1, InvFinishCachedKeeps
  <2>2. CASE InvFinish
    BY <2>2, InvFinishKeeps
  <2>3. CASE EventFinish
    BY <2>3, EventFinishKeeps
  <2>4. CASE TakeCommand
    BY <2>4, TakeCommandKeeps
  <2> QED
    BY <1>5, <2>1, <2>2, <2>3, <2>4
<1>6. ASSUME NEW due, RetryPending(due) PROVE ClientInv' /\ Moves
  BY <1>6, RetryPendingKeeps
<1> QED
  BY <1>1, <1>2, <1>3, <1>4, <1>5, <1>6 DEF Transport

LEMMA ClientStep == ClientInv /\ [Next]_vars => ClientInv' /\ Moves
<1> SUFFICES ASSUME ClientInv, [Next]_vars PROVE ClientInv' /\ Moves
  OBVIOUS
<1>1. CASE Application
  BY <1>1, ApplicationKeeps
<1>2. CASE Shutdown
  BY <1>2, ShutdownKeeps
<1>3. CASE Transport
  BY <1>3, TransportKeeps
<1>4. CASE UNCHANGED vars
  <2>1. /\ c' = c /\ got' = got /\ open' = open /\ call' = call /\ announced' = announced
        /\ links' = links /\ task' = task
    BY <1>4 DEF vars
  <2> QED
    BY <2>1, StillKeeps DEF ClientInv
<1> QED
  BY <1>1, <1>2, <1>3, <1>4 DEF Next

-----------------------------------------------------------------------------
(* What follows for the application and for the providers *)

LEMMA StreamFlow == ASSUME NEW x, NEW g, NEW s PROVE Stream(x, g, s) = Flow(x.delivery[s], g[s])
BY DEF Stream, Flow

LEMMA ClientOnce == ClientInv => OnceAndFairly
<1> SUFFICES ASSUME ClientInv PROVE OnceAndFairly
  OBVIOUS
<1>1. OnceEach
  <2>1. ASSUME NEW s \in Subs PROVE Spaced(Stream(c, got, s))
    BY StreamFlow DEF ClientInv, Fine, Delivering
  <2> QED
    BY <2>1 DEF OnceEach, Spaced
<1>2. BlamedAnnounced
  BY DEF ClientInv, Fine, VouchedTable, Vouched, Requested, BlamedAnnounced
<1> QED
  BY <1>1, <1>2 DEF OnceAndFairly

LEMMA ClientPrefix ==
    ClientInv /\ [Next]_vars =>
        \A s \in Subs : c'.delivery[s].receiver => IsPrefix(Stream(c, got, s), Stream(c, got, s)')
<1> SUFFICES ASSUME ClientInv, [Next]_vars, NEW s \in Subs, c'.delivery[s].receiver
             PROVE  IsPrefix(Stream(c, got, s), Stream(c, got, s)')
  OBVIOUS
<1>1. Moves
  BY ClientStep
<1>2. Continues(Flow(c.delivery[s], got[s]), Flow(c'.delivery[s], got'[s]))
  BY <1>1 DEF Moves
<1>3. /\ Stream(c, got, s) = Flow(c.delivery[s], got[s])
      /\ Stream(c, got, s)' = Flow(c'.delivery[s], got'[s])
  BY DEF Stream, Flow
<1> QED
  BY <1>2, <1>3, ContinuesPrefix

LEMMA ClientShut ==
    ClientInv /\ [Next]_vars =>
        (~open => Active(c') = {} /\ \A s \in Subs : Len(Stream(c', got', s)) <= Len(Stream(c, got, s)))
<1> SUFFICES ASSUME ClientInv, [Next]_vars, ~open
             PROVE  Active(c') = {} /\ \A s \in Subs : Len(Stream(c', got', s)) <= Len(Stream(c, got, s))
  OBVIOUS
<1>1. Moves
  BY ClientStep
<1>2. Active(c) = {} /\ Active(c') = {}
  BY <1>1 DEF Moves, ClientInv
<1>3. ASSUME NEW s \in Subs PROVE Len(Stream(c', got', s)) <= Len(Stream(c, got, s))
  BY <1>1, <1>2 DEF Moves, Stream, Flow
<1> QED
  BY <1>2, <1>3

\* Whatever the awaits of the client let in between - a replay, a fresh
\* advertisement and a peer's body racing for one subscription, a peer that is
\* forgotten or reconnects while its announcement is handled - no subscription
\* is given a body again within the window LocalDelivery::enqueue remembers, and
\* retry_due blames a provider only for an event it announced on its present
\* connection.
THEOREM SubscribersServedOnce == Spec => []OnceAndFairly
<1>1. Init => ClientInv
  BY ClientInitially
<1>2. ClientInv /\ [Next]_vars => ClientInv'
  BY ClientStep
<1>3. ClientInv => OnceAndFairly
  BY ClientOnce
<1> QED
  BY <1>1, <1>2, <1>3, PTL DEF Spec

\* What LocalDelivery admitted stays, in its order, ahead of what comes later:
\* a lagging buffer, close_subscription, close_all and every refill between them
\* lose nothing while the application keeps its receiver.
THEOREM AdmittedBodiesDrain == Spec => AdmittedKept
<1>1. Init => ClientInv
  BY ClientInitially
<1>2. ClientInv /\ [Next]_vars => ClientInv'
  BY ClientStep
<1>3. ClientInv /\ [Next]_vars =>
        \A s \in Subs : c'.delivery[s].receiver => IsPrefix(Stream(c, got, s), Stream(c, got, s)')
  BY ClientPrefix
<1> QED
  BY <1>1, <1>2, <1>3, PTL DEF Spec, AdmittedKept

\* Once close_all has run, no call admitted before it opens a subscription and
\* no subscription is given another body.
THEOREM ShutdownStays == Spec => ShutIsFinal
<1>1. Init => ClientInv
  BY ClientInitially
<1>2. ClientInv /\ [Next]_vars => ClientInv'
  BY ClientStep
<1>3. ClientInv /\ [Next]_vars =>
        (~open => Active(c') = {} /\ \A s \in Subs : Len(Stream(c', got', s)) <= Len(Stream(c, got, s)))
  BY ClientShut
<1> QED
  BY <1>1, <1>2, <1>3, PTL DEF Spec, ShutIsFinal
=============================================================================
