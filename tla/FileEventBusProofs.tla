------------------------- MODULE FileEventBusProofs -------------------------
(***************************************************************************)
(* Proofs about the retained events (RetainedEvents) and the file that     *)
(* keeps them (FileEventBus).                                              *)
(***************************************************************************)
EXTENDS FileEventBus, FilterProofs, TLAPS

\* The constants' types, each for itself.
LEMMA Limits ==
    /\ MaxEvents \in Nat /\ MaxBytes \in Nat /\ MaxEvents >= 1
    /\ Accepted \subseteq Events /\ IsFiniteSet(Events)
BY RetainedAssumption

-----------------------------------------------------------------------------
(* The bytes of a set of events *)

\* A part of a set has no more bytes.
LEMMA BytesMonotone ==
    ASSUME NEW S \in SUBSET Events, NEW P \in SUBSET S
    PROVE  Bytes(P) \in Nat /\ Bytes(S) \in Nat /\ Bytes(P) <= Bytes(S)
<1> DEFINE g == [e \in S |-> SizeOf[e] + 1]
           h == [e \in P |-> SizeOf[e] + 1]
<1>1. IsFiniteSet(S) /\ IsFiniteSet(P) /\ IsFiniteSet(S \ P)
  <2>1. P \in SUBSET Events /\ S \ P \in SUBSET Events
    OBVIOUS
  <2> QED
    BY <2>1, Limits, FS_Subset
<1>2. \A e \in S : g[e] \in Nat
  BY RetainedAssumption
<1>3. \A e \in P : h[e] = g[e]
  OBVIOUS
<1>4. Bytes(S) = SumFunctionOnSet(g, S) /\ Bytes(P) = SumFunctionOnSet(h, P)
  BY DEF Bytes
<1> HIDE DEF g, h
<1>5. SumFunctionOnSet(h, P) = SumFunctionOnSet(g, P)
  BY <1>1, <1>3, SumSame
<1>6. SumFunctionOnSet(g, P) \in Nat /\ SumFunctionOnSet(g, S \ P) \in Nat
  BY <1>1, <1>2, SumRemove
<1>7. SumFunctionOnSet(g, S) = SumFunctionOnSet(g, P) + SumFunctionOnSet(g, S \ P)
  BY <1>1, <1>2, SumSplit
<1> QED
  BY <1>4, <1>5, <1>6, <1>7

\* Nothing has no bytes.
LEMMA BytesOfNothing == Bytes({}) = 0
BY FS_EmptySet, SumStep DEF Bytes

-----------------------------------------------------------------------------
(* The vector's order *)

\* No two events share a place, and one of them is before the other.
LEMMA SupersedesOrders ==
    ASSUME NEW e \in Events, NEW f \in Events
    PROVE  /\ ~Supersedes(e, e)
           /\ e # f => Supersedes(e, f) \/ Supersedes(f, e)
           /\ Supersedes(e, f) => ~Supersedes(f, e)
           /\ \A g \in Events : Supersedes(e, f) /\ Supersedes(f, g) => Supersedes(e, g)
<1>1. \A g \in Events : CreatedAt[g] \in Nat /\ g \in Nat
  BY RetainedAssumption
<1> QED
  BY <1>1 DEF Supersedes

\* Every place below the number of events is some event's, and only its.
LEMMA RankExact ==
    ASSUME NEW S \in SUBSET Events
    PROVE  /\ IsFiniteSet(S) /\ Cardinality(S) \in Nat
           /\ \A e \in S : Rank(e, S) \in 0..(Cardinality(S) - 1)
           /\ \A e, f \in S : Rank(e, S) = Rank(f, S) => e = f
           /\ \A i \in 0..(Cardinality(S) - 1) : \E e \in S : Rank(e, S) = i
<1> DEFINE Above(e) == {f \in S : Supersedes(f, e)}
<1> DEFINE n == Cardinality(S)
<1>0. IsFiniteSet(S) /\ n \in Nat
  <2>1. IsFiniteSet(Events)
    BY RetainedAssumption
  <2>2. IsFiniteSet(S)
    BY <2>1, FS_Subset
  <2> QED
    BY <2>2, FS_CardinalityType
<1> HIDE DEF n
<1>1. ASSUME NEW e \in S PROVE IsFiniteSet(Above(e)) /\ Cardinality(Above(e)) \in 0..(n - 1)
  <2>1. Above(e) \in SUBSET S /\ Above(e) # S
    BY SupersedesOrders
  <2>2. IsFiniteSet(Above(e)) /\ Cardinality(Above(e)) <= n /\ Cardinality(Above(e)) # n
    BY <1>0, <2>1, FS_Subset DEF n
  <2>3. Cardinality(Above(e)) \in Nat
    BY <2>2, FS_CardinalityType
  <2> QED
    BY <1>0, <2>2, <2>3
<1>2. ASSUME NEW e \in S, NEW f \in S, Supersedes(e, f)
      PROVE  Cardinality(Above(e)) # Cardinality(Above(f))
  <2>1. Above(e) \in SUBSET Above(f)
    BY <1>2, SupersedesOrders
  <2>2. e \in Above(f) /\ e \notin Above(e)
    BY <1>2, SupersedesOrders
  <2> QED
    BY <1>1, <2>1, <2>2, FS_Subset
<1>3. ASSUME NEW e \in S, NEW f \in S, Cardinality(Above(e)) = Cardinality(Above(f)) PROVE e = f
  BY <1>2, <1>3, SupersedesOrders
<1> DEFINE place == [e \in S |-> Cardinality(Above(e))]
<1>4. place \in Injection(S, 0..(n - 1))
  BY <1>1, <1>3 DEF Injection, IsInjective
<1>5. IsFiniteSet(0..(n - 1)) /\ Cardinality(0..(n - 1)) = n
  <2>1. 0 \in Int /\ n - 1 \in Int
    BY <1>0
  <2>2. IsFiniteSet(0..(n - 1)) /\ Cardinality(0..(n - 1)) = IF 0 > n - 1 THEN 0 ELSE (n - 1) - 0 + 1
    BY <2>1, FS_Interval
  <2> QED
    BY <1>0, <2>2
<1>6. place \in Surjection(S, 0..(n - 1))
  BY <1>4, <1>5, FS_Injection DEF n
<1>7. \A i \in 0..(n - 1) : \E e \in S : Cardinality(Above(e)) = i
  BY <1>6 DEF Surjection
<1>8. \A e \in S : Rank(e, S) = Cardinality(Above(e))
  BY DEF Rank
<1> HIDE DEF Above
<1> QED
  BY <1>0, <1>1, <1>3, <1>7, <1>8 DEF n

-----------------------------------------------------------------------------
(* insert and restore *)

\* Popping the oldest events ends within the limits, and takes nothing from a
\* set that is within them.
LEMMA TrimSound ==
    ASSUME NEW S \in SUBSET Events
    PROVE  Trim(S) \in SUBSET S /\ Fits(Trim(S)) /\ (Fits(S) => Trim(S) = S)
<1> DEFINE n == Cardinality(S) N == {i \in 0..n : Fits(Newest(i, S))}
<1>1. n \in Nat /\ \A e \in S : Rank(e, S) \in 0..(n - 1)
  BY RankExact
<1>2. Newest(0, S) = {} /\ Newest(n, S) = S
  BY <1>1 DEF Newest
<1>3. Fits({})
  <2>1. Bytes({}) = 0
    BY BytesOfNothing
  <2>2. Cardinality({}) = 0
    BY FS_EmptySet
  <2> QED
    BY <2>1, <2>2, Limits DEF Fits
<1>4. N \in SUBSET (0..n) /\ 0 \in N /\ (Fits(S) => n \in N)
  BY <1>1, <1>2, <1>3
<1>5. Trim(S) = Newest(Max(N), S)
  BY DEF Trim
<1> HIDE DEF N, n
<1>6. Max(N) \in N /\ \A i \in N : Max(N) >= i
  <2>1. N # {}
    BY <1>4
  <2> QED
    BY <1>1, <1>4, <2>1, GreatestOf
<1>7. Fits(Trim(S))
  BY <1>5, <1>6 DEF N
<1>8. ASSUME Fits(S) PROVE Trim(S) = S
  <2>0. Max(N) \in 0..n /\ Max(N) >= n
    BY <1>4, <1>6, <1>8
  <2>1. Max(N) = n
    BY <1>1, <2>0
  <2> QED
    BY <1>2, <1>5, <2>1
<1> QED
  BY <1>5, <1>7, <1>8 DEF Newest

\* A part of a set within the limits is within them.
LEMMA WithinPart ==
    ASSUME NEW S \in SUBSET Events, NEW P \in SUBSET S, Within(S)
    PROVE  Within(P) /\ Fits(P)
<1>1. IsFiniteSet(S) /\ Cardinality(S) \in Nat
  BY RankExact
<1>2. Cardinality(P) <= Cardinality(S) /\ IsFiniteSet(P)
  BY <1>1, FS_Subset
<1>3. Cardinality(P) \in Nat
  BY <1>2, FS_CardinalityType
<1>4. Bytes(P) <= Bytes(S) /\ Bytes(P) \in Nat /\ Bytes(S) \in Nat
  BY BytesMonotone
<1>5. Cardinality(P) <= MaxEvents /\ Bytes(P) <= MaxBytes
  BY <1>1, <1>2, <1>3, <1>4, RetainedAssumption DEF Within
<1>6. \A e, f \in P : f \in Rivals(e, P) => e = f
  BY DEF Within, Rivals
<1> QED
  BY <1>5, <1>6 DEF Within, Fits

\* What insert keeps when it does not refuse: current events and the new one,
\* within the limits.
LEMMA InsertSound ==
    ASSUME NEW S \in SUBSET Accepted, Within(S), NEW e \in Events, NEW t, ~Refuses(S, e, t)
    PROVE  /\ Insert(S, e, t) \in SUBSET (S \cup {e}) /\ Within(Insert(S, e, t))
           /\ Insert(S, e, t) \in SUBSET Accepted
           /\ \A f \in Insert(S, e, t) : IsCurrent(f, t)
<1> DEFINE X == ({f \in S : IsCurrent(f, t)} \ Rivals(e, S)) \cup {e}
<1>0. Insert(S, e, t) = Trim(X)
  BY DEF Insert
<1>1. X \in SUBSET Events
  BY Limits
<1>2. Trim(X) \in SUBSET X /\ Fits(Trim(X))
  BY <1>1, TrimSound
<1>3. e \in Accepted /\ IsCurrent(e, t)
  BY DEF Refuses
<1>4. ASSUME NEW f \in X, NEW g \in X, g \in Rivals(f, X) PROVE f = g
  BY <1>4 DEF Rivals, Within
<1>5. \A f \in X : IsCurrent(f, t) /\ f \in Accepted /\ f \in S \cup {e}
  BY <1>3
<1> HIDE DEF X
<1>6. \A f, g \in Trim(X) : g \in Rivals(f, Trim(X)) => f = g
  BY <1>2, <1>4 DEF Rivals
<1>7. Within(Trim(X))
  BY <1>2, <1>6 DEF Within, Fits
<1> QED
  BY <1>0, <1>2, <1>5, <1>7

\* The events restored after n insertions, and the recursion that finds them.
Reread(f, S, t) ==
    f = [n \in 0..Cardinality(S) |->
           IF n = 0 THEN {} ELSE Insert(f[n - 1], CHOOSE e \in S : Rank(e, S) = n - 1, t)]
EarlyCurrent(S, n, t) == {e \in S : Rank(e, S) < n /\ IsCurrent(e, t)}

\* One insertion of restore adds the next event if it is current, and nothing
\* that was inserted before has to leave for it.
LEMMA RestoreStep ==
    ASSUME NEW S \in SUBSET Accepted, Within(S), NEW t, NEW n \in Nat, NEW e \in S,
           Rank(e, S) = n
    PROVE  Insert(EarlyCurrent(S, n, t), e, t) = EarlyCurrent(S, n + 1, t)
<1> DEFINE R == EarlyCurrent(S, n, t)
<1>0. S \in SUBSET Events /\ \A f \in S : Rank(f, S) \in Nat /\ (Rank(f, S) = n => f = e)
  <2>1. S \in SUBSET Events
    BY RetainedAssumption
  <2> QED
    BY <2>1, RankExact
<1>1. R \in SUBSET S /\ e \notin R /\ \A f \in R : IsCurrent(f, t)
  BY DEF EarlyCurrent
<1>2. EarlyCurrent(S, n + 1, t) = IF IsCurrent(e, t) THEN R \cup {e} ELSE R
  BY <1>0 DEF EarlyCurrent
<1> HIDE DEF R
<1>3. \A f \in S : f \in Rivals(e, S) => f = e
  BY DEF Within
<1>4. Rivals(e, R) = {}
  BY <1>1, <1>3 DEF Rivals
<1>5. CASE ~IsCurrent(e, t)
  BY <1>2, <1>5 DEF Insert, Refuses, R
<1>6. CASE IsCurrent(e, t)
  <2>1. ~Refuses(R, e, t)
    BY <1>1, <1>4, <1>6 DEF Refuses
  <2>2. ({f \in R : IsCurrent(f, t)} \ Rivals(e, R)) \cup {e} = R \cup {e}
    BY <1>1, <1>4
  <2>3. R \cup {e} \in SUBSET S
    BY <1>1
  <2>4. Fits(R \cup {e})
    BY <1>0, <2>3, WithinPart
  <2>5. Trim(R \cup {e}) = R \cup {e}
    BY <1>0, <2>3, <2>4, TrimSound
  <2> QED
    BY <1>2, <1>6, <2>1, <2>2, <2>5 DEF Insert, R
<1> QED
  BY <1>5, <1>6

\* restore reads back all that is current of a snapshot within the limits: the
\* limits and the coordinates turn nothing away that was stored.
LEMMA RestoreIsSnapshot ==
    ASSUME NEW S \in SUBSET Accepted, Within(S), NEW t
    PROVE  Restore(S, t) = Snapshot(S, t)
<1> DEFINE n == Cardinality(S)
<1> DEFINE g == [i \in 0..n |-> EarlyCurrent(S, i, t)]
<1> DEFINE f == CHOOSE f : Reread(f, S, t)
<1> DEFINE At(i) == CHOOSE e \in S : Rank(e, S) = i
<1>0. S \in SUBSET Events
  BY Limits
<1>1. n \in Nat /\ \A e \in S : Rank(e, S) \in 0..(n - 1)
  BY <1>0, RankExact
<1>2. \A i \in 0..(n - 1) : At(i) \in S /\ Rank(At(i), S) = i
  BY <1>0, RankExact
<1> HIDE DEF At
<1>3. ASSUME NEW i \in 0..n, i # 0
      PROVE  Insert(EarlyCurrent(S, i - 1, t), At(i - 1), t) = EarlyCurrent(S, i, t)
  <2>1. i - 1 \in Nat /\ i - 1 \in 0..(n - 1) /\ (i - 1) + 1 = i
    BY <1>1, <1>3
  <2>2. At(i - 1) \in S /\ Rank(At(i - 1), S) = i - 1
    BY <1>2, <2>1
  <2>3. Insert(EarlyCurrent(S, i - 1, t), At(i - 1), t) = EarlyCurrent(S, (i - 1) + 1, t)
    BY <2>1, <2>2, RestoreStep
  <2> QED
    BY <2>1, <2>3
<1>4. EarlyCurrent(S, 0, t) = {} /\ EarlyCurrent(S, n, t) = Snapshot(S, t)
  BY <1>1 DEF EarlyCurrent, Snapshot
<1>5. ASSUME NEW i \in 0..n
      PROVE  g[i] = IF i = 0 THEN {} ELSE Insert(g[i - 1], At(i - 1), t)
  <2>1. CASE i = 0
    BY <1>4, <2>1
  <2>2. CASE i # 0
    <3>1. i - 1 \in 0..n
      BY <1>1, <2>2
    <3> QED
      BY <1>3, <2>2, <3>1
  <2> QED
    BY <2>1, <2>2
<1>6. g = [i \in 0..n |-> IF i = 0 THEN {} ELSE Insert(g[i - 1], At(i - 1), t)]
  BY <1>5
<1> HIDE DEF g
<1>7. Reread(g, S, t)
  BY <1>6 DEF Reread, At, n
<1>8. Reread(f, S, t)
  BY <1>7
<1>9. Restore(S, t) = f[n]
  BY Zenon DEF Restore, Reread
<1> HIDE DEF f
<1> DEFINE T == {i \in 0..n : f[i] = EarlyCurrent(S, i, t)}
<1>10. \A i \in 0..n : f[i] = IF i = 0 THEN {} ELSE Insert(f[i - 1], At(i - 1), t)
  BY <1>8 DEF Reread, At, n
<1> HIDE DEF n
<1>11. 0 \in T
  BY <1>1, <1>4, <1>10
<1>12. ASSUME NEW i \in 0..n, i \in T, i < n PROVE i + 1 \in T
  <2>1. i + 1 \in 0..n /\ i + 1 # 0 /\ (i + 1) - 1 = i
    BY <1>1, <1>12
  <2>2. f[i + 1] = Insert(f[i], At(i), t)
    BY <1>10, <2>1
  <2>3. Insert(EarlyCurrent(S, i, t), At(i), t) = EarlyCurrent(S, i + 1, t)
    BY <1>3, <2>1
  <2> QED
    BY <1>12, <2>1, <2>2, <2>3
<1> HIDE DEF T
<1>13. n \in T
  BY <1>1, <1>11, <1>12, UpTo
<1> QED
  BY <1>4, <1>9, <1>13 DEF T

-----------------------------------------------------------------------------
(* The store *)

TaskRecords ==
    [step : {"idle", "write", "sync", "persist", "syncDirectory"}, event : Events \cup {0},
     candidate : SUBSET Accepted, snapshot : SUBSET Accepted, caller : BOOLEAN]

StoreTypes ==
    /\ now \in 0..MaxTime
    /\ file \in [events : SUBSET Accepted, synced : BOOLEAN, torn : BOOLEAN]
    /\ durable \in [events : SUBSET Accepted, synced : BOOLEAN, torn : BOOLEAN]
    /\ lease \in Buses \cup {Nobody}
    /\ bus \in [Buses -> [open : BOOLEAN, events : SUBSET Accepted]]
    /\ task \in [Buses -> TaskRecords]
    /\ acked \in SUBSET Accepted /\ displaced \in SUBSET Accepted

\* Who may write: an open bus holds the lock file, and only an open bus has a
\* task.
Locked ==
    \A b \in Buses :
        /\ bus[b].open => lease = b
        /\ task[b] # Idle => bus[b].open
        /\ task[b].step = "idle" => task[b] = Idle

\* Nothing on the disk can come back torn.
OnDisk == file.synced /\ durable.synced /\ ~file.torn /\ ~durable.torn

\* Every set of events the store holds is within the limits.
AllWithin ==
    /\ Within(file.events) /\ Within(durable.events)
    /\ \A b \in Buses : Within(bus[b].events) /\ Within(task[b].candidate)

\* No longer too far in the future: what stops being current from here on has
\* expired, and stays so.
Arrived(S) == \A e \in S : CreatedAt[e] <= now + Skew

AllArrived ==
    /\ Arrived(file.events) /\ Arrived(durable.events) /\ Arrived(acked)
    /\ \A b \in Buses : Arrived(bus[b].events) /\ Arrived(task[b].candidate)

\* A set that has lost nothing acknowledged but to expiry, a newer event or the
\* limits.
Keeps(S) == \A e \in acked : e \in S \/ e \in displaced \/ ~IsCurrent(e, now)

AllKeep ==
    /\ Keeps(file.events) /\ Keeps(durable.events)
    /\ \A b \in Buses : bus[b].open => Keeps(bus[b].events)

\* Memory and file tell the same.
InStep ==
    \A b \in Buses : bus[b].open => Snapshot(bus[b].events, now) = Snapshot(file.events, now)

\* A running publish holds the event it will acknowledge, writes all of what
\* memory will hold, and adds nothing else; from the rename on, memory and
\* file are its candidate.
Publishing(b) ==
    /\ task[b].event \in task[b].candidate /\ task[b].snapshot = task[b].candidate
    /\ task[b].candidate \subseteq bus[b].events \cup {task[b].event}
    /\ IF task[b].step = "syncDirectory"
       THEN bus[b].events = task[b].candidate /\ file.events = task[b].candidate
       ELSE \A f \in Rivals(task[b].event, bus[b].events) : Supersedes(task[b].event, f)

TasksSound == \A b \in Buses : task[b] # Idle => Publishing(b)

StoreInv ==
    /\ StoreTypes /\ Locked /\ OnDisk /\ AllWithin /\ AllArrived /\ AllKeep /\ InStep
    /\ TasksSound

\* Nothing is within the limits.
LEMMA WithinNothing == Within({})
<1>1. Fits({})
  BY TrimSound
<1> QED
  BY <1>1 DEF Fits, Within

\* A store starts empty and closed.
LEMMA StoreInitially == Init => StoreInv
<1> SUFFICES ASSUME Init PROVE StoreInv
  OBVIOUS
<1> USE DEF Init, Closed, Idle, File
<1>1. StoreTypes
  BY BusAssumption DEF StoreTypes, TaskRecords
<1>2. Locked /\ OnDisk /\ AllArrived /\ AllKeep /\ InStep /\ TasksSound
  BY DEF Locked, OnDisk, AllArrived, Arrived, AllKeep, Keeps, InStep, TasksSound
<1>3. AllWithin
  BY WithinNothing DEF AllWithin
<1> QED
  BY <1>1, <1>2, <1>3 DEF StoreInv

\* What has arrived and is current later is current now.
LEMMA CurrentBefore ==
    ASSUME NEW t \in Nat, NEW e \in Events, CreatedAt[e] <= t + Skew, IsCurrent(e, t + 1)
    PROVE  IsCurrent(e, t)
BY RetainedAssumption DEF IsCurrent, Skew, NoExpiration

\* Time passes: events expire, in memory and in the file alike.
LEMMA TickKeeps == StoreInv /\ Tick => StoreInv'
<1> SUFFICES ASSUME StoreInv, Tick PROVE StoreInv'
  OBVIOUS
<1>0. now \in Nat /\ now' = now + 1 /\ StoreTypes'
      /\ UNCHANGED <<file, durable, lease, bus, task, acked, displaced>>
  BY BusAssumption DEF Tick, StoreInv, StoreTypes
<1>1. ASSUME NEW S \in SUBSET Accepted, Arrived(S)
      PROVE  Arrived(S)' /\ \A e \in S : IsCurrent(e, now') => IsCurrent(e, now)
  <2>1. \A e \in S : e \in Events /\ CreatedAt[e] \in Nat
    BY RetainedAssumption
  <2>2. \A e \in S : CreatedAt[e] <= now' + Skew
    BY <1>0, <1>1, <2>1 DEF Arrived, Skew
  <2>3. ASSUME NEW e \in S, IsCurrent(e, now') PROVE IsCurrent(e, now)
    BY <1>0, <1>1, <2>1, <2>3, CurrentBefore DEF Arrived
  <2> QED
    BY <2>2, <2>3 DEF Arrived
<1>2. /\ file.events \in SUBSET Accepted /\ durable.events \in SUBSET Accepted
      /\ acked \in SUBSET Accepted
      /\ \A b \in Buses : bus[b].events \in SUBSET Accepted /\ task[b].candidate \in SUBSET Accepted
  BY DEF StoreInv, StoreTypes, TaskRecords
<1>3. AllArrived'
  BY <1>0, <1>1, <1>2 DEF StoreInv, AllArrived, Arrived
<1>4. \A e \in acked : IsCurrent(e, now') => IsCurrent(e, now)
  BY <1>1, <1>2 DEF StoreInv, AllArrived
<1>5. AllKeep'
  BY <1>0, <1>4 DEF StoreInv, AllKeep, Keeps
<1>6. InStep'
  <2>1. ASSUME NEW b \in Buses, bus[b].open
        PROVE  Snapshot(bus[b].events, now') = Snapshot(file.events, now')
    <3>1. /\ \A e \in bus[b].events : IsCurrent(e, now') => IsCurrent(e, now)
          /\ \A e \in file.events : IsCurrent(e, now') => IsCurrent(e, now)
      BY <1>1, <1>2 DEF StoreInv, AllArrived
    <3>2. Snapshot(bus[b].events, now) = Snapshot(file.events, now)
      BY <2>1 DEF StoreInv, InStep
    <3> QED
      BY <3>1, <3>2 DEF Snapshot
  <2> QED
    BY <1>0, <2>1 DEF InStep
<1>7. Locked' /\ OnDisk' /\ AllWithin' /\ TasksSound'
  BY <1>0 DEF StoreInv, Locked, OnDisk, AllWithin, TasksSound, Publishing
<1> QED
  BY <1>0, <1>3, <1>5, <1>6, <1>7 DEF StoreInv

\* What is current of a set is within the limits, has arrived, and keeps what
\* the set keeps.
LEMMA SnapshotKeeps ==
    ASSUME NEW S \in SUBSET Accepted, Within(S), Arrived(S), Keeps(S)
    PROVE  /\ Snapshot(S, now) \in SUBSET Accepted /\ Within(Snapshot(S, now))
           /\ Arrived(Snapshot(S, now)) /\ Keeps(Snapshot(S, now))
           /\ Snapshot(Snapshot(S, now), now) = Snapshot(S, now)
<1>1. S \in SUBSET Events /\ Snapshot(S, now) \in SUBSET S
  BY Limits DEF Snapshot
<1>2. Within(Snapshot(S, now))
  BY <1>1, WithinPart
<1> QED
  BY <1>1, <1>2 DEF Snapshot, Arrived, Keeps

\* Opening takes the lock and restores what is current of the file.
LEMMA OpenKeeps ==
    ASSUME StoreInv, NEW b \in Buses, Open(b)
    PROVE  StoreInv'
<1> DEFINE S == Snapshot(file.events, now)
<1>0. file.events \in SUBSET Accepted /\ Within(file.events) /\ Arrived(file.events)
      /\ Keeps(file.events)
  BY DEF StoreInv, StoreTypes, AllWithin, AllArrived, AllKeep
<1>1. /\ S \in SUBSET Accepted /\ Within(S) /\ Arrived(S) /\ Keeps(S) /\ Snapshot(S, now) = S
  BY <1>0, SnapshotKeeps
<1>2. Restore(file.events, now) = S
  BY <1>0, RestoreIsSnapshot
<1>8. S = Snapshot(file.events, now)
  OBVIOUS
<1> HIDE DEF S
<1>3. /\ bus' = [bus EXCEPT ![b] = [open |-> TRUE, events |-> S]] /\ lease = Nobody /\ lease' = b
      /\ ~bus[b].open /\ UNCHANGED <<now, file, durable, task, acked, displaced>>
  BY <1>2 DEF Open, Opened
<1>4. bus'[b].open /\ bus'[b].events = S /\ \A c \in Buses : c # b => bus'[c] = bus[c]
  BY <1>3 DEF StoreInv, StoreTypes
<1>5. \A c \in Buses : c # b => ~bus[c].open
  BY <1>3, BusAssumption DEF StoreInv, Locked
<1>6. StoreTypes'
  BY <1>1, <1>3 DEF StoreInv, StoreTypes
<1>7. Locked' /\ OnDisk'
  BY <1>3, <1>4, <1>5 DEF StoreInv, Locked, OnDisk
<1>9. AllWithin'
  BY <1>1, <1>3, <1>4 DEF StoreInv, AllWithin
<1>10. AllArrived'
  BY <1>1, <1>3, <1>4 DEF StoreInv, AllArrived, Arrived
<1>11. AllKeep'
  BY <1>1, <1>3, <1>4, <1>5 DEF StoreInv, AllKeep, Keeps
<1>12. InStep'
  BY <1>1, <1>3, <1>4, <1>5, <1>8 DEF StoreInv, InStep
<1>13. TasksSound'
  BY <1>3, <1>4 DEF StoreInv, TasksSound, Publishing, Locked
<1> QED
  BY <1>6, <1>7, <1>9, <1>10, <1>11, <1>12, <1>13 DEF StoreInv

\* Ending: buses close and tasks end, some or all of them; the disk is left
\* alone, and the lock is released by its holder only.
Ends ==
    /\ UNCHANGED <<now, file, durable, acked, displaced>>
    /\ lease' \in {lease, Nobody}
    /\ bus' \in [Buses -> [open : BOOLEAN, events : SUBSET Accepted]]
    /\ task' \in [Buses -> TaskRecords]
    /\ \A b \in Buses :
          /\ bus'[b] \in {bus[b], Closed}
          /\ task'[b] \in {task[b], Idle}
          /\ task'[b] # Idle => bus'[b] = bus[b]
          /\ bus'[b].open => lease' = lease

\* Whatever ends, what is left satisfies the invariant.
LEMMA EndsKeeps == StoreInv /\ Ends => StoreInv'
<1> SUFFICES ASSUME StoreInv, Ends PROVE StoreInv'
  OBVIOUS
<1>0. UNCHANGED <<now, file, durable, acked, displaced>>
  BY DEF Ends
<1>1. \A b \in Buses : bus'[b] = bus[b] \/ (~bus'[b].open /\ bus'[b].events = {})
  BY DEF Ends, Closed
<1>2. \A b \in Buses : task'[b] = task[b]
        \/ (task'[b] = Idle /\ task'[b].step = "idle" /\ task'[b].candidate = {})
  BY DEF Ends, Idle
<1>3. \A b \in Buses : task'[b] # Idle => task'[b] = task[b] /\ bus'[b] = bus[b]
  BY DEF Ends
<1>4. StoreTypes'
  BY DEF Ends, StoreInv, StoreTypes
<1>5. Locked'
  BY <1>1, <1>2, <1>3 DEF StoreInv, Locked, Ends
<1>6. OnDisk'
  BY <1>0 DEF StoreInv, OnDisk
<1>7. AllWithin'
  BY <1>0, <1>1, <1>2, WithinNothing DEF StoreInv, AllWithin
<1>8. AllArrived'
  BY <1>0, <1>1, <1>2 DEF StoreInv, AllArrived, Arrived
<1>9. AllKeep'
  BY <1>0, <1>1 DEF StoreInv, AllKeep, Keeps
<1>10. InStep'
  BY <1>0, <1>1 DEF StoreInv, InStep
<1>11. TasksSound'
  BY <1>0, <1>3 DEF StoreInv, TasksSound, Publishing
<1> QED
  BY <1>4, <1>5, <1>6, <1>7, <1>8, <1>9, <1>10, <1>11 DEF StoreInv

\* close, a failed file operation and a killed process end what they end.
LEMMA EndingsEnd ==
    ASSUME StoreInv, NEW b \in Buses, Close(b) \/ Fail(b) \/ Kill(b)
    PROVE  Ends
<1> USE DEF StoreInv, StoreTypes, Locked
<1>1. Closed \in [open : BOOLEAN, events : SUBSET Accepted] /\ ~Closed.open
  BY DEF Closed
<1>5. Idle \in TaskRecords
  BY DEF Idle, TaskRecords
<1>2. CASE Close(b)
  BY <1>1, <1>2, <1>5 DEF Close, Ends
<1>3. CASE Fail(b)
  BY <1>1, <1>3, <1>5 DEF Fail, Ends, disk
<1>4. CASE Kill(b)
  BY <1>1, <1>4, <1>5 DEF Kill, Ends
<1> QED
  BY <1>2, <1>3, <1>4

\* A power failure leaves one of two snapshots, and neither is torn or lacks
\* what was acknowledged.
LEMMA PowerFailureKeeps == StoreInv /\ PowerFailure => StoreInv'
<1> SUFFICES ASSUME StoreInv, PowerFailure PROVE StoreInv'
  OBVIOUS
<1>1. file' \in {file, durable} /\ durable' = file'
  BY DEF PowerFailure, AfterPowerFailure, StoreInv, OnDisk
<1>2. /\ lease' = Nobody /\ bus' = [b \in Buses |-> Closed] /\ task' = [b \in Buses |-> Idle]
      /\ UNCHANGED <<now, acked, displaced>>
  BY DEF PowerFailure
<1>3. \A b \in Buses : ~bus'[b].open /\ bus'[b].events = {} /\ task'[b] = Idle
        /\ task'[b].candidate = {}
  BY <1>2 DEF Closed, Idle
<1>4. StoreTypes'
  BY <1>1, <1>2 DEF StoreInv, StoreTypes, TaskRecords, Closed, Idle
<1>5. Locked' /\ OnDisk' /\ InStep' /\ TasksSound'
  BY <1>1, <1>3 DEF StoreInv, Locked, OnDisk, InStep, TasksSound
<1>6. AllWithin'
  BY <1>1, <1>3, WithinNothing DEF StoreInv, AllWithin
<1>7. AllArrived' /\ AllKeep'
  BY <1>1, <1>2, <1>3 DEF StoreInv, AllArrived, Arrived, AllKeep, Keeps
<1> QED
  BY <1>4, <1>5, <1>6, <1>7 DEF StoreInv

\* publish prepares a candidate: what memory will hold, and the event in it.
LEMMA PublishKeeps ==
    ASSUME StoreInv, NEW b \in Buses, NEW e \in Events, Publish(b, e)
    PROVE  StoreInv'
<1> DEFINE S == bus[b].events C == Insert(S, e, now)
<1>0. S \in SUBSET Accepted /\ Within(S) /\ ~Refuses(S, e, now) /\ e \in C
  BY DEF StoreInv, StoreTypes, AllWithin, Publish, Inserts
<1>1. /\ C \in SUBSET (S \cup {e}) /\ Within(C) /\ C \in SUBSET Accepted
      /\ \A f \in C : IsCurrent(f, now)
  BY <1>0, InsertSound
<1>2. \A f \in Rivals(e, S) : Supersedes(e, f)
  BY <1>0 DEF Refuses
<1>3. Arrived(C)
  BY <1>1 DEF Arrived, IsCurrent
<1>4. Snapshot(C, now) = C
  BY <1>1 DEF Snapshot
<1> HIDE DEF C
<1> DEFINE new == [step |-> "write", event |-> e, candidate |-> C, snapshot |-> C, caller |-> TRUE]
<1>5. task' = [task EXCEPT ![b] = new] /\ UNCHANGED <<now, file, durable, lease, bus, acked, displaced>>
      /\ bus[b].open
  BY <1>4 DEF Publish, disk, C
<1>6. /\ new \in TaskRecords /\ new.step = "write" /\ new.event = e /\ new.candidate = C
      /\ new.snapshot = C
  BY <1>0, <1>1 DEF TaskRecords
<1> HIDE DEF new
<1>7. task'[b] = new /\ \A c \in Buses : c # b => task'[c] = task[c]
  BY <1>5 DEF StoreInv, StoreTypes
<1>8. StoreTypes'
  BY <1>5, <1>6 DEF StoreInv, StoreTypes
<1>9. Locked'
  BY <1>5, <1>6, <1>7 DEF StoreInv, Locked
<1>10. OnDisk' /\ AllKeep' /\ InStep'
  BY <1>5 DEF StoreInv, OnDisk, AllKeep, Keeps, InStep
<1>11. AllWithin' /\ AllArrived'
  BY <1>1, <1>3, <1>5, <1>6, <1>7 DEF StoreInv, AllWithin, AllArrived, Arrived
<1>12. ASSUME NEW c \in Buses, task'[c] # Idle PROVE Publishing(c)'
  <2>1. CASE c = b
    BY <1>0, <1>1, <1>2, <1>5, <1>6, <1>7, <2>1 DEF Publishing
  <2>2. CASE c # b
    BY <1>5, <1>7, <1>12, <2>2 DEF StoreInv, TasksSound, Publishing
  <2> QED
    BY <2>1, <2>2
<1> QED
  BY <1>8, <1>9, <1>10, <1>11, <1>12 DEF StoreInv, TasksSound

\* Writing and syncing the temporary file, and losing the caller, change
\* nothing but the task.
LEMMA WritingKeeps ==
    ASSUME StoreInv, NEW b \in Buses, Write(b) \/ Sync(b) \/ Cancel(b)
    PROVE  StoreInv'
<1> DEFINE old == task[b] new == task'[b]
<1>0. UNCHANGED <<now, file, durable, lease, bus, acked, displaced>>
  BY DEF Write, Sync, Cancel, disk
<1>1. old \in TaskRecords /\ task \in [Buses -> TaskRecords]
  BY DEF StoreInv, StoreTypes
<1>2. /\ old # Idle /\ new \in TaskRecords /\ new.step # "idle" /\ new.event = old.event
      /\ new.candidate = old.candidate /\ new.snapshot = old.snapshot
      /\ (new.step = "syncDirectory" <=> old.step = "syncDirectory")
      /\ task' \in [Buses -> TaskRecords] /\ \A c \in Buses : c # b => task'[c] = task[c]
  <2>1. CASE Write(b)
    BY <1>1, <2>1 DEF Write, TaskRecords, Idle
  <2>2. CASE Sync(b)
    BY <1>1, <2>2 DEF Sync, TaskRecords, Idle
  <2>3. CASE Cancel(b)
    <3>1. old # Idle /\ old.step # "idle"
      BY <2>3 DEF Cancel, Idle, StoreInv, Locked
    <3> QED
      BY <1>1, <2>3, <3>1 DEF Cancel, TaskRecords
  <2> QED
    BY <2>1, <2>2, <2>3
<1> HIDE DEF old, new
<1>3. StoreTypes' /\ OnDisk' /\ AllKeep' /\ InStep'
  BY <1>0, <1>2 DEF StoreInv, StoreTypes, OnDisk, AllKeep, Keeps, InStep
<1>4. Locked'
  BY <1>0, <1>2 DEF StoreInv, Locked, old, new
<1>5. AllWithin' /\ AllArrived'
  BY <1>0, <1>2 DEF StoreInv, AllWithin, AllArrived, Arrived, old, new
<1>6. ASSUME NEW c \in Buses, task'[c] # Idle PROVE Publishing(c)'
  <2>1. CASE c = b
    BY <1>0, <1>2, <2>1 DEF StoreInv, TasksSound, Publishing, old, new
  <2>2. CASE c # b
    BY <1>0, <1>2, <1>6, <2>2 DEF StoreInv, TasksSound, Publishing
  <2> QED
    BY <2>1, <2>2
<1> QED
  BY <1>3, <1>4, <1>5, <1>6 DEF StoreInv, TasksSound

\* The rename: memory and file become the candidate, and what it lacks of the
\* old events counts as replaced or evicted.
LEMMA PersistKeeps ==
    ASSUME StoreInv, NEW b \in Buses, Persist(b)
    PROVE  StoreInv'
<1> DEFINE C == task[b].candidate
<1>0. task[b] # Idle /\ bus[b].open
  BY DEF Persist, Idle, StoreInv, Locked
<1>1. /\ C \in SUBSET Accepted /\ Within(C) /\ Arrived(C) /\ task[b].snapshot = C
      /\ task[b].event \in C
  BY <1>0 DEF StoreInv, StoreTypes, TaskRecords, AllWithin, AllArrived, TasksSound, Publishing
<1>2. /\ file' = [events |-> C, synced |-> TRUE, torn |-> FALSE]
      /\ bus' = [bus EXCEPT ![b].events = C]
      /\ displaced' = displaced \cup (bus[b].events \ C)
      /\ task' = [task EXCEPT ![b].step = "syncDirectory"]
      /\ UNCHANGED <<now, durable, lease, acked>>
  BY <1>1 DEF Persist, File, Displaced
<1>3. \A c \in Buses : c # b => ~bus[c].open /\ task[c] = Idle
  BY <1>0 DEF StoreInv, Locked
<1>4. /\ bus' \in [Buses -> [open : BOOLEAN, events : SUBSET Accepted]]
      /\ bus'[b].open /\ bus'[b].events = C
      /\ \A c \in Buses : c # b => bus'[c] = bus[c]
  BY <1>0, <1>1, <1>2 DEF StoreInv, StoreTypes
<1>5. /\ task' \in [Buses -> TaskRecords] /\ task'[b].step = "syncDirectory"
      /\ task'[b].event = task[b].event /\ task'[b].candidate = C /\ task'[b].snapshot = C
      /\ \A c \in Buses : c # b => task'[c] = task[c]
  BY <1>1, <1>2 DEF StoreInv, StoreTypes, TaskRecords
<1>6. file'.events = C /\ file'.synced /\ ~file'.torn
  BY <1>2
<1>7. bus[b].events \in SUBSET Accepted /\ Keeps(bus[b].events)
  BY <1>0 DEF StoreInv, StoreTypes, AllKeep
<1> HIDE DEF C
<1>8. StoreTypes'
  BY <1>1, <1>2, <1>4, <1>5, <1>7 DEF StoreInv, StoreTypes
<1>9. Locked'
  BY <1>0, <1>2, <1>3, <1>4, <1>5 DEF StoreInv, Locked
<1>10. OnDisk'
  BY <1>2, <1>6 DEF StoreInv, OnDisk
<1>11. AllWithin'
  BY <1>1, <1>2, <1>4, <1>5, <1>6 DEF StoreInv, AllWithin
<1>12. AllArrived'
  BY <1>1, <1>2, <1>4, <1>5, <1>6 DEF StoreInv, AllArrived, Arrived
<1>13. AllKeep'
  <2>1. \A e \in acked' : e \in C \/ e \in displaced' \/ ~IsCurrent(e, now')
    BY <1>2, <1>7 DEF Keeps, C
  <2>2. Keeps(durable.events)'
    BY <1>2 DEF Keeps, StoreInv, AllKeep
  <2>3. Keeps(file.events)' /\ \A c \in Buses : bus'[c].open => c = b
    BY <1>3, <1>4, <1>6, <2>1 DEF Keeps
  <2>4. Keeps(bus[b].events)'
    BY <1>4, <2>1 DEF Keeps
  <2> QED
    BY <2>2, <2>3, <2>4 DEF AllKeep
<1>14. InStep'
  BY <1>3, <1>4, <1>6 DEF InStep
<1>15. Publishing(b)'
  BY <1>1, <1>4, <1>5, <1>6 DEF Publishing
<1>16. TasksSound'
  BY <1>3, <1>5, <1>15 DEF TasksSound
<1> QED
  BY <1>8, <1>9, <1>10, <1>11, <1>12, <1>13, <1>14, <1>16 DEF StoreInv

\* The directory is synced before the answer: the event is then in memory, in
\* the file and in what a power failure would leave.
LEMMA SyncDirectoryKeeps ==
    ASSUME StoreInv, NEW b \in Buses, SyncDirectory(b)
    PROVE  StoreInv'
<1> DEFINE e == task[b].event answered == IF task[b].caller THEN {e} ELSE {}
<1>0. task[b] # Idle /\ bus[b].open
  BY DEF SyncDirectory, Idle, StoreInv, Locked
<1>1. /\ e \in bus[b].events /\ e \in file.events /\ e \in Accepted
      /\ CreatedAt[e] <= now + Skew
  BY <1>0 DEF SyncDirectory, StoreInv, StoreTypes, TasksSound, Publishing, AllArrived, Arrived
<1>2. /\ durable' = file /\ acked' = acked \cup answered /\ displaced' = displaced \ answered
      /\ task' = [task EXCEPT ![b] = Idle] /\ UNCHANGED <<now, file, lease, bus>>
  BY DEF SyncDirectory, Answer
<1>3. answered \in {{}, {e}}
  OBVIOUS
<1> HIDE DEF answered, e
<1>4. \A c \in Buses : c # b => ~bus[c].open /\ task[c] = Idle
  BY <1>0 DEF StoreInv, Locked
<1>5. task' \in [Buses -> TaskRecords] /\ \A c \in Buses : task'[c] = Idle
  <2>1. Idle \in TaskRecords
    BY DEF Idle, TaskRecords
  <2> QED
    BY <1>2, <1>4, <2>1 DEF StoreInv, StoreTypes
<1>6. Idle.step = "idle" /\ Idle.candidate = {}
  BY DEF Idle
<1>7. StoreTypes'
  BY <1>1, <1>2, <1>3, <1>5 DEF StoreInv, StoreTypes
<1>8. Locked' /\ OnDisk' /\ InStep' /\ TasksSound'
  BY <1>2, <1>5 DEF StoreInv, Locked, OnDisk, InStep, TasksSound
<1>9. AllWithin'
  BY <1>2, <1>5, <1>6, WithinNothing DEF StoreInv, AllWithin
<1>10. AllArrived'
  BY <1>1, <1>2, <1>3, <1>5, <1>6 DEF StoreInv, AllArrived, Arrived
<1>11. ASSUME NEW S, Keeps(S), e \in S PROVE \A f \in acked' : f \in S \/ f \in displaced' \/ ~IsCurrent(f, now)
  BY <1>2, <1>3, <1>11 DEF Keeps
<1>12. AllKeep'
  <2>1. Keeps(file.events)' /\ Keeps(durable.events)'
    BY <1>1, <1>2, <1>11 DEF StoreInv, AllKeep, Keeps
  <2>2. Keeps(bus[b].events)'
    BY <1>0, <1>1, <1>2, <1>11 DEF StoreInv, AllKeep, Keeps
  <2> QED
    BY <1>2, <1>4, <2>1, <2>2 DEF AllKeep
<1> QED
  BY <1>7, <1>8, <1>9, <1>10, <1>12 DEF StoreInv

\* Every step keeps the invariant.
LEMMA StoreInductive == StoreInv /\ [Next]_vars => StoreInv'
<1> SUFFICES ASSUME StoreInv, [Next]_vars PROVE StoreInv'
  OBVIOUS
<1>1. CASE Tick
  BY <1>1, TickKeeps
<1>2. CASE PowerFailure
  BY <1>2, PowerFailureKeeps
<1>3. ASSUME NEW b \in Buses, Open(b) PROVE StoreInv'
  BY <1>3, OpenKeeps
<1>4. ASSUME NEW b \in Buses, Close(b) \/ Fail(b) \/ Kill(b) PROVE StoreInv'
  BY <1>4, EndingsEnd, EndsKeeps
<1>5. ASSUME NEW b \in Buses, NEW e \in Events, Publish(b, e) PROVE StoreInv'
  BY <1>5, PublishKeeps
<1>6. ASSUME NEW b \in Buses, Write(b) \/ Sync(b) \/ Cancel(b) PROVE StoreInv'
  BY <1>6, WritingKeeps
<1>7. ASSUME NEW b \in Buses, Persist(b) PROVE StoreInv'
  BY <1>7, PersistKeeps
<1>8. ASSUME NEW b \in Buses, SyncDirectory(b) PROVE StoreInv'
  BY <1>8, SyncDirectoryKeeps
<1>9. CASE UNCHANGED vars
  BY <1>9 DEF vars, StoreInv, StoreTypes, Locked, OnDisk, AllWithin, AllArrived, Arrived, AllKeep,
              Keeps, InStep, TasksSound, Publishing
<1> QED
  BY <1>1, <1>2, <1>3, <1>4, <1>5, <1>6, <1>7, <1>8, <1>9 DEF Next

\* What the invariant says of the store.
LEMMA StoreInvSound == StoreInv => StoreSound
<1> SUFFICES ASSUME StoreInv PROVE StoreSound
  OBVIOUS
<1>1. TypeOK
  BY DEF StoreInv, StoreTypes, TaskRecords, TypeOK
<1>2. SingleWriter /\ NeverTorn
  BY DEF StoreInv, Locked, SingleWriter, OnDisk, NeverTorn
<1>3. AckedKept
  BY DEF StoreInv, AllKeep, Keeps, AckedKept
<1>4. Restore(file.events, now) = Snapshot(file.events, now)
  BY RestoreIsSnapshot DEF StoreInv, StoreTypes, AllWithin
<1>5. MemoryMatchesFile
  BY <1>4 DEF StoreInv, InStep, MemoryMatchesFile
<1>6. SnapshotsWithin
  BY DEF StoreInv, AllWithin, SnapshotsWithin
<1> QED
  BY <1>1, <1>2, <1>3, <1>5, <1>6 DEF StoreSound

\* The store keeps its word for any number of processes and events, through
\* cancelled calls, failing file operations, killed processes and power
\* failures: one writer, nothing acknowledged lost but to expiry, a newer event
\* or the limits, no snapshot torn, and a restart restores what memory told
\* (FileEventBus::open, publish, close; RetainedEvents::insert, restore).
THEOREM StoreStaysSound == Spec => []StoreSound
<1> QED
  BY StoreInitially, StoreInductive, StoreInvSound, PTL DEF Spec

\* No step brings a replaced event back: an event enters an open bus only by
\* the rename of its own publish, and that publish was refused if a newer event
\* of its coordinate was kept.
LEMMA NoStepBringsBack ==
    ASSUME StoreInv, [Next]_vars, NEW b \in Buses, bus[b].open,
           NEW e \in bus'[b].events \ bus[b].events, NEW f \in bus[b].events,
           f \in Rivals(e, Events), Supersedes(f, e)
    PROVE  FALSE
<1>0. bus[b].events \in SUBSET Events /\ f \in Events /\ bus \in [Buses -> [open : BOOLEAN, events : SUBSET Accepted]]
  BY Limits DEF StoreInv, StoreTypes
<1>1. bus'[b] # bus[b] /\ bus'[b].events # {}
  OBVIOUS
<1>2. ASSUME NEW c \in Buses, Persist(c) PROVE FALSE
  <2>1. c = b
    BY <1>0, <1>1, <1>2 DEF Persist
  <2>2. bus'[b].events = task[b].candidate /\ task[b].step = "persist" /\ task[b] # Idle
    BY <1>0, <1>2, <2>1 DEF Persist, Idle
  <2>3. /\ task[b].candidate \subseteq bus[b].events \cup {task[b].event}
        /\ \A g \in Rivals(task[b].event, bus[b].events) : Supersedes(task[b].event, g)
    BY <2>2 DEF StoreInv, TasksSound, Publishing
  <2>4. e = task[b].event /\ e \in Events
    BY <2>2, <2>3, Limits DEF StoreInv, StoreTypes, TaskRecords
  <2>5. f \in Rivals(e, bus[b].events)
    BY DEF Rivals
  <2> QED
    BY <1>0, <2>3, <2>4, <2>5, SupersedesOrders
<1>3. ASSUME NEW c \in Buses, Open(c) PROVE FALSE
  BY <1>0, <1>1, <1>3 DEF Open
<1>4. ASSUME NEW c \in Buses, Close(c) \/ Kill(c) PROVE FALSE
  BY <1>0, <1>1, <1>4 DEF Close, Kill, Closed
<1>5. CASE PowerFailure
  BY <1>1, <1>5 DEF PowerFailure, Closed
<1>6. CASE Tick \/ UNCHANGED vars
  BY <1>1, <1>6 DEF Tick, vars
<1>7. ASSUME NEW c \in Buses, NEW g \in Events, Publish(c, g) PROVE FALSE
  BY <1>1, <1>7 DEF Publish
<1>8. ASSUME NEW c \in Buses, Write(c) \/ Sync(c) \/ SyncDirectory(c) \/ Fail(c) \/ Cancel(c)
      PROVE  FALSE
  BY <1>1, <1>8 DEF Write, Sync, SyncDirectory, Fail, Cancel
<1> QED
  BY <1>2, <1>3, <1>4, <1>5, <1>6, <1>7, <1>8 DEF Next

\* A replaced event does not come back while the event that replaced it is
\* kept, although the newer event may have been committed by a caller that was
\* gone, and the older one is published again (RetainedEvents::insert).
THEOREM ReplacedStaysReplaced == Spec => NoComeback
<1>1. StoreInv /\ [Next]_vars =>
        [\A b \in Buses : \A e \in bus'[b].events \ bus[b].events :
           bus[b].open => ~\E f \in bus[b].events : f \in Rivals(e, Events) /\ Supersedes(f, e)
                                                    /\ IsCurrent(f, now)]_vars
  BY NoStepBringsBack
<1> QED
  BY <1>1, StoreInitially, StoreInductive, PTL DEF Spec, NoComeback
=============================================================================
