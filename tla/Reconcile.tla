----------------------------- MODULE Reconcile -----------------------------
(***************************************************************************)
(* Two reconciliation sessions                                             *)
(* (crates/nostr-pubsub-reconcile/src/lib.rs) that exchange frames: the    *)
(* initiator's and the responder's, over immutable snapshots.              *)
(***************************************************************************)
EXTENDS Integers, SequencesExt, FiniteSetsExt

(***************************************************************************)
(* The reconciliation engine (crates/nostr-pubsub-reconcile/src/engine.rs) *)
(* and the frame check in front of it (validation.rs).  A record is        *)
(* <<timestamp, id>>; ids are three bits long where the code's are 32      *)
(* bytes, and a bound's id is a prefix filled up with zeros.  A            *)
(* fingerprint is the set it summarises: collisions are not modelled.      *)
(* A position in the sorted storage is the number of records before it.    *)
(* Sizes are in units of 16 bytes, a range counted at its longest.         *)
(***************************************************************************)
CONSTANTS
    Buckets,       \* BUCKETS: parts a range is split into
    FrameLimit     \* frame_size_limit - 200

ASSUME BucketsAssumption == Buckets \in Nat \ {0}

MaxU64 == 99
Forever == <<MaxU64, 0>>
Start == <<0, 0>>

Precedes(a, b) == a[1] < b[1] \/ (a[1] = b[1] /\ a[2] < b[2])
Storage(records) ==
    [i \in 1 .. Cardinality(records) |->
        CHOOSE r \in records : Cardinality({q \in records : Precedes(q, r)}) = i - 1]
Between(s, lower, upper) == {s[i] : i \in lower + 1 .. upper}
Ids(records) == {r[2] : r \in records}
Listed(ids) ==
    [i \in 1 .. Cardinality(ids) |-> CHOOSE x \in ids : Cardinality({y \in ids : y < x}) = i - 1]

\* find_lower_bound
LowerBound(s, from, bound) ==
    Min({from + k : k \in {k \in 0 .. Len(s) - from :
             \/ from + k = Len(s)
             \/ ~ Precedes(s[from + k + 1], bound)}})

\* get_minimal_bound: the shortest prefix that tells the two apart.
MinimalBound(prev, curr) ==
    IF curr[1] # prev[1] THEN <<curr[1], 0>>
    ELSE LET unit == Max({u \in {1, 2, 4} : prev[2] \div u # curr[2] \div u})
         IN  <<curr[1], (curr[2] \div unit) * unit>>

-----------------------------------------------------------------------------
(* Frames.  A writer holds the ranges written so far and the timestamp     *)
(* that the next one counts from.                                          *)

\* encode_timestamp_out, encode_bound, encode_mode
Emit(w, bound, mode, content) ==
    [ranges |-> Append(w.ranges,
         [delta |-> IF bound[1] = MaxU64 THEN 0
                    ELSE 1 + (IF bound[1] > w.last THEN bound[1] - w.last ELSE 0),
          id |-> bound[2], mode |-> mode, content |-> content]),
     last |-> bound[1]]

\* decode_timestamp_in
Timestamp(delta, last) ==
    IF delta = 0 \/ delta - 1 + last > MaxU64 THEN MaxU64 ELSE delta - 1 + last

RangeSize(r) ==
    (IF r.delta = 0 THEN 1 ELSE 3)
    + (CASE r.mode = "skip" -> 0 [] r.mode = "fingerprint" -> 1
         [] r.mode = "ids" -> 2 * Cardinality(r.content))
Size(ranges) == FoldLeft(LAMBDA n, r : n + RangeSize(r), 0, ranges)

\* exceeded_frame_size_limit
Exceeded(n) == n > FrameLimit

\* validate: the bounds of a frame never fall.
Valid(frame) ==
    FoldLeft(LAMBDA acc, r :
                 LET bound == <<Timestamp(r.delta, acc.bound[1]), r.id>>
                 IN  [bound |-> bound, ok |-> acc.ok /\ ~ Precedes(bound, acc.bound)],
             [bound |-> Start, ok |-> TRUE], frame).ok

\* split_range: a short range is listed, a long one cut into fingerprints.
SplitRange(w, s, lower, upper, bound) ==
    LET n == upper - lower
        extra == n % Buckets
        end(i) == lower + i * (n \div Buckets) + (IF i < extra THEN i ELSE extra)
        limit(i) == IF end(i) = upper THEN bound ELSE MinimalBound(s[end(i)], s[end(i) + 1])
    IN  IF n < 2 * Buckets THEN Emit(w, bound, "ids", Ids(Between(s, lower, upper)))
        ELSE FoldLeft(LAMBDA acc, i : Emit(acc, limit(i), "fingerprint", Between(s, end(i - 1), end(i))),
                      w, [i \in 1 .. Buckets |-> i])

-----------------------------------------------------------------------------
(* reconcile_aux.  The loop's state:                                       *)
(*   in, out      last_timestamp_in, last_timestamp_out                    *)
(*   full         full_output                                              *)
(*   prev, index  prev_bound, prev_index                                   *)
(*   skip         a Skip is pending                                        *)
(*   have, need   ids found, in order                                      *)
(*   stop         the frame is full                                        *)

FreshLoop == [in |-> 0, out |-> 0, full |-> <<>>, prev |-> Start, index |-> 0, skip |-> FALSE,
              have |-> <<>>, need |-> <<>>, stop |-> FALSE]

Tentative(acc) ==
    LET w == [ranges |-> <<>>, last |-> acc.out] IN
    IF acc.skip THEN Emit(w, acc.prev, "skip", {}) ELSE w

\* What one range leads to, before the size is checked: o is not yet part of
\* the frame, an id list already is.
Quietly(acc, upper) ==
    [o |-> <<>>, out |-> acc.out, full |-> acc.full, skip |-> TRUE, upper |-> upper,
     truncated |-> FALSE, have |-> acc.have, need |-> acc.need]

OnFingerprint(acc, s, r, upper, bound) ==
    IF r.content = Between(s, acc.index, upper) THEN Quietly(acc, upper)
    ELSE LET w == SplitRange(Tentative(acc), s, acc.index, upper, bound) IN
         [Quietly(acc, upper) EXCEPT !.o = w.ranges, !.out = w.last, !.skip = FALSE]

\* The initiator compares the other side's list with its own records.
Compare(acc, s, r, upper) ==
    LET mine == Ids(Between(s, acc.index, upper)) IN
    [Quietly(acc, upper) EXCEPT !.have = @ \o Listed(mine \ r.content),
                                    !.need = @ \o Listed(r.content \ mine)]

\* The responder lists its own records, as many as fit.
ListIds(acc, s, upper, bound) ==
    LET n == upper - acc.index
        sent == Min({k \in 0 .. n : k = n \/ Exceeded(Size(acc.full) + 2 * k)})
        w == Emit(Tentative(acc), IF sent = n THEN bound ELSE s[acc.index + sent + 1], "ids",
                  Ids(Between(s, acc.index, acc.index + sent)))
    IN  [Quietly(acc, acc.index + sent) EXCEPT
            !.full = @ \o w.ranges, !.out = w.last, !.skip = FALSE, !.truncated = sent < n]

\* Mutant: negentropy 0.5.0, where a range that does not fit is lost.
TruncateLosing(acc, s, t, bound) ==
    LET w == Emit([ranges |-> t.full, last |-> t.out], Forever, "fingerprint",
                  Between(s, t.upper, Len(s)))
    IN  [acc EXCEPT !.full = w.ranges, !.have = t.have, !.need = t.need, !.stop = TRUE]

\* The frame is full: a fingerprint stands for all that remains, from the
\* range that was not written; what counted for it does not count.
Truncate(acc, s, t, bound) ==
    LET written == t.o = <<>>
        w0 == [ranges |-> t.full, last |-> IF written THEN t.out ELSE acc.out]
        w1 == IF t.truncated THEN w0
              ELSE Emit(w0, IF written THEN bound ELSE acc.prev, "skip", {})
        w2 == Emit(w1, Forever, "fingerprint",
                   Between(s, IF written THEN t.upper ELSE acc.index, Len(s)))
    IN  [acc EXCEPT !.full = w2.ranges, !.have = t.have, !.need = t.need, !.stop = TRUE]

OnRange(acc, s, initiator, r) ==
    LET ts == Timestamp(r.delta, acc.in)
        bound == <<ts, r.id>>
        upper == LowerBound(s, acc.index, bound)
        t == CASE r.mode = "skip" -> Quietly(acc, upper)
               [] r.mode = "fingerprint" -> OnFingerprint(acc, s, r, upper, bound)
               [] r.mode = "ids" /\ initiator -> Compare(acc, s, r, upper)
               [] OTHER -> ListIds(acc, s, upper, bound)
    IN  IF t.truncated \/ Exceeded(Size(t.full) + Size(t.o)) THEN Truncate(acc, s, t, bound)
        ELSE [acc EXCEPT !.in = ts, !.out = t.out, !.full = t.full \o t.o, !.prev = bound,
                         !.index = t.upper, !.skip = t.skip, !.have = t.have, !.need = t.need]

ReconcileAux(s, initiator, frame) ==
    FoldLeft(LAMBDA acc, r : IF acc.stop THEN acc ELSE OnRange(acc, s, initiator, r), FreshLoop, frame)

\* initiate
InitialFrame(s) == SplitRange([ranges |-> <<>>, last |-> 0], s, 0, Len(s), Forever).ranges

-----------------------------------------------------------------------------
CONSTANTS
    Records,          \* the records that exist
    Since, Until,     \* the agreed window
    MaxRecords,       \* max_records
    MaxFrame,         \* max_frame_bytes, in the units of Size
    MaxRounds         \* max_rounds

VARIABLES
    ours, theirs,     \* the two storages
    side,             \* which session works next, or how the exchange ended
    frame,            \* the frame on its way
    rounds,           \* [ours, theirs]: calls of each session
    have, need        \* what the initiator has found

reconcileVars == <<ours, theirs, side, frame, rounds, have, need>>

\* Session::new: the window's records, unless they are too many.
Snapshot(records) == {r \in records : r[1] >= Since /\ r[1] <= Until}

ReconcileInit ==
    /\ \E a, b \in {P \in SUBSET Snapshot(Records) : Cardinality(P) <= MaxRecords} :
           ours = Storage(a) /\ theirs = Storage(b)
    /\ side = "initiate"
    /\ frame = <<>>
    /\ rounds = [ours |-> 0, theirs |-> 0]
    /\ have = <<>> /\ need = <<>>

\* tick and accept: a session refuses a call beyond its rounds, a frame that
\* is too long and one that is not valid.
Accepts(who, f) == rounds[who] < MaxRounds /\ Size(f) <= MaxFrame /\ Valid(f)
Counted(who) == rounds' = [rounds EXCEPT ![who] = @ + 1]

Initiate ==
    /\ side = "initiate"
    /\ frame' = InitialFrame(ours)
    /\ side' = "theirs"
    /\ Counted("ours")
    /\ UNCHANGED <<ours, theirs, have, need>>

Respond ==
    /\ side = "theirs" /\ Accepts("theirs", frame)
    /\ \E loop \in {ReconcileAux(theirs, FALSE, frame)} : frame' = loop.full
    /\ side' = "ours"
    /\ Counted("theirs")
    /\ UNCHANGED <<ours, theirs, have, need>>

\* reconcile: nothing left to say ends the session.
ReconcileFrame ==
    /\ side = "ours" /\ Accepts("ours", frame)
    /\ \E loop \in {ReconcileAux(ours, TRUE, frame)} :
           /\ frame' = loop.full
           /\ have' = have \o loop.have
           /\ need' = need \o loop.need
           /\ side' = IF loop.full = <<>> THEN "finished" ELSE "theirs"
    /\ Counted("ours")
    /\ UNCHANGED <<ours, theirs>>

RefuseFrame ==
    /\ side \in {"ours", "theirs"} /\ ~ Accepts(side, frame)
    /\ side' = "failed"
    /\ UNCHANGED <<ours, theirs, frame, rounds, have, need>>

ReconcileNext == Initiate \/ Respond \/ ReconcileFrame \/ RefuseFrame

-----------------------------------------------------------------------------
\* When the exchange ends, the initiator knows exactly the ids that only it
\* has and those that only the other side has, whatever the splits, the
\* truncated frames and the ranges skipped on the way.  An id may be named
\* more than once: the fingerprint that ends a truncated frame also covers
\* ranges that were settled before.
Exact ==
    side = "finished" =>
        LET a == Ids(ToSet(ours)) b == Ids(ToSet(theirs)) IN
        ToSet(have) = a \ b /\ ToSet(need) = b \ a

\* Two honest sides come to the end within the rounds: no frame of one is
\* too long or out of order for the other, and no range is asked for again
\* and again.
NeverRefused == side # "failed"
=============================================================================
