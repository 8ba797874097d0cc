----------------------------- MODULE Incentives -----------------------------
(***************************************************************************)
(* The simulator's incentive planner: verified deliveries are priced into  *)
(* obligations (receiver pays provider), and one of five strategies works  *)
(* through them, keeping a report of what was earned, settled, refused,    *)
(* owed and lost.  What the code draws from hashes of the seed (who        *)
(* defaults, which attempt meets an outage, which seller fails, which      *)
(* refund fails, who lives at which mint) is a choice here.                *)
(* Counters are natural numbers: the code's saturate at 2^64.              *)
(***************************************************************************)
EXTENDS Integers, Sequences, FiniteSets, FiniteSetsExt, SequencesExt

CONSTANTS
    Nodes,              \* node indices; the order is the code's pair order
    BytesPerSat,        \* bytes_per_sat
    CreditCap,          \* offline_credit_cap_sat
    MinSettlement,      \* cashu_min_settlement_sat
    BatchInterval,      \* batch_interval_ms
    FixedPrepay,        \* fixed_prepay_sat
    Prefund,            \* spilman_prefund_sat
    UpdateSat,          \* spilman_update_sat
    Lifetime,           \* spilman_channel_lifetime_ms
    MaxRetries,         \* max_payment_retries
    RetryAfter,         \* payment_retry_ms
    Deadline,           \* settlement_deadline_ms
    Claims,             \* fake_claims_per_attacker
    PublicDiscovery,    \* mint_discovery_scope = Public
    HomeMint,           \* home_mint of every node
    Gateway,            \* gateway_mint, or a value that is no mint
    PayloadSizes,       \* payload_bytes a delivery may have
    MaxBytes,           \* bound on the bytes of a report
    LastDelivery        \* bound on the delivery times

VARIABLES
    phase,          \* "deliver", "plan", "carry" or "done"
    deliveredAt,            \* accepted_at_ms of the latest delivery
    remainders,     \* price_records: bytes of a pair not yet worth a sat
    obligations,    \* PricedWorkload.obligations
    usefulBytes,    \* PricedWorkload.useful_bytes
    strategy,       \* the strategy being planned
    actors,         \* who attacks, who defaults, and the use case
    todo,           \* obligations, batches or streams the loop has not met
    credit,         \* outstanding / peer_credit: unsecured debt of a pair
    report          \* the Plan and its IncentiveReport

planVars == <<strategy, actors, todo, credit, report>>
incentiveVars ==
    <<phase, deliveredAt, remainders, obligations, usefulBytes, strategy, actors, todo,
      credit, report>>

-----------------------------------------------------------------------------
\* struct Pair: the payer received, the provider delivered.
Pairs == {p \in [payer : Nodes, provider : Nodes] : p.payer # p.provider}

Opposite(pair) == [payer |-> pair.provider, provider |-> pair.payer]

Strategies == {"direct", "credit", "prepaid", "spilman", "batch"}

Least(a, b) == IF a <= b THEN a ELSE b
Most(a, b) == IF a >= b THEN a ELSE b
Less(a, b) == IF a >= b THEN a - b ELSE 0       \* saturating_sub

\* Plan::new before anything is recorded.
EmptyReport ==
    [useful |-> 0, earned |-> 0, settled |-> 0, denied |-> 0, pending |-> 0,
     unpaid |-> 0, maxUnpaid |-> 0, defaulted |-> 0, exposure |-> 0, loss |-> 0,
     prepaidMost |-> 0, paid |-> 0, used |-> 0, unusedCredit |-> 0, buyerLoss |-> 0,
     accepted |-> 0, outstanding |-> 0, maxCredit |-> 0, reciprocal |-> 0,
     same |-> 0, cross |-> 0, capacity |-> 0, signed |-> 0, unusedCapacity |-> 0,
     locked |-> 0, opened |-> 0, closed |-> 0, refunded |-> 0, refundFailures |-> 0,
     refundLoss |-> 0, attempts |-> 0, retries |-> 0, messages |-> 0,
     adverts |-> 0, claimed |-> 0,
     unpaidOf |-> [p \in Pairs |-> 0], met |-> {},
     entries |-> [n \in Nodes |-> 0], traffic |-> [n \in Nodes |-> 0]]

Plus(r, field, n) == [r EXCEPT ![field] = @ + n]
Peak(r, field, n) == [r EXCEPT ![field] = Most(@, n)]

-----------------------------------------------------------------------------
(* What a plan records                                                     *)

Honest(node) == node \notin actors.attackers

Defaults(pair) == pair.payer \in actors.defaulters

Earn(r, pair, n) == IF Honest(pair.provider) THEN Plus(r, "earned", n) ELSE r

MarkSettled(r, pair, n) ==
    IF Honest(pair.provider) THEN Plus(r, "settled", n) ELSE r

\* Mutant of Deny: service over a limit neither served nor refused.
DenyNot(r, n) == r

Deny(r, n) == Plus(r, "denied", n)

RecordState(r, pair) ==
    [r EXCEPT !.entries = [n \in Nodes |->
        @[n] + IF n \in {pair.payer, pair.provider} THEN 1 ELSE 0]]

RecordMessages(r, pair, n) ==
    [r EXCEPT !.messages = @ + n,
              !.traffic = [m \in Nodes |->
                  @[m] + IF m \in {pair.payer, pair.provider} THEN n ELSE 0]]

\* record_mint_discovery_pair: only the public scope costs a message.
Discover(r, pair) ==
    IF pair \in r.met THEN r
    ELSE LET cost == IF PublicDiscovery THEN 1 ELSE 0
         IN  RecordMessages([Plus(r, "adverts", cost) EXCEPT !.met = @ \cup {pair}],
                            pair, cost)

RecordUnpaid(r, pair, n) ==
    LET owed == r.unpaidOf[pair] + n
    IN  [r EXCEPT !.unpaidOf[pair] = owed,
                  !.unpaid = @ + n,
                  !.maxUnpaid = Most(@, owed),
                  !.defaulted = IF Defaults(pair) THEN @ + n ELSE @]

RecordExposure(r, n, lost) ==
    Plus(Peak(r, "exposure", n), "loss", IF lost THEN n ELSE 0)

\* mint_route: a payer at the gateway mint is everyone's neighbour.
RecordRoute(r, pair) ==
    IF \/ HomeMint[pair.payer] = HomeMint[pair.provider]
       \/ HomeMint[pair.payer] = Gateway
    THEN Plus(r, "same", 1)
    ELSE Plus(r, "cross", 1)

SettleWithRoute(r, pair, n) == MarkSettled(RecordRoute(r, pair), pair, n)

RecordDefaulted(r, pair, n) ==
    LET unpaid == RecordUnpaid(RecordMessages(Discover(r, pair), pair, 1), pair, n)
    IN  Plus(RecordExposure(unpaid, unpaid.unpaidOf[pair], FALSE), "loss", n)

\* try_settlement: every attempt before the deadline may meet an outage; the
\* result is one of the reports it can leave, with the answer.
TrySettlement(r, pair, due) ==
    LET tries == Cardinality({k \in 0..MaxRetries : due + k * RetryAfter <= Deadline})
        After(k) ==
            RecordMessages(
                Plus(Plus(Discover(r, pair), "attempts", k), "retries", Less(k, 1)),
                pair, 2 * k)
    IN  {[ok |-> TRUE, report |-> After(k)] : k \in 1..tries}
            \cup {[ok |-> FALSE, report |-> After(tries)]}

\* provider_will_fail: only streams to unknown sellers are at risk.
MayFail(pair) ==
    CASE ~actors.streaming -> {FALSE}
      [] actors.streaming /\ ~Honest(pair.provider) -> {TRUE}
      [] OTHER -> BOOLEAN

RecordPrepay(r, n, used, lost) ==
    LET paid == Plus(Peak(r, "prepaidMost", n), "paid", n)
    IN  IF lost THEN Plus(paid, "buyerLoss", n)
        ELSE Plus(Plus(paid, "used", used), "unusedCredit", n - used)

RecordChannelOpen(r, signed, lifetime) ==
    [r EXCEPT !.capacity = @ + Prefund,
              !.signed = @ + signed,
              !.unusedCapacity = @ + (Prefund - signed),
              !.locked = @ + Prefund * lifetime,
              !.opened = @ + 1]

\* record_channel_close, then record_refund_failure or record_channel_refund.
RecordChannelClose(r, n, fails) ==
    LET shut == Plus(r, "closed", 1)
    IN  IF fails
        THEN Plus(Plus(shut, "refundFailures", IF n = 0 THEN 0 ELSE 1), "refundLoss", n)
        ELSE Plus(shut, "refunded", n)

-----------------------------------------------------------------------------
(* The workload                                                            *)

Total(pick(_)) == MapThenSumSet(LAMBDA i : pick(obligations[i]), DOMAIN obligations)

Lexical(s, t) ==
    \E i \in DOMAIN s : s[i] < t[i] /\ \A j \in 1..(i - 1) : s[j] = t[j]

Ordered(items) == SetToSortSeq(items, LAMBDA a, b : Lexical(a.key, b.key))

Due(o) == (o.at \div BatchInterval + 1) * BatchInterval

\* batches, folded into one item per window and unordered pair: what the lower
\* node owes the higher one, and what it is owed.
Windows ==
    LET Key(o) == <<Due(o), Least(o.pair.payer, o.pair.provider),
                    Most(o.pair.payer, o.pair.provider)>>
        Amount(key, payer) ==
            Total(LAMBDA o : IF Key(o) = key /\ o.pair.payer = payer THEN o.amount ELSE 0)
    IN  {[key |-> key, up |-> Amount(key, key[2]), down |-> Amount(key, key[3])] :
            key \in {Key(obligations[i]) : i \in DOMAIN obligations}}

\* pair_streams: everything one pair owes, with its first and last delivery.
Streams ==
    LET Of(pair) == {i \in DOMAIN obligations : obligations[i].pair = pair}
        Times(pair) == {obligations[i].at : i \in Of(pair)}
    IN  {[key |-> <<pair.payer, pair.provider>>, pair |-> pair,
          amount |-> Total(LAMBDA o : IF o.pair = pair THEN o.amount ELSE 0),
          first |-> Min(Times(pair)), last |-> Max(Times(pair))] :
            pair \in {obligations[i].pair : i \in DOMAIN obligations}}

\* The obligations or batches or streams a strategy loops over.
Work(s) ==
    CASE s = "direct" -> obligations
      [] s \in {"credit", "batch"} -> Ordered(Windows)
      [] s \in {"prepaid", "spilman"} -> Ordered(Streams)

\* The loops over batches first note a payment entry for each (window, pair).
Entered(r, s) ==
    IF s \notin {"credit", "batch"} THEN r
    ELSE LET Touches(n) ==
                Cardinality({<<Due(obligations[i]), obligations[i].pair>> :
                    i \in {j \in DOMAIN obligations :
                        n \in {obligations[j].pair.payer, obligations[j].pair.provider}}})
         IN  [r EXCEPT !.entries = [n \in Nodes |-> @[n] + Touches(n)]]

\* record_public_mint_discovery: everyone hears from everyone.
Advertised(r) ==
    IF ~PublicDiscovery THEN r
    ELSE LET others == Cardinality(Nodes) - 1
         IN  [r EXCEPT !.met = Pairs,
                       !.adverts = Cardinality(Pairs),
                       !.messages = Cardinality(Pairs),
                       !.traffic = [n \in Nodes |-> 2 * others]]

-----------------------------------------------------------------------------
IncentiveInit ==
    /\ phase = "deliver"
    /\ deliveredAt = 0
    /\ remainders = [p \in Pairs |-> 0]
    /\ obligations = <<>>
    /\ usefulBytes = 0
    /\ strategy = "direct"
    /\ actors = [attackers |-> {}, defaulters |-> {}, streaming |-> FALSE]
    /\ todo = <<>>
    /\ credit = [p \in Pairs |-> 0]
    /\ report = EmptyReport

\* One record of the report, in the order price_records sorts them.
Price(pair, bytes, at) ==
    LET held == remainders[pair] + bytes
        amount == held \div BytesPerSat
    IN  /\ phase = "deliver"
        /\ usefulBytes + bytes <= MaxBytes
        /\ at >= deliveredAt
        /\ deliveredAt' = at
        /\ usefulBytes' = usefulBytes + bytes
        /\ remainders' = [remainders EXCEPT ![pair] = held % BytesPerSat]
        /\ obligations' =
              IF amount = 0 THEN obligations
              ELSE Append(obligations, [pair |-> pair, amount |-> amount, at |-> at])
        /\ UNCHANGED <<phase, planVars>>

\* validate_inputs: a plan is refused when a size, fee step or interval is zero.
ValidInputs ==
    \A n \in {BytesPerSat, MinSettlement, BatchInterval, FixedPrepay, Prefund,
              UpdateSat, Lifetime} : n > 0

\* Every attacker defaults; other payers may; only streams ask for the use case.
Actors(s) ==
    {[attackers |-> a, defaulters |-> d, streaming |-> b] :
        <<a, d, b>> \in
            {t \in (SUBSET Nodes) \X (SUBSET Nodes) \X BOOLEAN :
                /\ t[1] \subseteq t[2]
                /\ t[3] => s \in {"prepaid", "spilman"}}}

\* plan_incentive_strategy: Plan::new over the priced workload.
Start(s, a) ==
    /\ phase = "deliver"
    /\ ValidInputs
    /\ phase' = "plan"
    /\ strategy' = s
    /\ actors' = a
    /\ todo' = Work(s)
    /\ report' = Entered(Advertised([EmptyReport EXCEPT !.useful = Total(LAMBDA o : o.amount)]), s)
    /\ UNCHANGED <<deliveredAt, remainders, obligations, usefulBytes, credit>>

\* The next item of the loop of strategy s.
Loop(s) ==
    /\ phase = "plan"
    /\ strategy = s
    /\ todo # <<>>
    /\ todo' = Tail(todo)
    /\ UNCHANGED <<phase, deliveredAt, remainders, obligations, usefulBytes, strategy, actors>>

\* plan_direct: every obligation is settled by itself.
PlanDirect ==
    /\ Loop("direct")
    /\ UNCHANGED credit
    /\ LET o == Head(todo)
           served == RecordExposure(Earn(RecordState(report, o.pair), o.pair, o.amount),
                                    o.amount, FALSE)
       IN  \/ /\ Defaults(o.pair)
              /\ report' = RecordDefaulted(served, o.pair, o.amount)
           \/ /\ ~Defaults(o.pair)
              /\ \E tried \in TrySettlement(served, o.pair, o.at) :
                    LET owed == RecordUnpaid(Plus(tried.report, "pending", o.amount),
                                             o.pair, o.amount)
                    IN  report' =
                            IF tried.ok THEN SettleWithRoute(tried.report, o.pair, o.amount)
                            ELSE RecordExposure(owed, owed.unpaidOf[o.pair], FALSE)

\* The bilateral setoff of one window, and the direction and amount left.
SetOff(r, w) ==
    LET pair == [payer |-> w.key[2], provider |-> w.key[3]]
        n == Least(w.up, w.down)
        Both(s, Mark(_, _, _)) == Mark(Mark(s, pair, n), Opposite(pair), n)
    IN  Plus(Both(Both(r, Earn), MarkSettled), "reciprocal", 2 * n)

NetPair(w) ==
    IF w.up >= w.down THEN [payer |-> w.key[2], provider |-> w.key[3]]
    ELSE [payer |-> w.key[3], provider |-> w.key[2]]

Net(w) == Most(w.up, w.down) - Least(w.up, w.down)

\* plan_peer_credit: what is left is owed up to the cap, then settled if it can.
PlanPeerCredit ==
    /\ Loop("credit")
    /\ LET w == Head(todo)
           pair == NetPair(w)
           admitted == Least(Net(w), Less(CreditCap, credit[pair]))
           debt == credit[pair] + admitted
           served == Deny(Earn(RecordExposure(SetOff(report, w), debt, FALSE),
                               pair, admitted), Net(w) - admitted)
       IN  \/ /\ Net(w) = 0
              /\ report' = SetOff(report, w)
              /\ UNCHANGED credit
           \/ /\ Net(w) > 0
              /\ Defaults(pair) \/ debt = 0
              /\ report' = IF Defaults(pair) THEN RecordMessages(served, pair, 1)
                           ELSE served
              /\ credit' = [credit EXCEPT ![pair] = debt]
           \/ /\ Net(w) > 0
              /\ ~Defaults(pair) /\ debt > 0
              /\ \E tried \in TrySettlement(served, pair, w.key[1]) :
                    /\ report' = IF tried.ok THEN SettleWithRoute(tried.report, pair, debt)
                                 ELSE tried.report
                    /\ credit' = [credit EXCEPT ![pair] = IF tried.ok THEN 0 ELSE debt]

\* accept_peer_credit: the cap is per directed pair; credit of a payer who will
\* pay counts as settled at once.
AcceptCredit(r, pair, n, held) ==
    LET admitted == Least(n, Less(CreditCap, held[pair]))
        balance == held[pair] + admitted
        taken == Peak(Plus(r, "accepted", admitted), "maxCredit", balance)
        served == Earn(RecordExposure(taken, balance, FALSE), pair, admitted)
        marked == IF Defaults(pair) THEN served ELSE MarkSettled(served, pair, admitted)
    IN  /\ report' = Deny(marked, n - admitted)
        /\ credit' = [held EXCEPT ![pair] = balance]

\* Mutant of SettleNet: what the provider owes is not looked at.
SettleNetOneWay(r, pair, n, due) ==
    AcceptCredit(r, pair, n, credit)

\* settle_net: first against what the provider owes the payer, then in Cashu
\* when the balance is worth it, and on credit otherwise.
SettleNet(r, pair, n, due) ==
    LET back == Opposite(pair)
        offset == Least(n, credit[back])
        earned == MarkSettled(Earn(r, pair, offset), pair, offset)
        repaid == Plus(IF Defaults(back) THEN MarkSettled(earned, back, offset) ELSE earned,
                       "reciprocal", 2 * offset)
        held == [credit EXCEPT ![back] = @ - offset]
        rest == n - offset
        cashu == held[pair] + rest >= MinSettlement \/ held[pair] + rest >= CreditCap
    IN  \/ /\ rest = 0
           /\ report' = repaid
           /\ credit' = held
        \/ /\ rest > 0
           /\ cashu /\ ~Defaults(pair)
           /\ \E tried \in TrySettlement(repaid, pair, due) :
                \/ /\ tried.ok
                   /\ report' = MarkSettled(Earn(RecordRoute(tried.report, pair), pair, rest),
                                            pair, rest)
                   /\ credit' = [held EXCEPT ![pair] = 0]
                \/ /\ ~tried.ok
                   /\ AcceptCredit(tried.report, pair, rest, held)
        \/ /\ rest > 0
           /\ ~cashu \/ Defaults(pair)
           /\ LET asked == RecordMessages(Plus(Discover(repaid, pair), "attempts", 1), pair, 1)
              IN  AcceptCredit(IF cashu THEN asked ELSE repaid, pair, rest, held)

\* plan_accepted_mint_batch.
PlanAcceptedBatch ==
    /\ Loop("batch")
    /\ LET w == Head(todo)
       IN  SettleNet(SetOff(report, w), NetPair(w), Net(w), w.key[1])

\* plan_fixed_prepay: a fixed lease bought before any service.
PlanFixedPrepay ==
    /\ Loop("prepaid")
    /\ UNCHANGED credit
    /\ LET s == Head(todo)
           noted == RecordState(report, s.pair)
           admitted == Least(s.amount, FixedPrepay)
           Bought(r, fails) ==
               RecordRoute(Deny(RecordPrepay(r, FixedPrepay, admitted, fails),
                                s.amount - admitted), s.pair)
       IN  \/ /\ Defaults(s.pair)       \* reject_unfunded
              /\ report' = Deny(RecordMessages(noted, s.pair, 1), s.amount)
           \/ /\ ~Defaults(s.pair)
              /\ \E tried \in TrySettlement(noted, s.pair, s.first) :
                    \/ /\ ~tried.ok
                       /\ report' = Deny(tried.report, s.amount)
                    \/ /\ tried.ok
                       /\ \E fails \in MayFail(s.pair) :
                            LET bought == Bought(tried.report, fails)
                            IN  report' = IF fails THEN bought
                                          ELSE MarkSettled(Earn(bought, s.pair, admitted),
                                                           s.pair, admitted)

\* A payer who withholds every signature gets one update of service.
Withheld(r, s, refundFails) ==
    LET grace == Least(Least(s.amount, UpdateSat), Prefund)
        served == RecordUnpaid(RecordExposure(Earn(r, s.pair, grace), grace, TRUE),
                               s.pair, grace)
        opened == RecordChannelOpen(RecordRoute(Deny(served, s.amount - grace), s.pair),
                                    0, Lifetime)
    IN  RecordChannelClose(RecordMessages(opened, s.pair, 1), Prefund, refundFails)

\* A paying buyer's channel, closed by agreement or left to its expiry.
Signed(r, s, lifetime, refundFails) ==
    LET signed == Least(s.amount, Prefund)
        opened == RecordExposure(RecordChannelOpen(r, signed, lifetime),
                                 Least(signed, UpdateSat), FALSE)
        updates == (signed + UpdateSat - 1) \div UpdateSat
    IN  RecordChannelClose(RecordMessages(opened, s.pair, updates),
                           Prefund - signed, refundFails)

\* plan_spilman: capacity locked up front, paid out by signed increments.
PlanSpilman ==
    /\ Loop("spilman")
    /\ UNCHANGED credit
    /\ LET s == Head(todo)
           signed == Least(s.amount, Prefund)
           Secured(r) ==
               RecordRoute(MarkSettled(Earn(Deny(r, s.amount - signed), s.pair, signed),
                                       s.pair, signed), s.pair)
           observed == Least(Most(s.last - s.first, 1), Lifetime)
       IN  \E tried \in TrySettlement(RecordState(report, s.pair), s.pair, s.first) :
              \/ /\ ~tried.ok
                 /\ report' = Deny(tried.report, s.amount)
              \/ /\ tried.ok
                 /\ Defaults(s.pair)
                 /\ \E refundFails \in BOOLEAN :
                        report' = Withheld(tried.report, s, refundFails)
              \/ /\ tried.ok
                 /\ ~Defaults(s.pair)
                 /\ \E fails \in MayFail(s.pair), refundFails \in BOOLEAN :
                      \/ /\ fails
                         /\ report' = Signed(RecordMessages(Secured(tried.report), s.pair, 1),
                                             s, Lifetime, refundFails)
                      \/ /\ ~fails
                         /\ \E closing \in TrySettlement(Secured(tried.report), s.pair, s.last) :
                                report' = Signed(closing.report, s,
                                                 IF closing.ok THEN observed ELSE Lifetime,
                                                 ~closing.ok /\ refundFails)

\* The loop is over; credit left over is looked at pair by pair.
CarryOver ==
    /\ phase = "plan"
    /\ todo = <<>>
    /\ phase' = "carry"
    /\ UNCHANGED <<deliveredAt, remainders, obligations, usefulBytes, planVars>>

\* One pair of the last loop of plan_peer_credit and plan_accepted_mint_batch.
WriteOff ==
    LET owing == {p \in Pairs : credit[p] > 0}
        pair == CHOOSE p \in owing : \A q \in owing \ {p} :
                    Lexical(<<p.payer, p.provider>>, <<q.payer, q.provider>>)
        noted == IF strategy = "batch" THEN Plus(report, "outstanding", credit[pair])
                 ELSE report
        unpaid == RecordUnpaid(noted, pair, credit[pair])
    IN  /\ phase = "carry"
        /\ owing # {}
        /\ report' = RecordExposure(unpaid, credit[pair], Defaults(pair))
        /\ credit' = [credit EXCEPT ![pair] = 0]
        /\ UNCHANGED <<phase, deliveredAt, remainders, obligations, usefulBytes, strategy, actors,
                       todo>>

\* add_fake_claim_pressure and finish: attackers claim from the first honest node.
Finish ==
    /\ phase = "carry"
    /\ \A p \in Pairs : credit[p] = 0
    /\ phase' = "done"
    /\ LET honest == Nodes \ actors.attackers
           attackers == IF honest = {} THEN {} ELSE actors.attackers
           claims == Claims * Cardinality(attackers)
           target == CHOOSE n \in honest : \A m \in honest : n <= m
       IN  report' =
             [report EXCEPT !.claimed = claims,
                            !.messages = @ + claims,
                            !.traffic = [n \in Nodes |->
                                CASE n \in attackers -> @[n] + Claims
                                  [] claims > 0 /\ n \notin attackers /\ n = target -> @[n] + claims
                                  [] OTHER -> @[n]]]
    /\ UNCHANGED <<deliveredAt, remainders, obligations, usefulBytes, strategy, actors, todo, credit>>

IncentiveNext ==
    \/ \E pair \in Pairs, bytes \in PayloadSizes, at \in 0..LastDelivery :
            Price(pair, bytes, at)
    \/ \E s \in Strategies : \E a \in Actors(s) : Start(s, a)
    \/ PlanDirect
    \/ PlanPeerCredit
    \/ PlanAcceptedBatch
    \/ PlanFixedPrepay
    \/ PlanSpilman
    \/ CarryOver
    \/ WriteOff
    \/ Finish

-----------------------------------------------------------------------------
(* Properties                                                              *)

SumOver(f, pairs) == MapThenSumSet(LAMBDA p : f[p], pairs)

\* What honest providers earned and have not been paid: the debts on the books
\* and the credit still carried.  In the accepted-mint batch, accepted credit of
\* a payer who will pay counts as settled, so only defaulters owe.
Owed ==
    LET pairs == {p \in Pairs : /\ Honest(p.provider)
                                /\ strategy = "batch" => Defaults(p)}
    IN  SumOver(report.unpaidOf, pairs) + SumOver(credit, pairs)

\* Each sat an honest provider earned has been settled or is still owed to it
\* by a known pair, setoffs and carried credit included; prepayments and channel
\* capacity are used, returned or lost (prepaid_value_is_conserved,
\* channel_value_is_conserved); what defaulters owe is what providers lost.
EarnedOrOwed ==
    /\ report.earned = report.settled + Owed
    /\ report.unpaid = SumOver(report.unpaidOf, Pairs)
    /\ report.paid = report.used + report.unusedCredit + report.buyerLoss
    /\ report.capacity = report.signed + report.unusedCapacity
    /\ report.unusedCapacity = report.refunded + report.refundLoss
    /\ phase = "done" => report.loss = report.defaulted

\* When the plan is done and no seller is an attacker, every useful byte is dust
\* or part of a sat that was earned, refused, or bought from a failing seller.
NothingVanishes ==
    phase = "done" /\ actors.attackers = {} =>
        /\ usefulBytes = BytesPerSat * report.useful + SumOver(remainders, Pairs)
        /\ report.earned + report.denied <= report.useful
        /\ report.buyerLoss = 0 => report.earned + report.denied = report.useful

\* Unsecured debt of one pair never exceeds offline_credit_cap_sat, and the
\* accepted-mint batch never lets two nodes owe each other at once.
CreditCapped ==
    /\ \A p \in Pairs : credit[p] <= CreditCap
    /\ strategy \in {"credit", "batch"} => report.maxUnpaid <= CreditCap
    /\ strategy = "batch" => \A p \in Pairs : credit[p] = 0 \/ credit[Opposite(p)] = 0

\* The books of every strategy balance after every obligation, batch and stream.
BooksBalance == EarnedOrOwed /\ NothingVanishes /\ CreditCapped
=============================================================================
