----------------------------- MODULE RelayLive -----------------------------
(***************************************************************************)
(* A live subscription of RelayEventBus                                    *)
(* (crates/nostr-pubsub-relay/src/lib.rs, subscribe_with_admission) and    *)
(* the relays at its other end.  The SDK hands the task notifications      *)
(* through one broadcast channel of bounded size, which overwrites the     *)
(* oldest and then reports Lagged.  Relays and the SDK are external: a     *)
(* REQ makes a relay send what it retains, and every new event after it.   *)
(* Times are relative: replay.due is what is left until the replay, quiet  *)
(* the time since the last gap.                                            *)
(***************************************************************************)
EXTENDS Integers, SequencesExt, FiniteSets

CONSTANTS
    Relays, LiveFilters, Posts,   \* every filter matches every post
    ChannelCap,                   \* size of the notification channel
    MinDelay, MaxDelay,           \* LiveReplay::MIN_DELAY, MAX_DELAY
    MaxGaps                       \* bound: rejections, overruns and failed set-ups

VARIABLES
    retained,   \* relay -> posts it holds
    installed,  \* relay -> filters it serves
    sending,    \* relay -> posts on their way to the channel, oldest first
    channel,    \* [items, lagged]
    task,       \* the notifications task
    replay,     \* LiveReplay
    owner,      \* the RelayLiveSubscription
    handled,    \* history: posts the handler accepted
    gaps

relayVars == <<retained, installed, sending, channel, task, replay, owner, handled, gaps>>

NoFilter == "none"
Never == MaxDelay + 1      \* no replay is due
Quiet == 2 * MaxDelay
Calm == [due |-> Never, quiet |-> Quiet, delay |-> MinDelay]
Least(a, b) == IF a < b THEN a ELSE b

RelayInit ==
    /\ retained = [r \in Relays |-> {}]
    /\ installed = [r \in Relays |-> {}]
    /\ sending = [r \in Relays |-> <<>>]
    /\ channel = [items |-> <<>>, lagged |-> FALSE]
    /\ task = [phase |-> "none", left |-> LiveFilters, cleared |-> NoFilter, restored |-> TRUE]
    /\ replay = Calm
    /\ owner = "subscribing"
    /\ handled = {}
    /\ gaps = 0

Gap == gaps < MaxGaps /\ gaps' = gaps + 1

-----------------------------------------------------------------------------
(* The relays and the SDK.                                                 *)

NewPost(r, e) ==
    /\ e \notin retained[r]
    /\ retained' = [retained EXCEPT ![r] = @ \cup {e}]
    /\ sending' = IF installed[r] = {} THEN sending ELSE [sending EXCEPT ![r] = Append(@, e)]
    /\ UNCHANGED <<installed, channel, task, replay, owner, handled, gaps>>

\* A REQ: what the relay retains follows, in any order.
Resent(rs) ==
    \E order \in [rs -> {SetToSeq(P) : P \in SUBSET Posts}] :
        /\ \A r \in rs : ToSet(order[r]) = retained[r]
        /\ sending' = [r \in Relays |-> IF r \in rs THEN sending[r] \o order[r] ELSE sending[r]]

\* A post reaches the channel.  The channel never waits for its reader; that
\* it overruns only so often is an assumption.
Notify(r) ==
    /\ sending[r] # <<>>
    /\ LET items == Append(channel.items, Head(sending[r])) IN
           IF Len(items) <= ChannelCap
           THEN channel' = [channel EXCEPT !.items = items] /\ UNCHANGED gaps
           ELSE channel' = [items |-> Tail(items), lagged |-> TRUE] /\ Gap
    /\ sending' = [sending EXCEPT ![r] = Tail(@)]
    /\ UNCHANGED <<retained, installed, task, replay, owner, handled>>

-----------------------------------------------------------------------------
(* subscribe_with_admission: one REQ for each filter; some relay must take *)
(* it.  What fails undoes what was installed.                              *)

SubscribeLive(f, rs) ==
    /\ owner = "subscribing" /\ f \in task.left
    /\ IF rs # {}
       THEN /\ installed' = [r \in Relays |-> IF r \in rs THEN installed[r] \cup {f} ELSE installed[r]]
            /\ Resent(rs)
            /\ task' = [task EXCEPT !.left = @ \ {f},
                                    !.phase = IF task.left = {f} THEN "listening" ELSE "none"]
            /\ owner' = IF task.left = {f} THEN "open" ELSE owner
       ELSE /\ installed' = [r \in Relays |-> {}]
            /\ owner' = "failed"
            /\ UNCHANGED <<sending, task>>
    /\ UNCHANGED <<retained, channel, replay, handled, gaps>>

\* LiveReplay::gap: one replay is pending at most.
GapSeen(rp) ==
    LET delay == IF rp.quiet >= Quiet THEN MinDelay ELSE rp.delay IN
    [due |-> IF rp.due = Never THEN delay ELSE rp.due, quiet |-> 0, delay |-> delay]

\* Mutant: a failed replay is not tried again.
AttemptedOnce(rp, restored) ==
    [rp EXCEPT !.delay = Least(2 * @, MaxDelay), !.due = Never]

\* LiveReplay::attempted
Attempted(rp, restored) ==
    LET delay == Least(2 * rp.delay, MaxDelay) IN
    [rp EXCEPT !.delay = delay, !.due = IF restored THEN Never ELSE delay]

Listening == task.phase = "listening"

\* A post for the handler, which accepts it or, full for now, refuses it.
Receive(accepts) ==
    /\ Listening /\ ~ channel.lagged /\ channel.items # <<>>
    /\ channel' = [channel EXCEPT !.items = Tail(@)]
    /\ IF accepts
       THEN handled' = handled \cup {Head(channel.items)} /\ UNCHANGED <<replay, gaps>>
       ELSE replay' = GapSeen(replay) /\ Gap /\ UNCHANGED handled
    /\ UNCHANGED <<retained, installed, sending, task, owner>>

Lagged ==
    /\ Listening /\ channel.lagged
    /\ channel' = [channel EXCEPT !.lagged = FALSE]
    /\ replay' = GapSeen(replay)
    /\ UNCHANGED <<retained, installed, sending, task, owner, handled, gaps>>

Tick ==
    /\ replay.due \in 1 .. MaxDelay \/ replay.quiet < Quiet
    /\ replay' = [replay EXCEPT !.due = IF @ \in 1 .. MaxDelay THEN @ - 1 ELSE @,
                                !.quiet = Least(@ + 1, Quiet)]
    /\ UNCHANGED <<retained, installed, sending, channel, task, owner, handled, gaps>>

StartReplay ==
    /\ Listening /\ replay.due = 0
    /\ task' = [phase |-> "replaying", left |-> LiveFilters, cleared |-> NoFilter, restored |-> TRUE]
    /\ UNCHANGED <<retained, installed, sending, channel, replay, owner, handled, gaps>>

\* replay_live_subscriptions, filter by filter: CLOSE, then REQ; an attempt
\* that runs out of time may leave the filter closed.
Unsubscribe(f) ==
    /\ task.phase = "replaying" /\ f \in task.left /\ task.cleared = NoFilter
    /\ installed' = [r \in Relays |-> installed[r] \ {f}]
    /\ task' = [task EXCEPT !.cleared = f]
    /\ UNCHANGED <<retained, sending, channel, replay, owner, handled, gaps>>

Resubscribe(f, rs) ==
    /\ task.phase = "replaying" /\ task.cleared = f
    /\ IF rs = Relays THEN UNCHANGED gaps ELSE Gap
    /\ installed' = [r \in Relays |-> IF r \in rs THEN installed[r] \cup {f} ELSE installed[r]]
    /\ Resent(rs)
    /\ task' = [task EXCEPT !.left = @ \ {f}, !.cleared = NoFilter, !.restored = @ /\ rs = Relays]
    /\ UNCHANGED <<retained, channel, replay, owner, handled>>

EndReplay ==
    /\ task.phase = "replaying" /\ task.left = {}
    /\ replay' = Attempted(replay, task.restored)
    /\ task' = [task EXCEPT !.phase = "listening"]
    /\ UNCHANGED <<retained, installed, sending, channel, owner, handled, gaps>>

-----------------------------------------------------------------------------
(* RelayLiveSubscription: close and drop.                                  *)

\* An aborted task ends at its next await; what it is doing, it still does.
AbortTask(how) ==
    /\ owner = "open"
    /\ owner' = how
    /\ UNCHANGED <<retained, installed, sending, channel, task, replay, handled, gaps>>

TaskEnds ==
    /\ owner \in {"closing", "dropped", "closed"} /\ task.phase \in {"listening", "replaying"}
    /\ task' = [task EXCEPT !.phase = "ended"]
    /\ UNCHANGED <<retained, installed, sending, channel, replay, owner, handled, gaps>>

\* Mutant: close does not wait for the task.
MayUnsubscribeAtOnce == TRUE

\* close waits for the task before it unsubscribes.
MayUnsubscribe == task.phase = "ended"

FinishClose ==
    /\ owner = "closing" /\ MayUnsubscribe
    /\ installed' = [r \in Relays |-> {}]
    /\ owner' = "closed"
    /\ UNCHANGED <<retained, sending, channel, task, replay, handled, gaps>>

TaskStep ==
    \/ \E accepts \in BOOLEAN : Receive(accepts)
    \/ Lagged \/ StartReplay \/ EndReplay
    \/ \E f \in LiveFilters : Unsubscribe(f) \/ \E rs \in SUBSET Relays : Resubscribe(f, rs)

RelayNext ==
    \/ \E r \in Relays : Notify(r) \/ \E e \in Posts : NewPost(r, e)
    \/ \E f \in LiveFilters, rs \in SUBSET Relays : SubscribeLive(f, rs)
    \/ TaskStep \/ Tick
    \/ \E how \in {"closing", "dropped"} : AbortTask(how)
    \/ TaskEnds \/ FinishClose

-----------------------------------------------------------------------------
\* Once close has returned no relay serves the subscription, although a
\* replay may have been under way when it was called.
ClosedIsFinal == owner = "closed" => \A r \in Relays : installed[r] = {}

Served(r) == owner = "open" /\ installed[r] = LiveFilters

\* A post that a relay retains reaches the handler in spite of refusals,
\* overruns and failed replays, while the subscription stays open, if it
\* found the relay serving every filter (subscribe_with_admission, LiveReplay).
GapsRepaired ==
    \A r \in Relays, e \in Posts :
        Served(r) /\ e \in retained[r] ~> e \in handled \/ owner # "open"
=============================================================================
