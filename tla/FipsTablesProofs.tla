-------------------------- MODULE FipsTablesProofs --------------------------
(***************************************************************************)
(* Proofs about the life of a FIPS client (ClientLifecycle) and about its  *)
(* pending wants (PendingWants), as MCFipsTables puts them side by side.   *)
(***************************************************************************)
EXTENDS MCFipsTables, FilterProofs, TLAPS

-----------------------------------------------------------------------------
(* Shutdown *)

LifecycleTypes ==
    /\ open \in BOOLEAN
    /\ task \in [Tasks -> {"running", "aborted", "done"}]
    /\ slot \subseteq Tasks
    /\ caller \in [Callers -> {"out", "waiting", "joining", "returned", "cancelled"}]

\* A handle leaves its slot only when its task has ended, and a call returns
\* only when every slot is empty: so what a cancelled caller left unjoined is
\* still there for the next one.
Joined ==
    /\ \A t \in Tasks \ slot : task[t] = "done"
    /\ \A c \in Callers : caller[c] = "returned" => slot = {}

Detached == ~open => store = NoStore

LifecycleInv == LifecycleTypes /\ Joined /\ Detached

\* A client starts with the tasks whose handles it keeps.
LEMMA LifecycleInitially == LifecycleInit => LifecycleInv
BY DEF LifecycleInit, LifecycleInv, LifecycleTypes, Joined, Detached, Tasks

\* No call, no cancelled call and no task that ends breaks the invariant.
LEMMA LifecycleInductive == LifecycleInv /\ [LifecycleNext]_lifecycleVars => LifecycleInv'
<1> SUFFICES ASSUME LifecycleInv, [LifecycleNext]_lifecycleVars PROVE LifecycleInv'
  OBVIOUS
<1> USE DEF LifecycleInv, LifecycleTypes, Joined, Detached
<1>1. ASSUME NEW st \in Announcements, SetStore(st) PROVE LifecycleInv'
  BY <1>1 DEF SetStore, Stopping
<1>2. CASE Attach
  BY <1>2 DEF Attach, Stopping
<1>3. CASE Detach
  BY <1>3 DEF Detach, Stopping
<1>4. CASE RetainLocal \/ LocalRetained
  BY <1>4 DEF RetainLocal, LocalRetained, Stopping
<1>5. CASE Announcement \/ AnnouncementRetained
  BY <1>5 DEF Announcement, AnnouncementRetained, Stopping
<1>6. CASE DropClient
  BY <1>6 DEF DropClient, Aborted
<1>7. ASSUME NEW c \in Callers, Shutdown(c) PROVE LifecycleInv'
  BY <1>7 DEF Shutdown
<1>8. ASSUME NEW c \in Callers, Lock(c) PROVE LifecycleInv'
  BY <1>8 DEF Lock, Aborted, Setting
<1>9. ASSUME NEW c \in Callers, JoinTask(c) PROVE LifecycleInv'
  BY <1>9 DEF JoinTask, Setting
<1>10. ASSUME NEW c \in Callers, Returns(c) PROVE LifecycleInv'
  BY <1>10 DEF Returns, Setting
<1>11. ASSUME NEW c \in Callers, Cancel(c) PROVE LifecycleInv'
  BY <1>11 DEF Cancel, Setting
<1>12. ASSUME NEW t \in Tasks, Ends(t) PROVE LifecycleInv'
  BY <1>12 DEF Ends
<1>13. CASE UNCHANGED lifecycleVars
  BY <1>13 DEF lifecycleVars
<1> QED
  BY <1>1, <1>2, <1>3, <1>4, <1>5, <1>6, <1>7, <1>8, <1>9, <1>10, <1>11, <1>12, <1>13
  DEF LifecycleNext

\* Once a call of shutdown_shared has returned no task of the client runs, and
\* a closed client has no store attached, whoever else was shutting it down,
\* was cancelled at it or was attaching a store (shutdown_shared, close_all,
\* set_peer_announcement_store).
THEOREM ShutdownJoinsTasks == MCSpec => []ShutdownJoins
<1>1. MCInit => LifecycleInv
  BY LifecycleInitially DEF MCInit
<1>2. LifecycleInv /\ [MCNext]_allVars => LifecycleInv'
  BY LifecycleInductive DEF MCNext, allVars
<1>3. LifecycleInv => ShutdownJoins
  BY DEF LifecycleInv, LifecycleTypes, Joined, Detached, ShutdownJoins
<1> QED
  BY <1>1, <1>2, <1>3, PTL DEF MCSpec

-----------------------------------------------------------------------------
(* Entries of the table of pending wants *)

ProviderSet == [peer : Peers, subs : SUBSET Subscriptions, requested : BOOLEAN]
EntrySet ==
    [selected : ProviderSet, alternatives : Seq(ProviderSet), claim : Claims,
     age : Int, retries : Nat]

\* No peer is named twice.
OncePerPeer(entry) ==
    /\ \A i \in 1..Len(entry.alternatives) : entry.alternatives[i].peer # entry.selected.peer
    /\ \A i, j \in 1..Len(entry.alternatives) :
            entry.alternatives[i].peer = entry.alternatives[j].peer => i = j

Bounded(entry) == Len(entry.alternatives) <= MaxAlternatives /\ entry.retries <= MaxWantRetries
Reachable(entry) == \A provider \in Providers(entry) : provider.subs # {}

Sound(entry) == entry \in EntrySet /\ OncePerPeer(entry) /\ Bounded(entry) /\ Reachable(entry)

\* A request of `entry` stands in `after` unless its provider is gone.
Stands(entry, after) ==
    \A q \in Providers(entry), r \in Providers(after) :
        q.requested /\ r.peer = q.peer => r.requested

\* The requests of `after` are requests of `entry`, or of a peer in `more`.
NoMore(entry, after, more) ==
    \A r \in Providers(after) : r.requested =>
        r.peer \in more \/ \E q \in Providers(entry) : q.requested /\ q.peer = r.peer

\* What every change of an entry other than a retry does.
Follows(entry, after) ==
    /\ Sound(after) /\ Stands(entry, after) /\ NoMore(entry, after, {})
    /\ after.age \in {0, entry.age}

\* The providers of `after` are providers of `entry`, with their requests.
Drawn(entry, after) ==
    \A r \in Providers(after) : \E q \in Providers(entry) :
        r.peer = q.peer /\ r.requested = q.requested

\* A sound entry is one the table holds: NoEntry's provider has no subscription.
LEMMA SoundIsHeld == ASSUME NEW entry, Sound(entry) PROVE entry # NoEntry
BY DEF Sound, Reachable, Providers, NoEntry, Provider

\* The providers of an entry have their type.
LEMMA ProvidersTyped == ASSUME NEW entry \in EntrySet PROVE Providers(entry) \subseteq ProviderSet
BY DEF Providers, ToSet, EntrySet

\* A peer names at most one provider.
LEMMA PeersIdentify ==
    ASSUME NEW entry \in EntrySet, OncePerPeer(entry)
    PROVE  \A q, r \in Providers(entry) : q.peer = r.peer => q = r
BY DEF OncePerPeer, Providers, ToSet, EntrySet

\* Requests that are only carried over stand, and there are no others.
LEMMA DrawnStands ==
    ASSUME NEW entry, Sound(entry), NEW after, Drawn(entry, after)
    PROVE  Stands(entry, after) /\ NoMore(entry, after, {})
BY PeersIdentify DEF Sound, Drawn, Stands, NoMore

\* Merging subscriptions (merge_subscription_ids) changes nothing else.
LEMMA MergeSound ==
    ASSUME NEW entry, Sound(entry), NEW p \in Peers, NEW subs \in SUBSET Subscriptions
    PROVE  Follows(entry, Merge(entry, p, subs))
<1> DEFINE after == Merge(entry, p, subs)
<1>1. entry \in EntrySet
  BY DEF Sound
<1>2. \A q \in ProviderSet :
        /\ Merged(q, p, subs) \in ProviderSet
        /\ Merged(q, p, subs).peer = q.peer /\ Merged(q, p, subs).requested = q.requested
        /\ q.subs # {} => Merged(q, p, subs).subs # {}
  BY DEF Merged, ProviderSet
<1>3. /\ after.selected = Merged(entry.selected, p, subs)
      /\ after.alternatives \in Seq(ProviderSet)
      /\ Len(after.alternatives) = Len(entry.alternatives)
      /\ \A i \in 1..Len(entry.alternatives) :
            after.alternatives[i] = Merged(entry.alternatives[i], p, subs)
      /\ after.claim = entry.claim /\ after.age = entry.age /\ after.retries = entry.retries
      /\ after \in EntrySet
  <2> DEFINE alternatives == [i \in DOMAIN entry.alternatives |-> Merged(entry.alternatives[i], p, subs)]
  <2>1. entry.alternatives \in Seq(ProviderSet)
    BY <1>1 DEF EntrySet
  <2>2. /\ alternatives \in Seq(ProviderSet) /\ Len(alternatives) = Len(entry.alternatives)
        /\ \A i \in 1..Len(entry.alternatives) :
              alternatives[i] = Merged(entry.alternatives[i], p, subs)
    BY <1>2, <2>1
  <2>3. after = [entry EXCEPT !.selected = Merged(entry.selected, p, subs), !.alternatives = alternatives]
    BY DEF Merge
  <2> HIDE DEF after, alternatives
  <2> QED
    BY <1>1, <1>2, <2>2, <2>3 DEF EntrySet
<1> HIDE DEF after
<1>4. OncePerPeer(after) /\ Bounded(after)
  BY <1>1, <1>2, <1>3 DEF Sound, OncePerPeer, Bounded, EntrySet
<1>5. \A r \in Providers(after) : \E q \in Providers(entry) :
        q \in ProviderSet /\ r.peer = q.peer /\ r.requested = q.requested
        /\ (q.subs # {} => r.subs # {})
  BY <1>1, <1>2, <1>3 DEF Providers, ToSet, EntrySet
<1>6. Reachable(after) /\ Drawn(entry, after)
  BY <1>5 DEF Sound, Reachable, Drawn
<1> QED
  BY <1>3, <1>4, <1>6, DrawnStands DEF Sound, Follows, after

\* A further inventory is ignored, merged, or adds a provider that was not
\* asked (insert).
LEMMA JoinSound ==
    ASSUME NEW entry, Sound(entry), NEW p \in Peers, NEW claim,
           NEW subs \in SUBSET Subscriptions, subs # {}
    PROVE  Follows(entry, Join(entry, p, subs, claim))
<1> DEFINE new == Provider(p, subs, FALSE)
           after == [entry EXCEPT !.alternatives = Append(entry.alternatives, new)]
           known == \E provider \in Providers(entry) : provider.peer = p
<1>1. Follows(entry, entry)
  BY DrawnStands DEF Drawn, Follows
<1>2. ASSUME Len(entry.alternatives) < MaxAlternatives, ~known PROVE Follows(entry, after)
  <2>1. entry \in EntrySet /\ entry.alternatives \in Seq(ProviderSet)
    BY DEF Sound, EntrySet
  <2>2. new \in ProviderSet /\ new.peer = p /\ new.subs # {} /\ ~new.requested
    BY DEF Provider, ProviderSet
  <2> HIDE DEF new
  <2>3. /\ after \in EntrySet /\ after.selected = entry.selected /\ after.age = entry.age
        /\ after.retries = entry.retries /\ after.alternatives = Append(entry.alternatives, new)
    BY <2>1, <2>2 DEF EntrySet
  <2> HIDE DEF after
  <2>4. /\ Len(after.alternatives) = Len(entry.alternatives) + 1
        /\ after.alternatives[Len(entry.alternatives) + 1] = new
        /\ \A i \in 1..Len(entry.alternatives) : after.alternatives[i] = entry.alternatives[i]
    BY <2>1, <2>2, <2>3
  <2>5. \A i \in 1..Len(after.alternatives) :
            i = Len(entry.alternatives) + 1 \/ i \in 1..Len(entry.alternatives)
    BY <2>1, <2>4
  <2>6. \A i \in 1..Len(entry.alternatives) : entry.alternatives[i] \in Providers(entry)
    BY <2>1 DEF Providers, ToSet
  <2>7. OncePerPeer(after)
    BY <1>2, <2>2, <2>3, <2>4, <2>5, <2>6 DEF Sound, OncePerPeer, Providers
  <2>8. Providers(after) = Providers(entry) \cup {new}
    BY <2>1, <2>3, <2>4, <2>5, <2>6 DEF Providers, ToSet, EntrySet
  <2>9. Bounded(after) /\ Reachable(after)
    BY <1>2, <2>1, <2>2, <2>3, <2>4, <2>8, WantsAssumption DEF Sound, Bounded, Reachable
  <2>10. Stands(entry, after) /\ NoMore(entry, after, {})
    BY <1>1, <1>2, <2>2, <2>8 DEF Follows, Stands, NoMore
  <2> QED
    BY <2>3, <2>7, <2>9, <2>10 DEF Sound, Follows
<1> HIDE DEF after
<1>3. \/ Join(entry, p, subs, claim) = entry
      \/ Join(entry, p, subs, claim) = Merge(entry, p, subs)
      \/ Join(entry, p, subs, claim) = after /\ Len(entry.alternatives) < MaxAlternatives /\ ~known
  BY DEF Join, after
<1> QED
  BY <1>1, <1>2, <1>3, MergeSound

\* What an entry is without Reachable, which fails until a provider without
\* subscriptions is replaced.
Shaped(entry) == entry \in EntrySet /\ OncePerPeer(entry) /\ Bounded(entry)

With(entry, q, others) == [entry EXCEPT !.selected = q, !.alternatives = others]

\* Other providers in an entry leave the rest of it alone.
LEMMA WithProviders ==
    ASSUME NEW entry \in EntrySet, NEW q \in ProviderSet, NEW others \in Seq(ProviderSet)
    PROVE  /\ With(entry, q, others) \in EntrySet
           /\ With(entry, q, others).selected = q /\ With(entry, q, others).alternatives = others
           /\ With(entry, q, others).age = entry.age
           /\ With(entry, q, others).retries = entry.retries
BY DEF EntrySet, With

Stamped(entry, age, retries) == [entry EXCEPT !.age = age, !.retries = retries]

\* A new clock leaves the providers alone.
LEMMA WithClock ==
    ASSUME NEW entry \in EntrySet, NEW age \in Int, NEW retries \in Nat
    PROVE  /\ Stamped(entry, age, retries) \in EntrySet
           /\ Stamped(entry, age, retries).selected = entry.selected
           /\ Stamped(entry, age, retries).alternatives = entry.alternatives
           /\ Stamped(entry, age, retries).age = age /\ Stamped(entry, age, retries).retries = retries
BY DEF EntrySet, Stamped

\* No two providers of a sequence are the same peer.
Apart(s) == \A i, j \in 1..Len(s) : s[i].peer = s[j].peer => i = j

\* retain on the alternatives keeps peers apart.
LEMMA RetainedPeers ==
    ASSUME NEW s \in Seq(ProviderSet), NEW S, Apart(s)
    PROVE  /\ Only(s, S) \in Seq(ProviderSet) /\ Len(Only(s, S)) <= Len(s)
           /\ ToSet(Only(s, S)) = ToSet(s) \cap S
           /\ Apart(Only(s, S))
<1> DEFINE kept == Only(s, S)
<1>1. PICK h : Places(h, kept, s, S, Len(s))
  BY OnlyPlaces
<1>2. kept \in Seq(ProviderSet) /\ Len(kept) <= Len(s) /\ ToSet(kept) = ToSet(s) \cap S
  BY OnlyRetains
<1> HIDE DEF kept
<1>3. ASSUME NEW i \in 1..Len(kept), NEW j \in 1..Len(kept), kept[i].peer = kept[j].peer
      PROVE  i = j
  <2>1. h[i] \in 1..Len(s) /\ h[j] \in 1..Len(s) /\ kept[i] = s[h[i]] /\ kept[j] = s[h[j]]
    BY <1>1 DEF Places
  <2>2. h[i] = h[j]
    BY <1>3, <2>1 DEF Apart
  <2>3. ~(i < j) /\ ~(j < i)
    BY <1>1, <2>1, <2>2 DEF Places
  <2> QED
    BY <1>2, <2>3
<1> QED
  BY <1>2, <1>3 DEF kept, Apart

\* The oldest alternative takes the place of the selected provider.
LEMMA PromoteShaped ==
    ASSUME NEW entry, Shaped(entry), entry.alternatives # <<>>
    PROVE  LET after == Promote(entry) IN
           /\ Shaped(after) /\ Providers(after) = ToSet(entry.alternatives)
           /\ after.age = entry.age /\ after.retries = entry.retries
           /\ after.selected = Head(entry.alternatives) /\ after.alternatives = Tail(entry.alternatives)
<1> DEFINE s == entry.alternatives
           after == Promote(entry)
<1>1. entry \in EntrySet /\ s \in Seq(ProviderSet) /\ s # <<>>
  BY DEF Shaped, EntrySet
<1>2. /\ \A i, j \in 1..Len(s) : s[i].peer = s[j].peer => i = j
      /\ Len(s) <= MaxAlternatives /\ entry.retries <= MaxWantRetries
  BY DEF Shaped, OncePerPeer, Bounded
<1> DEFINE first == Head(s)
           rest == Tail(s)
<1>3. /\ first \in ProviderSet /\ rest \in Seq(ProviderSet) /\ first = s[1]
      /\ Len(rest) = Len(s) - 1 /\ \A i \in 1..Len(rest) : rest[i] = s[i + 1]
  BY <1>1
<1>8. after = With(entry, first, rest)
  BY DEF Promote, With
<1> HIDE DEF s, after, first, rest
<1>4. /\ after \in EntrySet /\ after.selected = first /\ after.alternatives = rest
      /\ after.age = entry.age /\ after.retries = entry.retries
  BY <1>1, <1>3, <1>8, WithProviders
<1>5. OncePerPeer(after)
  <2>1. \A i \in 1..Len(rest) : i + 1 \in 1..Len(s) /\ i + 1 # 1 /\ 1 \in 1..Len(s)
    BY <1>1, <1>3
  <2> QED
    BY <1>1, <1>2, <1>3, <1>4, <2>1 DEF OncePerPeer
<1>6. Bounded(after)
  BY <1>1, <1>2, <1>3, <1>4, WantsAssumption DEF Bounded
<1>7. Providers(after) = ToSet(s)
  <2>1. ToSet(s) \subseteq Providers(after)
    <3> SUFFICES ASSUME NEW i \in 1..Len(s) PROVE s[i] \in Providers(after)
      BY <1>1 DEF ToSet
    <3>1. CASE i = 1
      BY <1>3, <1>4, <3>1 DEF Providers
    <3>2. CASE i # 1
      <4>1. i - 1 \in 1..Len(rest) /\ rest[i - 1] = s[(i - 1) + 1] /\ (i - 1) + 1 = i
        BY <1>1, <1>3, <3>2
      <4>2. s[i] \in ToSet(rest)
        BY <1>3, <4>1 DEF ToSet
      <4> QED
        BY <1>4, <4>2 DEF Providers
    <3> QED
      BY <3>1, <3>2
  <2>2. Providers(after) \subseteq ToSet(s)
    BY <1>1, <1>3, <1>4 DEF Providers, ToSet
  <2> QED
    BY <2>1, <2>2
<1> QED
  BY <1>4, <1>5, <1>6, <1>7 DEF Shaped, s, after, first, rest

\* A subscription ends: whoever had only that one is gone, and the entry stays
\* if somebody is left (remove_subscription).
LEMMA UnsubscribedSound ==
    ASSUME NEW entry, Sound(entry), NEW sub, Unsubscribed(entry, sub).selected.subs # {}
    PROVE  Follows(entry, Unsubscribed(entry, sub))
<1> DEFINE s == entry.alternatives
           gone == [i \in DOMAIN s |-> Leaving(s[i], sub)]
           S == {provider \in ToSet(gone) : provider.subs # {}}
           others == Only(gone, S)
           q == Leaving(entry.selected, sub)
           left == With(entry, q, others)
           after == IF left.selected.subs = {} /\ left.alternatives # <<>> THEN Promote(left) ELSE left
<1>1. entry \in EntrySet /\ s \in Seq(ProviderSet) /\ entry.selected \in ProviderSet
  BY DEF Sound, EntrySet
<1>2. \A r \in ProviderSet : /\ Leaving(r, sub) \in ProviderSet /\ Leaving(r, sub).peer = r.peer
                             /\ Leaving(r, sub).requested = r.requested
  BY DEF ProviderSet, Leaving
<1>3. /\ \A i, j \in 1..Len(s) : s[i].peer = s[j].peer => i = j
      /\ \A i \in 1..Len(s) : s[i].peer # entry.selected.peer
      /\ Len(s) <= MaxAlternatives /\ entry.retries <= MaxWantRetries
  BY DEF Sound, OncePerPeer, Bounded
<1>4. after = Unsubscribed(entry, sub)
  BY DEF Unsubscribed, With, Subscribed
<1> HIDE DEF after
<1>5. gone \in Seq(ProviderSet) /\ Len(gone) = Len(s) /\ \A i \in 1..Len(s) : gone[i] = Leaving(s[i], sub)
  BY <1>1, <1>2
<1> HIDE DEF s, gone
<1>6. \A i, j \in 1..Len(gone) : gone[i].peer = gone[j].peer => i = j
  BY <1>1, <1>2, <1>3, <1>5
<1>8. \A r \in S : r.subs # {} /\ \E i \in 1..Len(s) : r = Leaving(s[i], sub)
  BY <1>5 DEF ToSet
<1>17. S \subseteq ToSet(gone)
  OBVIOUS
<1> HIDE DEF S, others, q, left
<1>7. /\ others \in Seq(ProviderSet) /\ Len(others) <= Len(gone) /\ ToSet(others) = S
      /\ \A i, j \in 1..Len(others) : others[i].peer = others[j].peer => i = j
  <2>1. Apart(gone)
    BY <1>6 DEF Apart
  <2>2. /\ others \in Seq(ProviderSet) /\ Len(others) <= Len(gone)
        /\ ToSet(others) = ToSet(gone) \cap S /\ Apart(others)
    BY <1>5, <2>1, RetainedPeers DEF others
  <2> QED
    BY <1>17, <2>2 DEF Apart
<1>9. /\ left \in EntrySet /\ left.selected = q /\ left.alternatives = others
      /\ left.age = entry.age /\ left.retries = entry.retries
  BY <1>1, <1>2, <1>7, WithProviders DEF left, q
<1>10. \A i \in 1..Len(others) : others[i] \in S
  BY <1>7 DEF ToSet
<1>11. OncePerPeer(left)
  BY <1>1, <1>2, <1>3, <1>7, <1>8, <1>9, <1>10 DEF OncePerPeer, q
<1>12. Shaped(left)
  BY <1>1, <1>3, <1>5, <1>7, <1>9, <1>11, WantsAssumption DEF Shaped, Bounded
<1>13. \A r \in {q} \cup S : \E x \in Providers(entry) : r.peer = x.peer /\ r.requested = x.requested
  BY <1>1, <1>2, <1>8 DEF Providers, ToSet, q, s
<1>14. Providers(left) = {q} \cup S
  BY <1>7, <1>9 DEF Providers
<1>15. CASE q.subs = {} /\ others # <<>>
  <2>1. after = Promote(left)
    BY <1>9, <1>15 DEF after
  <2>2. Shaped(after) /\ Providers(after) = S /\ after.age = entry.age
    BY <1>7, <1>9, <1>12, <1>15, <2>1, PromoteShaped
  <2>3. Reachable(after) /\ Drawn(entry, after)
    BY <1>8, <1>13, <2>2 DEF Reachable, Drawn
  <2> QED
    BY <1>4, <2>2, <2>3, DrawnStands DEF Follows, Sound, Shaped
<1>16. CASE ~(q.subs = {} /\ others # <<>>)
  <2>1. after = left
    BY <1>9, <1>16 DEF after
  <2>2. q.subs # {}
    BY <1>4, <1>9, <2>1
  <2>3. Reachable(after) /\ Drawn(entry, after)
    BY <1>8, <1>13, <1>14, <2>1, <2>2 DEF Reachable, Drawn
  <2> QED
    BY <1>4, <1>9, <1>12, <2>1, <2>3, DrawnStands DEF Follows, Sound, Shaped
<1> QED
  BY <1>15, <1>16

\* A peer leaves: the oldest alternative replaces it if it was selected, with
\* its retries and its clock reset (remove_peer).
LEMMA LeftBySound ==
    ASSUME NEW entry, Sound(entry), NEW p, LeftBy(entry, p).selected.peer # p
    PROVE  /\ Follows(entry, LeftBy(entry, p))
           /\ \A r \in Providers(LeftBy(entry, p)) : r.peer # p
<1> DEFINE s == entry.alternatives
           S == {provider \in ToSet(s) : provider.peer # p}
           others == Only(s, S)
           left == With(entry, entry.selected, others)
           reset == [Promote(left) EXCEPT !.age = 0, !.retries = 0]
           after == IF left.selected.peer = p /\ left.alternatives # <<>> THEN reset ELSE left
<1>1. entry \in EntrySet /\ s \in Seq(ProviderSet) /\ entry.selected \in ProviderSet
  BY DEF Sound, EntrySet
<1>2. /\ \A i, j \in 1..Len(s) : s[i].peer = s[j].peer => i = j
      /\ \A i \in 1..Len(s) : s[i].peer # entry.selected.peer
      /\ Len(s) <= MaxAlternatives /\ entry.retries <= MaxWantRetries
  BY DEF Sound, OncePerPeer, Bounded
<1>3. [entry EXCEPT !.alternatives = others] = left
  BY <1>1 DEF With, EntrySet
<1>4. after = LeftBy(entry, p)
  BY <1>3 DEF LeftBy, Others
<1> HIDE DEF after, reset, left
<1>5. S \subseteq ToSet(s) /\ \A r \in S : r.peer # p /\ \E i \in 1..Len(s) : r = s[i]
  BY <1>1 DEF ToSet
<1> HIDE DEF s, S, others
<1>6. /\ others \in Seq(ProviderSet) /\ Len(others) <= Len(s) /\ ToSet(others) = S
      /\ \A i, j \in 1..Len(others) : others[i].peer = others[j].peer => i = j
  <2>1. Apart(s)
    BY <1>2 DEF Apart
  <2>2. /\ others \in Seq(ProviderSet) /\ Len(others) <= Len(s)
        /\ ToSet(others) = ToSet(s) \cap S /\ Apart(others)
    BY <1>1, <2>1, RetainedPeers DEF others
  <2> QED
    BY <1>5, <2>2 DEF Apart
<1>7. /\ left \in EntrySet /\ left.selected = entry.selected /\ left.alternatives = others
      /\ left.age = entry.age /\ left.retries = entry.retries
  BY <1>1, <1>6, WithProviders DEF left
<1>8. \A i \in 1..Len(others) : others[i] \in S
  BY <1>6 DEF ToSet
<1>9. OncePerPeer(left)
  BY <1>1, <1>2, <1>5, <1>6, <1>7, <1>8 DEF OncePerPeer
<1>10. Shaped(left)
  BY <1>1, <1>2, <1>6, <1>7, <1>9, WantsAssumption DEF Shaped, Bounded
<1>11. {entry.selected} \cup S \subseteq Providers(entry)
  BY <1>5 DEF Providers, s
<1>12. Providers(left) = {entry.selected} \cup S
  BY <1>6, <1>7 DEF Providers
<1>13. CASE entry.selected.peer = p /\ others # <<>>
  <2>1. after = reset
    BY <1>7, <1>13 DEF after
  <2> DEFINE first == Promote(left)
  <2>2. Shaped(first) /\ Providers(first) = S
    BY <1>6, <1>7, <1>10, <1>13, PromoteShaped
  <2> HIDE DEF first
  <2>3. /\ reset \in EntrySet /\ reset.selected = first.selected
        /\ reset.alternatives = first.alternatives /\ reset.age = 0 /\ reset.retries = 0
    <3>1. first \in EntrySet /\ reset = Stamped(first, 0, 0)
      BY <2>2 DEF reset, first, Shaped, Stamped
    <3> QED
      BY <3>1, WithClock
  <2>4. Shaped(reset) /\ Providers(reset) = S
    BY <2>2, <2>3, WantsAssumption DEF Shaped, OncePerPeer, Bounded, Providers
  <2>5. Reachable(reset) /\ Drawn(entry, reset)
    BY <1>11, <2>4 DEF Reachable, Drawn, Sound
  <2> QED
    BY <1>4, <1>5, <2>1, <2>3, <2>4, <2>5, DrawnStands DEF Follows, Sound, Shaped
<1>14. CASE ~(entry.selected.peer = p /\ others # <<>>)
  <2>1. after = left
    BY <1>7, <1>14 DEF after
  <2>2. entry.selected.peer # p
    BY <1>4, <1>7, <2>1
  <2>3. Reachable(after) /\ Drawn(entry, after)
    BY <1>11, <1>12, <2>1 DEF Reachable, Drawn, Sound
  <2> QED
    BY <1>4, <1>5, <1>7, <1>10, <1>12, <2>1, <2>2, <2>3, DrawnStands DEF Follows, Sound, Shaped
<1> QED
  BY <1>13, <1>14

\* A retry asks the next provider and keeps the one it rotates away, with its
\* request (retry_due).
LEMMA RetrySound ==
    ASSUME NEW entry, Sound(entry), entry.retries < MaxWantRetries
    PROVE  LET after == Retry(entry) IN
           /\ Sound(after) /\ Stands(entry, after) /\ after.age = 0
           /\ NoMore(entry, after, {after.selected.peer}) /\ after.selected.peer \in Peers
<1> DEFINE turned == Rotate(entry)
           after == [turned EXCEPT !.selected.requested = TRUE, !.age = 0, !.retries = @ + 1]
<1>1. entry \in EntrySet /\ OncePerPeer(entry) /\ Bounded(entry) /\ Reachable(entry) /\ Shaped(entry)
  BY DEF Sound, Shaped
<1>2. Shaped(turned) /\ Providers(turned) = Providers(entry) /\ turned.retries = entry.retries
  <2>1. CASE entry.alternatives = <<>>
    BY <1>1, <2>1 DEF Rotate
  <2>2. CASE entry.alternatives # <<>>
    <3> DEFINE first == Promote(entry)
               rest == Tail(entry.alternatives)
               longer == Append(rest, entry.selected)
    <3>1. turned = With(first, first.selected, longer)
      <4>1. first \in EntrySet /\ first.alternatives = rest
        BY <1>1, <2>2, PromoteShaped DEF Shaped
      <4> HIDE DEF first
      <4>2. turned = [first EXCEPT !.alternatives = Append(first.alternatives, entry.selected)]
        BY <2>2 DEF Rotate, first
      <4> HIDE DEF turned
      <4> QED
        BY <4>1, <4>2 DEF With, EntrySet
    <3>2. /\ first \in EntrySet /\ OncePerPeer(first) /\ Bounded(first)
          /\ Providers(first) = ToSet(entry.alternatives) /\ first.retries = entry.retries
          /\ first.selected \in ProviderSet /\ first.alternatives = rest
      BY <1>1, <2>2, PromoteShaped DEF Shaped, EntrySet
    <3>3. /\ rest \in Seq(ProviderSet) /\ Len(rest) = Len(entry.alternatives) - 1
          /\ entry.selected \in ProviderSet
      BY <1>1, <2>2 DEF EntrySet
    <3> HIDE DEF first, rest, turned
    <3>4. /\ longer \in Seq(ProviderSet) /\ Len(longer) = Len(rest) + 1
          /\ longer[Len(rest) + 1] = entry.selected /\ \A i \in 1..Len(rest) : longer[i] = rest[i]
      BY <3>3
    <3> HIDE DEF longer
    <3>5. /\ turned \in EntrySet /\ turned.selected = first.selected
          /\ turned.alternatives = longer /\ turned.retries = entry.retries
      BY <3>1, <3>2, <3>4, WithProviders
    <3>6. \A i \in 1..Len(longer) : i = Len(rest) + 1 \/ i \in 1..Len(rest)
      BY <3>3, <3>4
    <3>7. \A r \in Providers(first) : r.peer # entry.selected.peer
      BY <1>1, <3>2 DEF OncePerPeer, ToSet, EntrySet
    <3>8. first.selected \in Providers(first) /\ \A i \in 1..Len(rest) : rest[i] \in Providers(first)
      BY <3>2, <3>3 DEF Providers, ToSet
    <3>9. OncePerPeer(turned)
      <4>1. \A i \in 1..Len(rest) : /\ rest[i].peer # first.selected.peer
                                   /\ rest[i].peer # entry.selected.peer
        BY <3>2, <3>7, <3>8 DEF OncePerPeer
      <4>2. \A i \in 1..Len(longer) : longer[i].peer # first.selected.peer
        BY <3>4, <3>6, <3>7, <3>8, <4>1
      <4>3. \A i, j \in 1..Len(rest) : rest[i].peer = rest[j].peer => i = j
        BY <3>2 DEF OncePerPeer
      <4>4. \A i, j \in 1..Len(longer) : longer[i].peer = longer[j].peer => i = j
        BY <3>4, <3>6, <4>1, <4>3
      <4> QED
        BY <3>5, <4>2, <4>4 DEF OncePerPeer
    <3>10. Bounded(turned)
      BY <1>1, <3>3, <3>4, <3>5 DEF Bounded
    <3>11. ToSet(longer) = ToSet(rest) \cup {entry.selected}
      BY <3>3, <3>4, <3>6 DEF ToSet
    <3>12. Providers(turned) = Providers(entry)
      BY <3>2, <3>5, <3>11 DEF Providers
    <3> QED
      BY <3>5, <3>9, <3>10, <3>12 DEF Shaped
  <2> QED
    BY <2>1, <2>2
<1>3. after = Retry(entry)
  BY DEF Retry
<1>4. turned \in EntrySet /\ turned.selected \in ProviderSet
  BY <1>2 DEF Shaped, EntrySet
<1> HIDE DEF turned
<1>5. /\ after \in EntrySet /\ after.selected = [turned.selected EXCEPT !.requested = TRUE]
      /\ after.alternatives = turned.alternatives /\ after.age = 0
      /\ after.retries = turned.retries + 1
  <2> DEFINE q == [turned.selected EXCEPT !.requested = TRUE]
             asks == [turned EXCEPT !.selected.requested = TRUE]
  <2>1. q \in ProviderSet
    BY <1>4 DEF ProviderSet
  <2>2. asks = With(turned, q, turned.alternatives)
    BY <1>4 DEF With, EntrySet
  <2>3. after = Stamped(asks, 0, turned.retries + 1)
    BY <1>4 DEF Stamped, EntrySet
  <2>4. turned.alternatives \in Seq(ProviderSet) /\ turned.retries + 1 \in Nat
    BY <1>4 DEF EntrySet
  <2> HIDE DEF q, asks, after
  <2>5. asks \in EntrySet /\ asks.selected = q /\ asks.alternatives = turned.alternatives
    BY <1>4, <2>1, <2>2, <2>4, WithProviders
  <2>6. /\ after \in EntrySet /\ after.selected = asks.selected
        /\ after.alternatives = asks.alternatives /\ after.age = 0
        /\ after.retries = turned.retries + 1
    BY <2>3, <2>4, <2>5, WithClock
  <2> QED
    BY <2>5, <2>6 DEF q
<1>6. /\ after.selected.peer = turned.selected.peer /\ after.selected.peer \in Peers
      /\ after.selected.subs = turned.selected.subs /\ after.selected.requested
  BY <1>4, <1>5 DEF ProviderSet
<1> HIDE DEF after
<1>7. OncePerPeer(after)
  BY <1>2, <1>5, <1>6 DEF OncePerPeer, Shaped
<1>8. Bounded(after)
  BY <1>1, <1>2, <1>5, WantsAssumption DEF Bounded, Shaped, EntrySet
<1>9. \A r \in Providers(after) : r = after.selected \/ r \in Providers(entry)
  BY <1>2, <1>5 DEF Providers
<1>10. turned.selected \in Providers(entry)
  BY <1>2 DEF Providers
<1>11. Reachable(after)
  BY <1>1, <1>6, <1>9, <1>10 DEF Reachable
<1>12. Stands(entry, after)
  BY <1>1, <1>6, <1>9, PeersIdentify DEF Stands
<1>13. NoMore(entry, after, {after.selected.peer})
  BY <1>9 DEF NoMore
<1> QED
  BY <1>3, <1>5, <1>6, <1>7, <1>8, <1>11, <1>12, <1>13 DEF Sound

-----------------------------------------------------------------------------
(* The table of pending wants *)

\* The queue lists the entries once each, and there are at most max_events.
TableSound(w) ==
    /\ w \in [entries : [Events -> EntrySet \cup {NoEntry}], order : Seq(Events)]
    /\ \A e \in Held(w) : Sound(w.entries[e])
    /\ ToSet(w.order) = Held(w) /\ IsInjective(w.order) /\ Len(w.order) <= MaxEvents

\* new() makes an empty table, as clear() does.
LEMMA EmptySound == TableSound(EmptyTable) /\ Held(EmptyTable) = {}
<1> DEFINE w == EmptyTable
<1>1. /\ w.entries = [e \in Events |-> NoEntry] /\ w.order = <<>>
      /\ w \in [entries : [Events -> EntrySet \cup {NoEntry}], order : Seq(Events)]
  BY DEF EmptyTable
<1> HIDE DEF w
<1>2. Held(w) = {}
  BY <1>1 DEF Held
<1>3. ToSet(w.order) = {} /\ IsInjective(w.order) /\ Len(w.order) = 0
  BY <1>1 DEF ToSet, IsInjective
<1> QED
  BY <1>1, <1>2, <1>3, WantsAssumption DEF TableSound, w

AllSound(held, changed) == \A e \in held : Sound(changed[e])

\* Keeping some entries, changed, keeps their places in the queue.
LEMMA KeptSound ==
    ASSUME NEW w, TableSound(w), NEW held \in SUBSET Held(w), NEW changed, AllSound(held, changed)
    PROVE  /\ TableSound(Kept(w, held, changed)) /\ Held(Kept(w, held, changed)) = held
           /\ \A e \in held : Kept(w, held, changed).entries[e] = changed[e]
<1> DEFINE after == Kept(w, held, changed)
           left == Only(w.order, held)
<1>1. /\ left \in Seq(Events) /\ Len(left) <= Len(w.order)
      /\ ToSet(left) = ToSet(w.order) \cap held /\ IsInjective(left)
  BY OnlyRetains DEF TableSound
<1>2. /\ after.order = left
      /\ after.entries = [e \in Events |-> IF e \in held THEN changed[e] ELSE NoEntry]
      /\ after = [entries |-> after.entries, order |-> after.order]
  BY DEF Kept
<1>3. held \subseteq Events
  BY DEF Held
<1>4. Len(w.order) \in Nat /\ Len(w.order) <= MaxEvents /\ ToSet(w.order) = Held(w)
  BY DEF TableSound
<1> HIDE DEF after, left
<1>5. Held(after) = held
  BY <1>2, <1>3, SoundIsHeld DEF Held, AllSound
<1>6. \A e \in held : after.entries[e] = changed[e]
  BY <1>2, <1>3
<1>7. after.entries \in [Events -> EntrySet \cup {NoEntry}]
  BY <1>2 DEF Sound, AllSound
<1>8. after \in [entries : [Events -> EntrySet \cup {NoEntry}], order : Seq(Events)]
  BY <1>1, <1>2, <1>7
<1>9. ToSet(after.order) = held /\ IsInjective(after.order) /\ Len(after.order) <= MaxEvents
  <2>1. after.order = left
    BY <1>2
  <2>2. ToSet(left) = held
    BY <1>1, <1>4
  <2>3. Len(left) <= MaxEvents
    BY <1>1, <1>4, WantsAssumption
  <2> QED
    BY <1>1, <2>1, <2>2, <2>3
<1> QED
  BY <1>5, <1>6, <1>8, <1>9 DEF TableSound, AllSound, after

\* The entry insert makes of a first inventory.
First(p, subs, claim) ==
    [selected |-> Provider(p, subs, TRUE), alternatives |-> <<>>, claim |-> claim,
     age |-> 0, retries |-> 0]

\* Its only provider is the peer that is asked now.
LEMMA FirstSound ==
    ASSUME NEW p \in Peers, NEW subs \in SUBSET Subscriptions, subs # {}, NEW claim \in Claims
    PROVE  LET entry == First(p, subs, claim) IN
           /\ Sound(entry) /\ entry.age = 0 /\ \A r \in Providers(entry) : r.peer = p
<1> DEFINE entry == First(p, subs, claim)
           q == Provider(p, subs, TRUE)
<1>1. q \in ProviderSet /\ q.peer = p /\ q.subs = subs
  BY DEF Provider, ProviderSet
<1> HIDE DEF q
<1>2. /\ entry \in EntrySet /\ entry.selected = q /\ entry.alternatives = <<>>
      /\ entry.age = 0 /\ entry.retries = 0
  <2>1. entry = [selected |-> q, alternatives |-> <<>>, claim |-> claim, age |-> 0, retries |-> 0]
    BY DEF First, q
  <2>2. <<>> \in Seq(ProviderSet)
    OBVIOUS
  <2> HIDE DEF entry
  <2> QED
    BY <1>1, <2>1, <2>2 DEF EntrySet
<1> HIDE DEF entry
<1>3. Providers(entry) = {q}
  BY <1>2 DEF Providers, ToSet
<1>4. OncePerPeer(entry) /\ Bounded(entry)
  BY <1>2, WantsAssumption DEF OncePerPeer, Bounded
<1> QED
  BY <1>1, <1>2, <1>3, <1>4 DEF Sound, Reachable, entry

\* The queue drops the oldest event when there is one too many (insert).
LEMMA EvictSound ==
    ASSUME NEW w, w \in [entries : [Events -> EntrySet \cup {NoEntry}], order : Seq(Events)],
           \A e \in Held(w) : Sound(w.entries[e]),
           ToSet(w.order) = Held(w), IsInjective(w.order), Len(w.order) <= MaxEvents + 1
    PROVE  /\ TableSound(Evict(w)) /\ Held(Evict(w)) \subseteq Held(w)
           /\ \A e \in Held(Evict(w)) : Evict(w).entries[e] = w.entries[e]
<1>1. Cardinality(Held(w)) = Len(w.order) /\ w.order \in Seq(Events) /\ Len(w.order) \in Nat
  BY DistinctCardinality
<1>2. CASE Len(w.order) <= MaxEvents
  BY <1>1, <1>2, WantsAssumption DEF Evict, TableSound
<1>3. CASE Len(w.order) > MaxEvents
  <2> DEFINE first == Head(w.order)
             rest == Tail(w.order)
             after == [entries |-> [w.entries EXCEPT ![first] = NoEntry], order |-> rest]
  <2>1. Evict(w) = after
    BY <1>1, <1>3 DEF Evict
  <2>2. w.order # <<>> /\ Len(rest) = Len(w.order) - 1 /\ rest \in Seq(Events) /\ first \in Events
    BY <1>1, <1>3, WantsAssumption
  <2>3. IsInjective(rest) /\ ToSet(rest) = ToSet(w.order) \ {first}
    BY <1>1, <2>2, DistinctEnds
  <2> HIDE DEF first, rest
  <2>4. /\ after.order = rest /\ after.entries = [w.entries EXCEPT ![first] = NoEntry]
        /\ after \in [entries : [Events -> EntrySet \cup {NoEntry}], order : Seq(Events)]
    BY <2>2
  <2> HIDE DEF after
  <2>5. \A e \in Events : after.entries[e] = IF e = first THEN NoEntry ELSE w.entries[e]
    BY <2>2, <2>4
  <2>6. Held(after) = Held(w) \ {first}
    BY <2>5 DEF Held
  <2>7. \A e \in Held(after) : after.entries[e] = w.entries[e]
    BY <2>5, <2>6 DEF Held
  <2>8. Len(rest) <= MaxEvents
    BY <1>1, <2>2, WantsAssumption
  <2>9. TableSound(after)
    BY <2>3, <2>4, <2>6, <2>7, <2>8 DEF TableSound
  <2> QED
    BY <2>1, <2>6, <2>7, <2>9
<1> QED
  BY <1>1, <1>2, <1>3, WantsAssumption

\* Only e's entry is new in `after`.
Inserts(w, after, e, entry) ==
    \A x \in Held(after) :
        IF x \in Held(w) THEN Follows(w.entries[x], after.entries[x])
        ELSE x = e /\ after.entries[x] = entry

\* An inventory changes its own event's entry and may drop the oldest (insert).
LEMMA InsertSound ==
    ASSUME NEW w, TableSound(w), NEW e \in Events, NEW p \in Peers,
           NEW subs \in SUBSET Subscriptions, subs # {}, NEW claim \in Claims
    PROVE  /\ TableSound(Insert(w, e, p, subs, claim))
           /\ Inserts(w, Insert(w, e, p, subs, claim), e, First(p, subs, claim))
<1>1. \A x \in Held(w) : Sound(w.entries[x]) /\ Follows(w.entries[x], w.entries[x])
  BY DrawnStands DEF TableSound, Drawn, Follows
<1>2. /\ w.entries \in [Events -> EntrySet \cup {NoEntry}] /\ w.order \in Seq(Events)
      /\ ToSet(w.order) = Held(w) /\ IsInjective(w.order) /\ Len(w.order) <= MaxEvents
  BY DEF TableSound
<1>3. CASE e \in Held(w)
  <2> DEFINE joined == Join(w.entries[e], p, subs, claim)
             after == [w EXCEPT !.entries[e] = joined]
  <2>1. Follows(w.entries[e], joined) /\ Sound(joined)
    BY <1>1, <1>3, JoinSound DEF Follows
  <2>2. after = Insert(w, e, p, subs, claim)
    BY <1>3 DEF Insert
  <2> HIDE DEF joined
  <2>3. after.order = w.order /\ after.entries = [w.entries EXCEPT ![e] = joined]
        /\ after \in [entries : [Events -> EntrySet \cup {NoEntry}], order : Seq(Events)]
    BY <1>2, <2>1 DEF TableSound, Sound
  <2> HIDE DEF after
  <2>4. \A x \in Events : after.entries[x] = IF x = e THEN joined ELSE w.entries[x]
    BY <1>2, <2>3
  <2>5. Held(after) = Held(w)
    BY <1>3, <2>1, <2>4, SoundIsHeld DEF Held
  <2>6. \A x \in Held(w) : Sound(after.entries[x]) /\ Follows(w.entries[x], after.entries[x])
    BY <1>1, <2>1, <2>4 DEF Held
  <2>7. TableSound(after)
    BY <1>2, <2>3, <2>5, <2>6 DEF TableSound
  <2> QED
    BY <2>2, <2>5, <2>6, <2>7 DEF Inserts
<1>4. CASE e \notin Held(w)
  <2> DEFINE new == First(p, subs, claim)
             longer == Append(w.order, e)
             grown == [entries |-> [w.entries EXCEPT ![e] = new], order |-> longer]
  <2>1. Insert(w, e, p, subs, claim) = Evict(grown)
    BY <1>4 DEF Insert, InsertNew, First
  <2>2. Sound(new) /\ new # NoEntry /\ new \in EntrySet
    BY FirstSound, SoundIsHeld DEF Sound
  <2>3. /\ longer \in Seq(Events) /\ Len(longer) = Len(w.order) + 1
        /\ IsInjective(longer) /\ ToSet(longer) = Held(w) \cup {e}
    BY <1>2, <1>4, DistinctEnds
  <2> HIDE DEF new, longer
  <2>4. /\ grown.order = longer /\ grown.entries = [w.entries EXCEPT ![e] = new]
        /\ grown \in [entries : [Events -> EntrySet \cup {NoEntry}], order : Seq(Events)]
    BY <1>2, <2>2, <2>3
  <2> HIDE DEF grown
  <2>5. \A x \in Events : grown.entries[x] = IF x = e THEN new ELSE w.entries[x]
    BY <1>2, <2>4
  <2>6. Held(grown) = Held(w) \cup {e}
    BY <2>2, <2>5 DEF Held
  <2>7. \A x \in Held(grown) : Sound(grown.entries[x])
    BY <1>1, <2>2, <2>5, <2>6 DEF Held
  <2>8. Len(longer) <= MaxEvents + 1
    BY <1>2, <2>3, WantsAssumption
  <2>9. /\ TableSound(Evict(grown)) /\ Held(Evict(grown)) \subseteq Held(grown)
        /\ \A x \in Held(Evict(grown)) : Evict(grown).entries[x] = grown.entries[x]
    BY <2>3, <2>4, <2>6, <2>7, <2>8, EvictSound
  <2>10. \A x \in Held(grown) : x \in Events
    BY DEF Held
  <2> QED
    BY <1>1, <1>4, <2>1, <2>5, <2>6, <2>9, <2>10 DEF new, Inserts
<1> QED
  BY <1>3, <1>4

-----------------------------------------------------------------------------
(* The blame of pending wants *)

Ages == {Never} \cup Nat

\* Every request has been out at least as long as the entry's clock says: that
\* clock restarts at each retry, and never runs ahead of a provider's request.
Timed(w, history) ==
    \A e \in Held(w) : \A r \in Providers(w.entries[e]) :
        r.requested => /\ history[e][r.peer] >= w.entries[e].age
                       /\ history[e][r.peer] >= 0

WantsInv ==
    /\ TableSound(wants) /\ asked \in [Events -> [Peers -> Ages]]
    /\ Timed(wants, asked) /\ BlamedHadTime

\* What a step does to the requests of the events that stay pending.
KeepsRequests ==
    \A e \in Held(wants) \cap Held(wants') : Stands(wants.entries[e], wants'.entries[e])

\* A change that only carries requests over keeps them timed.
LEMMA FollowsTimed ==
    ASSUME NEW entry, NEW after, Sound(entry), Follows(entry, after), NEW h \in [Peers -> Ages],
           \A r \in Providers(entry) : r.requested => h[r.peer] >= entry.age /\ h[r.peer] >= 0
    PROVE  \A r \in Providers(after) : r.requested => h[r.peer] >= after.age /\ h[r.peer] >= 0
<1> SUFFICES ASSUME NEW r \in Providers(after), r.requested
             PROVE  h[r.peer] >= after.age /\ h[r.peer] >= 0
  OBVIOUS
<1>1. PICK q \in Providers(entry) : q.requested /\ q.peer = r.peer
  BY DEF Follows, NoMore
<1>2. after.age \in {0, entry.age} /\ r.peer \in Peers /\ h[r.peer] \in Int
  BY <1>1, ProvidersTyped DEF Follows, Sound, ProviderSet, Ages, Never
<1> QED
  BY <1>1, <1>2

\* A step that carries requests over, or asks somebody just now.
LEMMA BecomesTimed ==
    ASSUME WantsInv, NEW table, NEW history \in [Events -> [Peers -> Ages]],
           TableSound(table), Timed(table, history), Becomes(table, history)
    PROVE  /\ TableSound(wants') /\ asked' \in [Events -> [Peers -> Ages]]
           /\ Timed(wants', asked')
<1>1. \A e \in Held(table) : e \in Events
  BY DEF Held
<1>2. Never \in Ages
  BY DEF Ages
<1>3. asked' \in [Events -> [Peers -> Ages]] /\ \A e \in Held(table) : asked'[e] = history[e]
  BY <1>1, <1>2 DEF Becomes, Unasked
<1> QED
  BY <1>1, <1>3 DEF Becomes, Timed

\* A call other than retry_due blames nobody.
LEMMA NobodyBlamed == ASSUME batch' = NoBatch PROVE BlamedHadTime'
BY DEF BlamedHadTime, NoBatch

\* Time passes for entries and requests alike.
LEMMA TickKeeps == WantsInv /\ Tick => WantsInv' /\ KeepsRequests
<1> SUFFICES ASSUME WantsInv, Tick PROVE WantsInv' /\ KeepsRequests
  OBVIOUS
<1>1. /\ TableSound(wants) /\ asked \in [Events -> [Peers -> Ages]] /\ Timed(wants, asked)
      /\ wants \in [entries : [Events -> EntrySet \cup {NoEntry}], order : Seq(Events)]
  BY DEF WantsInv, TableSound
<1>2. MaxAge \in Int
  BY WantsAssumption DEF MaxAge, Delay
<1>3. \A a \in Int : Older(a) \in Int
  BY <1>2 DEF Older
<1>4. \A a, b \in Int : a >= b => Older(a) >= Older(b)
  BY <1>2 DEF Older
<1>5. \A a \in Int : a >= 0 => Older(a) >= 0
  BY <1>2 DEF Older
<1>6. ASSUME NEW entry \in EntrySet
      PROVE  /\ Aged(entry) \in EntrySet /\ Aged(entry).selected = entry.selected
             /\ Aged(entry).alternatives = entry.alternatives
             /\ Aged(entry).retries = entry.retries /\ Aged(entry).age = Older(entry.age)
  <2>1. entry.age \in Int /\ Older(entry.age) \in Int
    BY <1>3 DEF EntrySet
  <2> QED
    BY <2>1 DEF EntrySet, Aged
<1>7. ASSUME NEW entry, Sound(entry)
      PROVE  Sound(Aged(entry)) /\ Providers(Aged(entry)) = Providers(entry)
  BY <1>6, <1>7 DEF Sound, OncePerPeer, Bounded, Reachable, Providers
<1>8. /\ wants'.order = wants.order
      /\ wants'.entries = [e \in Events |-> IF e \in Held(wants) THEN Aged(wants.entries[e]) ELSE NoEntry]
      /\ wants' = [entries |-> wants'.entries, order |-> wants'.order]
  BY <1>1 DEF Tick
<1>9. Held(wants) \subseteq Events /\ \A e \in Held(wants) : Sound(wants.entries[e])
  BY <1>1 DEF Held, TableSound
<1>10. /\ Held(wants') = Held(wants)
       /\ \A e \in Held(wants) : wants'.entries[e] = Aged(wants.entries[e]) /\ Sound(wants'.entries[e])
  BY <1>7, <1>8, <1>9, SoundIsHeld DEF Held
<1>11. wants'.entries \in [Events -> EntrySet \cup {NoEntry}]
  BY <1>8, <1>10 DEF Sound
<1>12. TableSound(wants')
  <2>1. wants' \in [entries : [Events -> EntrySet \cup {NoEntry}], order : Seq(Events)]
    BY <1>1, <1>8, <1>11
  <2> QED
    BY <1>1, <1>8, <1>10, <2>1 DEF TableSound
<1>13. /\ asked' \in [Events -> [Peers -> Ages]]
       /\ \A e \in Events, p \in Peers : asked[e][p] >= 0 => asked'[e][p] = Older(asked[e][p])
  BY <1>1, <1>3, <1>5 DEF Tick, Ages, Never
<1>14. ASSUME NEW e \in Held(wants), NEW r \in Providers(wants.entries[e]), r.requested
       PROVE  /\ asked'[e][r.peer] >= wants'.entries[e].age
              /\ asked'[e][r.peer] >= 0
  <2>1. wants.entries[e] \in EntrySet /\ wants.entries[e].age \in Int /\ r.peer \in Peers
    BY <1>9, ProvidersTyped DEF Sound, EntrySet, ProviderSet
  <2>2. asked[e][r.peer] \in Int /\ asked[e][r.peer] >= wants.entries[e].age /\ asked[e][r.peer] >= 0
    BY <1>1, <1>9, <1>14, <2>1 DEF Timed, Ages, Never
  <2>3. asked'[e][r.peer] = Older(asked[e][r.peer]) /\ wants'.entries[e].age = Older(wants.entries[e].age)
    BY <1>6, <1>9, <1>10, <1>13, <2>1, <2>2
  <2> QED
    BY <1>4, <1>5, <2>1, <2>2, <2>3
<1>15. \A e \in Held(wants) : Providers(wants'.entries[e]) = Providers(wants.entries[e])
  BY <1>7, <1>9, <1>10
<1>16. Timed(wants', asked')
  BY <1>10, <1>14, <1>15 DEF Timed
<1>17. KeepsRequests
  BY <1>9, <1>15, PeersIdentify DEF KeepsRequests, Stands, Sound
<1>18. BlamedHadTime'
  BY NobodyBlamed DEF Tick
<1> QED
  BY <1>12, <1>13, <1>16, <1>17, <1>18 DEF WantsInv

\* An inventory asks its provider when it is the first of its event.
LEMMA AnnounceKeeps ==
    ASSUME WantsInv, NEW e \in Events, NEW p \in Peers, NEW subs \in SUBSET Subscriptions,
           subs # {}, NEW claim \in Claims, Announce(e, p, subs, claim)
    PROVE  WantsInv' /\ KeepsRequests
<1> DEFINE table == Insert(wants, e, p, subs, claim)
           history == IF e \in Held(wants) THEN asked ELSE NowAsked(e, p)
<1>1. /\ TableSound(wants) /\ asked \in [Events -> [Peers -> Ages]] /\ Timed(wants, asked)
      /\ \A x \in Held(wants) : x \in Events /\ Sound(wants.entries[x])
  BY DEF WantsInv, TableSound, Held
<1>2. Becomes(table, history) /\ batch' = NoBatch
  BY DEF Announce
<1>3. /\ TableSound(table)
      /\ \A x \in Held(table) :
            IF x \in Held(wants) THEN Follows(wants.entries[x], table.entries[x])
            ELSE x = e /\ table.entries[x] = First(p, subs, claim)
  <2>1. TableSound(table) /\ Inserts(wants, table, e, First(p, subs, claim))
    BY <1>1, InsertSound
  <2> QED
    BY <2>1 DEF Inserts
<1>4. /\ history \in [Events -> [Peers -> Ages]]
      /\ \A x \in Events : x \in Held(wants) => history[x] = asked[x]
      /\ e \notin Held(wants) => history[e][p] = IF asked[e][p] = Never THEN 0 ELSE asked[e][p]
  BY <1>1 DEF NowAsked, Ages
<1> HIDE DEF table, history
<1>5. Timed(table, history)
  <2> SUFFICES ASSUME NEW x \in Held(table)
               PROVE  \A r \in Providers(table.entries[x]) : r.requested =>
                        history[x][r.peer] >= table.entries[x].age /\ history[x][r.peer] >= 0
    BY DEF Timed
  <2>1. CASE x \in Held(wants)
    <3>1. asked[x] \in [Peers -> Ages] /\ history[x] = asked[x]
      BY <1>1, <1>4, <2>1
    <3>2. \A r \in Providers(wants.entries[x]) : r.requested =>
            asked[x][r.peer] >= wants.entries[x].age /\ asked[x][r.peer] >= 0
      BY <1>1, <2>1 DEF Timed
    <3> QED
      BY <1>1, <1>3, <2>1, <3>1, <3>2, FollowsTimed
  <2>2. CASE x \notin Held(wants)
    <3>1. x = e /\ table.entries[x] = First(p, subs, claim)
      BY <1>3, <2>2
    <3>2. table.entries[x].age = 0 /\ \A r \in Providers(table.entries[x]) : r.peer = p
      BY <3>1, FirstSound
    <3>3. history[e][p] \in Nat
      BY <1>1, <1>4, <2>2, <3>1 DEF Ages
    <3> QED
      BY <3>1, <3>2, <3>3
  <2> QED
    BY <2>1, <2>2
<1>6. KeepsRequests
  BY <1>2, <1>3 DEF KeepsRequests, Becomes, Follows
<1> QED
  BY <1>2, <1>3, <1>4, <1>5, <1>6, BecomesTimed, NobodyBlamed DEF WantsInv

\* Entries that leave, or change and carry their requests over, keep the
\* invariant, as long as the history of those requests is kept.
LEMMA KeptKeeps ==
    ASSUME WantsInv, NEW held \in SUBSET Held(wants), NEW changed,
           NEW history \in [Events -> [Peers -> Ages]],
           \A e \in held : Follows(wants.entries[e], changed[e]),
           \A e \in held : \A r \in Providers(changed[e]) : history[e][r.peer] = asked[e][r.peer],
           Becomes(Kept(wants, held, changed), history), batch' = NoBatch
    PROVE  WantsInv' /\ KeepsRequests
<1> DEFINE table == Kept(wants, held, changed)
<1>1. /\ TableSound(wants) /\ asked \in [Events -> [Peers -> Ages]] /\ Timed(wants, asked)
      /\ \A x \in Held(wants) : x \in Events /\ Sound(wants.entries[x])
  BY DEF WantsInv, TableSound, Held
<1>2. AllSound(held, changed)
  BY DEF Follows, AllSound
<1>3. /\ TableSound(table) /\ Held(table) = held
      /\ \A e \in held : table.entries[e] = changed[e]
  BY <1>1, <1>2, KeptSound
<1>4. wants' = table
  BY DEF Becomes
<1> HIDE DEF table
<1>5. ASSUME NEW e \in held
      PROVE  \A r \in Providers(changed[e]) : r.requested =>
                asked[e][r.peer] >= changed[e].age /\ asked[e][r.peer] >= 0
  <2>1. asked[e] \in [Peers -> Ages] /\ Sound(wants.entries[e])
    BY <1>1
  <2>2. \A r \in Providers(wants.entries[e]) : r.requested =>
            asked[e][r.peer] >= wants.entries[e].age /\ asked[e][r.peer] >= 0
    BY <1>1 DEF Timed
  <2> QED
    BY <2>1, <2>2, FollowsTimed
<1>6. Timed(table, history)
  BY <1>3, <1>5 DEF Timed
<1>7. KeepsRequests
  BY <1>3, <1>4 DEF KeepsRequests, Follows
<1> QED
  BY <1>3, <1>6, <1>7, BecomesTimed, NobodyBlamed DEF WantsInv, table

\* An entry that is left alone carries its requests over.
LEMMA FollowsItself == ASSUME NEW entry, Sound(entry) PROVE Follows(entry, entry)
BY DrawnStands DEF Drawn, Follows

\* An answer takes its event out of the table.
LEMMA TakeMatchingKeeps ==
    ASSUME WantsInv, NEW e, NEW p, NEW sub, NEW claim, TakeMatching(e, p, sub, claim)
    PROVE  WantsInv' /\ KeepsRequests
<1>1. /\ \A x \in Held(wants) : Sound(wants.entries[x]) /\ Follows(wants.entries[x], wants.entries[x])
      /\ asked \in [Events -> [Peers -> Ages]]
  BY FollowsItself DEF WantsInv, TableSound
<1>2. Becomes(Kept(wants, Held(wants) \ {e}, wants.entries), asked) /\ batch' = NoBatch
  BY DEF TakeMatching, Taken
<1> QED
  BY <1>1, <1>2, KeptKeeps

\* A closed subscription withdraws requests made for it alone.
LEMMA RemoveSubscriptionKeeps ==
    ASSUME WantsInv, NEW sub, RemoveSubscription(sub)
    PROVE  WantsInv' /\ KeepsRequests
<1> DEFINE left == [e \in Held(wants) |-> Unsubscribed(wants.entries[e], sub)]
           held == {e \in Held(wants) : left[e].selected.subs # {}}
<1>1. /\ \A x \in Held(wants) : Sound(wants.entries[x])
      /\ asked \in [Events -> [Peers -> Ages]]
  BY DEF WantsInv, TableSound
<1>2. Becomes(Kept(wants, held, left), asked) /\ batch' = NoBatch
  BY DEF RemoveSubscription, WithoutSubscription
<1>3. held \in SUBSET Held(wants) /\ \A e \in held : Follows(wants.entries[e], left[e])
  BY <1>1, UnsubscribedSound
<1> HIDE DEF left, held
<1> QED
  BY <1>1, <1>2, <1>3, KeptKeeps

\* The end of a peer's epoch withdraws what it was asked.
LEMMA RemovePeerKeeps ==
    ASSUME WantsInv, NEW p \in Peers, RemovePeer(p)
    PROVE  WantsInv' /\ KeepsRequests
<1> DEFINE left == [e \in Held(wants) |-> LeftBy(wants.entries[e], p)]
           held == {e \in Held(wants) : left[e].selected.peer # p}
           history == [e \in Events |-> [asked[e] EXCEPT ![p] = Never]]
<1>1. /\ \A x \in Held(wants) : x \in Events /\ Sound(wants.entries[x])
      /\ asked \in [Events -> [Peers -> Ages]]
  BY DEF WantsInv, TableSound, Held
<1>2. Becomes(Kept(wants, held, left), history) /\ batch' = NoBatch
  BY DEF RemovePeer, WithoutPeer
<1>3. /\ held \in SUBSET Held(wants)
      /\ \A e \in held : /\ Follows(wants.entries[e], left[e])
                         /\ \A r \in Providers(left[e]) : r.peer # p
  BY <1>1, LeftBySound
<1>4. /\ history \in [Events -> [Peers -> Ages]]
      /\ \A e \in Events, q \in Peers : q # p => history[e][q] = asked[e][q]
  BY <1>1 DEF Ages
<1> HIDE DEF left, held, history
<1>5. ASSUME NEW e \in held, NEW r \in Providers(left[e])
      PROVE  history[e][r.peer] = asked[e][r.peer]
  <2>1. left[e] \in EntrySet /\ e \in Events
    BY <1>1, <1>3 DEF Follows, Sound
  <2>2. r.peer \in Peers
    BY <2>1, ProvidersTyped DEF ProviderSet
  <2> QED
    BY <1>3, <1>4, <2>1, <2>2
<1> QED
  BY <1>2, <1>3, <1>4, <1>5, KeptKeeps

\* clear forgets everything.
LEMMA ClearKeeps == WantsInv /\ Clear => WantsInv' /\ KeepsRequests
<1> SUFFICES ASSUME WantsInv, Clear PROVE WantsInv' /\ KeepsRequests
  OBVIOUS
<1>1. Becomes(EmptyTable, asked) /\ batch' = NoBatch /\ asked \in [Events -> [Peers -> Ages]]
  BY DEF Clear, WantsInv
<1>2. Timed(EmptyTable, asked)
  BY EmptySound DEF Timed
<1>3. KeepsRequests
  BY <1>1, EmptySound DEF KeepsRequests, Becomes
<1> QED
  BY <1>1, <1>2, <1>3, EmptySound, BecomesTimed, NobodyBlamed DEF WantsInv

\* retry_due asks again or gives up; what it blames was asked and had the last
\* delay to answer.
LEMMA RetryDueKeeps == WantsInv /\ RetryDue => WantsInv' /\ KeepsRequests
<1> SUFFICES ASSUME WantsInv, RetryDue PROVE WantsInv' /\ KeepsRequests
  OBVIOUS
<1> DEFINE gone == GivenUp(wants, Due)
           again == Due \ gone
           held == Held(wants) \ gone
           changed == [e \in Held(wants) |->
                         IF e \in Due \ gone THEN Retry(wants.entries[e]) ELSE wants.entries[e]]
           table == Retried(wants, Due)
           history == [e \in Events |-> [p \in Peers |->
                         IF e \in again /\ p = table.entries[e].selected.peer /\ asked[e][p] = Never THEN 0
                         ELSE asked[e][p]]]
<1>1. /\ TableSound(wants) /\ asked \in [Events -> [Peers -> Ages]] /\ Timed(wants, asked)
      /\ \A x \in Held(wants) : x \in Events /\ Sound(wants.entries[x])
  BY DEF WantsInv, TableSound, Held
<1>2. table = Kept(wants, held, changed)
  BY DEF Retried
<1>3. /\ Becomes(table, history)
      /\ batch'.blamed = {<<b[1], b[2], asked[b[1]][b[2]]>> : b \in Blamed(wants, Due)}
  BY DEF RetryDue
<1>4. /\ Due \subseteq Held(wants)
      /\ \A e \in Due : wants.entries[e].age >= Delay(wants.entries[e].retries)
      /\ gone \subseteq Due /\ \A e \in gone : wants.entries[e].retries >= MaxWantRetries
      /\ \A e \in again : ~(wants.entries[e].retries >= MaxWantRetries)
  BY DEF Due, GivenUp
<1>5. \A e \in Held(wants) : /\ wants.entries[e].retries \in Nat /\ wants.entries[e].age \in Int
                             /\ wants.entries[e].retries <= MaxWantRetries
  BY <1>1 DEF Sound, EntrySet, Bounded
<1>6. /\ held \in SUBSET Held(wants) /\ again \subseteq held
      /\ \A e \in held : changed[e] = IF e \in again THEN Retry(wants.entries[e]) ELSE wants.entries[e]
  BY <1>4
<1>7. ASSUME NEW e \in again
      PROVE  /\ Sound(changed[e]) /\ Stands(wants.entries[e], changed[e]) /\ changed[e].age = 0
             /\ NoMore(wants.entries[e], changed[e], {changed[e].selected.peer})
             /\ changed[e].selected.peer \in Peers
  <2>1. Sound(wants.entries[e]) /\ wants.entries[e].retries < MaxWantRetries
    BY <1>1, <1>4, <1>5, WantsAssumption
  <2>2. changed[e] = Retry(wants.entries[e])
    BY <1>6
  <2> HIDE DEF changed
  <2> QED
    BY <2>1, <2>2, RetrySound
<1>8. \A e \in held \ again : changed[e] = wants.entries[e] /\ Sound(changed[e])
  BY <1>1, <1>6
<1>9. AllSound(held, changed)
  BY <1>7, <1>8 DEF AllSound
<1>10. history \in [Events -> [Peers -> Ages]]
  BY <1>1 DEF Ages
<1>11. \A e \in Events, p \in Peers :
          history[e][p] = IF e \in again /\ p = table.entries[e].selected.peer /\ asked[e][p] = Never THEN 0
                          ELSE asked[e][p]
  OBVIOUS
<1> HIDE DEF gone, again, held, changed, table, history
<1>12. TableSound(table) /\ Held(table) = held /\ \A e \in held : table.entries[e] = changed[e]
  <2>1. TableSound(wants) /\ held \in SUBSET Held(wants)
    BY <1>1, <1>6
  <2> QED
    BY <1>2, <1>9, <2>1, KeptSound
<1>13. ASSUME NEW e \in held, NEW r \in Providers(changed[e]), r.requested
       PROVE  history[e][r.peer] >= changed[e].age /\ history[e][r.peer] >= 0
  <2>1. e \in Events /\ r.peer \in Peers
    BY <1>1, <1>6, <1>9, ProvidersTyped DEF Sound, AllSound, ProviderSet
  <2>2. asked[e][r.peer] \in Ages
    BY <1>1, <2>1
  <2>3. \A q \in Providers(wants.entries[e]) : q.requested =>
            asked[e][q.peer] >= wants.entries[e].age /\ asked[e][q.peer] >= 0
    BY <1>1, <1>6 DEF Timed
  <2>4. CASE e \notin again
    BY <1>8, <1>11, <1>13, <2>1, <2>3, <2>4
  <2>5. CASE e \in again
    <3>1. history[e][r.peer] = IF r.peer = changed[e].selected.peer /\ asked[e][r.peer] = Never THEN 0
                               ELSE asked[e][r.peer]
      BY <1>11, <1>12, <2>1, <2>5
    <3>2. CASE r.peer = changed[e].selected.peer
      <4>1. history[e][r.peer] \in Nat
        BY <2>2, <3>1, <3>2 DEF Ages
      <4>2. changed[e].age = 0
        BY <1>7, <2>5
      <4> QED
        BY <4>1, <4>2
    <3>3. CASE r.peer # changed[e].selected.peer
      <4>1. PICK q \in Providers(wants.entries[e]) : q.requested /\ q.peer = r.peer
        BY <1>7, <1>13, <2>5, <3>3 DEF NoMore
      <4> QED
        BY <1>7, <2>3, <2>5, <3>1, <3>3, <4>1
    <3> QED
      BY <3>2, <3>3
  <2> QED
    BY <2>4, <2>5
<1>14. Timed(table, history)
  BY <1>12, <1>13 DEF Timed
<1>15. KeepsRequests
  <2>1. ASSUME NEW e \in held PROVE Stands(wants.entries[e], changed[e])
    BY <1>1, <1>6, <1>7, <1>8, FollowsItself DEF Follows
  <2> QED
    BY <1>3, <1>6, <1>12, <2>1 DEF KeepsRequests, Becomes
<1>16. ASSUME NEW e \in gone, NEW p \in Requested(wants.entries[e])
       PROVE  asked[e][p] >= MaxAge
  <2>1. e \in Held(wants) /\ wants.entries[e].retries = MaxWantRetries
    BY <1>4, <1>5, WantsAssumption
  <2>2. wants.entries[e].age >= MaxAge
    BY <1>4, <2>1 DEF MaxAge
  <2>3. PICK q \in Providers(wants.entries[e]) : q.requested /\ q.peer = p
    BY DEF Requested
  <2>4. asked[e][p] >= wants.entries[e].age /\ p \in Peers
    BY <1>1, <2>1, <2>3, ProvidersTyped DEF Timed, Sound, ProviderSet
  <2>5. MaxAge \in Int /\ asked[e][p] \in Int /\ wants.entries[e].age \in Int
    BY <1>1, <1>5, <2>1, <2>4, WantsAssumption DEF MaxAge, Delay, Ages, Never
  <2> QED
    BY <2>2, <2>4, <2>5
<1>17. \A b \in Blamed(wants, Due) : \E e \in gone : \E p \in Requested(wants.entries[e]) : b = <<e, p>>
  BY DEF Blamed, gone
<1>18. BlamedHadTime'
  <2> SUFFICES ASSUME NEW blame \in batch'.blamed PROVE blame[3] >= MaxAge
    BY DEF BlamedHadTime
  <2>1. PICK b \in Blamed(wants, Due) : blame = <<b[1], b[2], asked[b[1]][b[2]]>>
    BY <1>3
  <2>2. PICK e \in gone : \E p \in Requested(wants.entries[e]) : b = <<e, p>>
    BY <1>17
  <2>3. PICK p \in Requested(wants.entries[e]) : b = <<e, p>>
    BY <2>2
  <2>4. blame[3] = asked[e][p]
    BY <2>1, <2>3
  <2> QED
    BY <1>16, <2>4
<1> QED
  BY <1>3, <1>10, <1>12, <1>14, <1>15, <1>18, BecomesTimed DEF WantsInv

-----------------------------------------------------------------------------

\* No step of the table breaks the invariant, nor withdraws a request from a
\* provider that stays.
LEMMA WantsStep == WantsInv /\ [Next]_wantsVars => WantsInv' /\ KeepsRequests
<1> SUFFICES ASSUME WantsInv, [Next]_wantsVars PROVE WantsInv' /\ KeepsRequests
  OBVIOUS
<1>1. ASSUME NEW e \in Events, NEW p \in Peers, NEW subs \in (SUBSET Subscriptions) \ {{}},
             NEW claim \in Claims, Announce(e, p, subs, claim)
      PROVE  WantsInv' /\ KeepsRequests
  <2>1. subs \in SUBSET Subscriptions /\ subs # {}
    OBVIOUS
  <2> QED
    BY <1>1, <2>1, AnnounceKeeps
<1>2. CASE UNCHANGED wantsVars
  <2>1. wants' = wants /\ asked' = asked /\ batch' = batch
    BY <1>2 DEF wantsVars, vars
  <2>2. \A e \in Held(wants) : Sound(wants.entries[e])
    BY DEF WantsInv, TableSound
  <2>3. KeepsRequests
    BY <2>1, <2>2, FollowsItself DEF KeepsRequests, Follows
  <2> QED
    BY <2>1, <2>3 DEF WantsInv, BlamedHadTime
<1> QED
  BY <1>1, <1>2, TickKeeps, RetryDueKeeps, ClearKeeps, TakeMatchingKeeps,
     RemoveSubscriptionKeeps, RemovePeerKeeps DEF Next

\* The client starts with an empty table.
LEMMA WantsInitially == Init => WantsInv
<1> SUFFICES ASSUME Init PROVE WantsInv
  OBVIOUS
<1>1. TableSound(wants) /\ Held(wants) = {}
  BY EmptySound DEF Init
<1>2. asked \in [Events -> [Peers -> Ages]]
  BY DEF Init, Unasked, Ages
<1>3. BlamedHadTime
  BY DEF Init, BlamedHadTime, NoBatch
<1> QED
  BY <1>1, <1>2, <1>3 DEF WantsInv, Timed

\* The sound table is the coherent one the property counts.
LEMMA SoundIsCoherent == WantsInv => Coherent
<1> SUFFICES ASSUME WantsInv PROVE Coherent
  OBVIOUS
<1>1. /\ wants.order \in Seq(Events) /\ ToSet(wants.order) = Held(wants)
      /\ IsInjective(wants.order) /\ Len(wants.order) <= MaxEvents
  BY DEF WantsInv, TableSound
<1>2. Len(wants.order) = Cardinality(Held(wants))
  BY <1>1, DistinctCardinality
<1>3. ASSUME NEW entry, Sound(entry)
      PROVE  /\ Len(entry.alternatives) <= MaxAlternatives /\ entry.retries <= MaxWantRetries
             /\ Cardinality({provider.peer : provider \in Providers(entry)}) = Len(entry.alternatives) + 1
             /\ \A provider \in Providers(entry) : provider.subs # {}
  <2> DEFINE s == entry.alternatives
             peers == [i \in 1..(Len(s) + 1) |-> IF i = Len(s) + 1 THEN entry.selected.peer ELSE s[i].peer]
  <2>1. /\ entry \in EntrySet /\ s \in Seq(ProviderSet) /\ entry.selected \in ProviderSet
        /\ Len(s) \in Nat /\ Providers(entry) = {entry.selected} \cup {s[i] : i \in 1..Len(s)}
    BY <1>3 DEF Sound, EntrySet, Providers, ToSet
  <2>2. /\ \A i \in 1..Len(s) : s[i].peer # entry.selected.peer /\ s[i].peer \in Peers
        /\ \A i, j \in 1..Len(s) : s[i].peer = s[j].peer => i = j
        /\ entry.selected.peer \in Peers
    <3>1. OncePerPeer(entry)
      BY <1>3 DEF Sound
    <3>2. \A q \in ProviderSet : q.peer \in Peers
      BY DEF ProviderSet
    <3>3. \A i \in 1..Len(s) : s[i] \in ProviderSet
      BY <2>1
    <3> QED
      BY <2>1, <3>1, <3>2, <3>3 DEF OncePerPeer
  <2> HIDE DEF s
  <2>3. \A i \in 1..(Len(s) + 1) : i = Len(s) + 1 \/ i \in 1..Len(s)
    BY <2>1
  <2>4. peers \in Seq(Peers) /\ Len(peers) = Len(s) + 1 /\ IsInjective(peers)
    <3>1. peers \in [1..(Len(s) + 1) -> Peers]
      BY <2>1, <2>2, <2>3
    <3>2. IsInjective(peers)
      BY <2>1, <2>2, <2>3 DEF IsInjective
    <3> HIDE DEF peers
    <3> QED
      BY <2>1, <3>1, <3>2
  <2>5. ToSet(peers) = {provider.peer : provider \in Providers(entry)}
    <3>1. DOMAIN peers = 1..(Len(s) + 1) /\ peers[Len(s) + 1] = entry.selected.peer
          /\ \A i \in 1..Len(s) : peers[i] = s[i].peer
      BY <2>1
    <3> HIDE DEF peers
    <3> QED
      BY <2>1, <2>3, <3>1 DEF ToSet
  <2> HIDE DEF peers
  <2>6. Cardinality(ToSet(peers)) = Len(s) + 1
    BY <2>4, DistinctCardinality
  <2> QED
    BY <1>3, <2>5, <2>6 DEF Sound, Bounded, Reachable, s
<1>4. \A e \in Held(wants) : Sound(wants.entries[e])
  BY DEF WantsInv, TableSound
<1> QED
  BY <1>1, <1>2, <1>3, <1>4 DEF Coherent

\* In every behaviour of the client, the table of pending wants stays coherent
\* and within its bounds, and whoever retry_due blames was asked in its current
\* link epoch and had the whole last delay to answer.
THEOREM WantsStayFair == MCSpec => []WantsFair
<1>1. MCInit => WantsInv
  BY WantsInitially DEF MCInit
<1>2. WantsInv /\ [MCNext]_allVars => WantsInv'
  BY WantsStep DEF MCNext, allVars
<1>3. WantsInv => WantsFair
  BY SoundIsCoherent DEF WantsFair, WantsInv
<1> QED
  BY <1>1, <1>2, <1>3, PTL DEF MCSpec

\* While an event stays pending, no retry, rotation or new inventory withdraws
\* the request of a provider that is still listed (retry_due: "Rotating
\* providers does not cancel a reliable response already in flight").
THEOREM RequestsKeepStanding == MCSpec => RequestsStand
<1> DEFINE Step == \A e \in Held(wants) \cap Held(wants') :
                     \A p \in Requested(wants.entries[e]) \ Requested(wants'.entries[e]) :
                        ~\E provider \in Providers(wants'.entries[e]) : provider.peer = p
<1>1. MCInit => WantsInv
  BY WantsInitially DEF MCInit
<1>2. WantsInv /\ [MCNext]_allVars => WantsInv' /\ KeepsRequests
  BY WantsStep DEF MCNext, allVars
<1>3. KeepsRequests => Step
  BY DEF KeepsRequests, Stands, Requested
<1>4. WantsInv /\ [MCNext]_allVars => [Step]_vars
  BY <1>2, <1>3
<1> QED
  BY <1>1, <1>2, <1>4, PTL DEF MCSpec, RequestsStand
=============================================================================
