-------------------------- MODULE ClientLifecycle --------------------------
(***************************************************************************)
(* Starting and stopping a FIPS client (crates/nostr-pubsub-fips/src:      *)
(* lib.rs, client_lifecycle.rs, client_reputation.rs) and the store of     *)
(* peer announcements an application attaches to it (peerfinding.rs).      *)
(* Several callers may shut the client down, each may be cancelled, and    *)
(* the application may be attaching a store at the time.                   *)
(***************************************************************************)
EXTENDS Naturals, FiniteSets, Sequences

CONSTANTS
    Callers,        \* of shutdown_shared
    Announcements   \* stores the application attaches; "none" is not one

VARIABLES
    open,       \* admission; the client's subscriptions close with it
    task,       \* [Tasks -> running | aborted | done]
    slot,       \* the tasks whose JoinHandle is there
    stopped,    \* transport_stop was sent
    caller,     \* [Callers -> where a call of shutdown_shared is]
    store,      \* peer_announcement_store
    setter,     \* the call of set_peer_announcement_store under way
    retaining,  \* the store the peerfinding task is writing an event to
    retained    \* the stores that hold the events of this client

lifecycleVars == <<open, task, slot, stopped, caller, store, setter, retaining, retained>>

Tasks == {"reputation", "replay", "peerfinding", "transport"}
Order == <<"reputation", "replay", "peerfinding", "transport">>    \* ClientTasks::slots
NoStore == "none"
Idle == <<"idle", NoStore>>

\* start_for_role, and start_with_reputation for the reputation task.
LifecycleInit ==
    /\ open = TRUE
    /\ slot \in {Tasks, Tasks \ {"reputation"}}
    /\ task = [t \in Tasks |-> IF t \in slot THEN "running" ELSE "done"]
    /\ stopped = FALSE
    /\ caller = [c \in Callers |-> "out"]
    /\ store = NoStore /\ setter = Idle /\ retaining = NoStore /\ retained = {}

-----------------------------------------------------------------------------
(* peerfinding.rs *)

Setting == <<store, setter, retaining, retained>>
Stopping == <<open, task, slot, stopped, caller>>

\* set_peer_announcement_store restores what the store holds while the client
\* is open, and attaches it if the client is still open then.
SetStore(st) ==
    /\ setter = Idle /\ open
    /\ setter' = <<"restoring", st>>
    /\ UNCHANGED <<store, retaining, retained>> /\ UNCHANGED Stopping

\* Mutant: the store is attached to a client that closed meanwhile.
AttachAnyway ==
    /\ setter[1] = "restoring"
    /\ store' = setter[2]
    /\ setter' = <<"attached", NoStore>>
    /\ UNCHANGED <<retaining, retained>> /\ UNCHANGED Stopping

Attach ==
    /\ setter[1] = "restoring"
    /\ store' = IF open THEN setter[2] ELSE store
    /\ setter' = IF open THEN <<"attached", NoStore>> ELSE Idle
    /\ UNCHANGED <<retaining, retained>> /\ UNCHANGED Stopping

Detach ==
    /\ setter = Idle /\ store' = NoStore
    /\ UNCHANGED <<setter, retaining, retained>> /\ UNCHANGED Stopping

\* It retains this client's own event in whatever store is attached then.
RetainLocal ==
    /\ setter[1] = "attached"
    /\ setter' = IF store = NoStore THEN Idle ELSE <<"writing", store>>
    /\ UNCHANGED <<store, retaining, retained>> /\ UNCHANGED Stopping
LocalRetained ==
    /\ setter[1] = "writing"
    /\ retained' = retained \cup {setter[2]} /\ setter' = Idle
    /\ UNCHANGED <<store, retaining>> /\ UNCHANGED Stopping

\* run_default_peerfinding: an event of its subscription, or its own advert,
\* goes to the store (retain_peer_announcement).
Announcement ==
    /\ task["peerfinding"] = "running" /\ retaining = NoStore /\ open
    /\ retaining' = store
    /\ UNCHANGED <<store, setter, retained>> /\ UNCHANGED Stopping
AnnouncementRetained ==
    /\ task["peerfinding"] = "running" /\ retaining # NoStore
    /\ retained' = retained \cup {retaining} /\ retaining' = NoStore
    /\ UNCHANGED <<store, setter>> /\ UNCHANGED Stopping

-----------------------------------------------------------------------------
(* client_lifecycle.rs *)

\* shutdown_shared: close_all, then it waits for the lock of the tasks.
Shutdown(c) ==
    /\ caller[c] = "out"
    /\ open' = FALSE /\ store' = NoStore
    /\ caller' = [caller EXCEPT ![c] = "waiting"]
    /\ UNCHANGED <<task, slot, stopped, setter, retaining, retained>>

Aborted(T) == [t \in Tasks |-> IF t \in T /\ task[t] = "running" THEN "aborted" ELSE task[t]]

\* Mutant: the transport is not told to stop.
LockOnly(c) ==
    /\ caller[c] = "waiting" /\ \A k \in Callers : caller[k] # "joining"
    /\ caller' = [caller EXCEPT ![c] = "joining"]
    /\ task' = Aborted(slot \ {"transport"})
    /\ UNCHANGED <<open, slot, stopped>> /\ UNCHANGED Setting

Lock(c) ==
    /\ caller[c] = "waiting" /\ \A k \in Callers : caller[k] # "joining"
    /\ caller' = [caller EXCEPT ![c] = "joining"]
    /\ stopped' = TRUE
    /\ task' = Aborted(slot \ {"transport"})
    /\ UNCHANGED <<open, slot>> /\ UNCHANGED Setting

\* The next slot's task is awaited.
NextSlot == Order[CHOOSE i \in 1..4 : Order[i] \in slot /\ \A j \in 1..4 : Order[j] \in slot => i <= j]

\* Mutant: the handle is taken before the task has ended.
JoinTaking(c) ==
    /\ caller[c] = "joining" /\ slot # {}
    /\ slot' = slot \ {NextSlot}
    /\ UNCHANGED <<open, task, stopped, caller>> /\ UNCHANGED Setting

JoinTask(c) ==
    /\ caller[c] = "joining" /\ slot # {}
    /\ task[NextSlot] = "done"
    /\ slot' = slot \ {NextSlot}
    /\ UNCHANGED <<open, task, stopped, caller>> /\ UNCHANGED Setting

Returns(c) ==
    /\ caller[c] = "joining" /\ slot = {}
    /\ caller' = [caller EXCEPT ![c] = "returned"]
    /\ UNCHANGED <<open, task, slot, stopped>> /\ UNCHANGED Setting

\* A caller's future is dropped at any of its awaits.
Cancel(c) ==
    /\ caller[c] \in {"waiting", "joining"}
    /\ caller' = [caller EXCEPT ![c] = "cancelled"]
    /\ UNCHANGED <<open, task, slot, stopped>> /\ UNCHANGED Setting

\* The client is dropped.
DropClient ==
    /\ \A c \in Callers : caller[c] \notin {"waiting", "joining"} /\ setter = Idle
    /\ open' = FALSE /\ store' = NoStore
    /\ task' = Aborted(slot)
    /\ caller' = [c \in Callers |-> IF caller[c] = "out" THEN "cancelled" ELSE caller[c]]
    /\ UNCHANGED <<slot, stopped, setter, retaining, retained>>

\* A task ends when it is aborted, and of itself: the transport when told to,
\* the others once the client's subscriptions and queues are closed.
Ends(t) ==
    /\ \/ task[t] = "aborted"
       \/ task[t] = "running" /\ IF t = "transport" THEN stopped
                                 ELSE ~open /\ t \in {"reputation", "peerfinding"} /\ retaining = NoStore
    /\ task' = [task EXCEPT ![t] = "done"]
    /\ retaining' = IF t = "peerfinding" THEN NoStore ELSE retaining
    /\ UNCHANGED <<open, slot, stopped, caller, store, setter, retained>>

LifecycleNext ==
    \/ Attach \/ Detach \/ RetainLocal \/ LocalRetained \/ Announcement \/ AnnouncementRetained
    \/ DropClient
    \/ \E st \in Announcements : SetStore(st)
    \/ \E c \in Callers : Shutdown(c) \/ Lock(c) \/ JoinTask(c) \/ Returns(c) \/ Cancel(c)
    \/ \E t \in Tasks : Ends(t)

-----------------------------------------------------------------------------
\* Once a shutdown has returned no task of the client runs, although earlier
\* callers may have been cancelled while they waited for the tasks; and a
\* closed client has no store attached (shutdown_shared, close_all,
\* set_peer_announcement_store).
ShutdownJoins ==
    /\ (\E c \in Callers : caller[c] = "returned") => \A t \in Tasks : task[t] = "done"
    /\ ~open => store = NoStore

\* A shutdown that is not cancelled returns (shutdown_shared).
ShutdownReturns ==
    \A c \in Callers : caller[c] = "waiting" ~> caller[c] \in {"returned", "cancelled"}
=============================================================================
