---------------------------- MODULE FileEventBus ----------------------------
(***************************************************************************)
(* FileEventBus (crates/nostr-pubsub/src/file_store.rs): retained events   *)
(* kept in one snapshot file, written by one process at a time, with       *)
(* processes and the machine crashing at any step.                         *)
(*                                                                         *)
(* A publish runs as a blocking task that holds the bus's mutex from its   *)
(* first step to its last, even when the caller stops waiting for it.      *)
(* The file system is external: a rename is visible at once but survives   *)
(* a power failure only once the directory is synced, and a file renamed   *)
(* before its contents were synced may come back torn.                     *)
(***************************************************************************)
EXTENDS RetainedEvents

CONSTANTS
    Buses,   \* the processes that may open the path
    MaxTime  \* bound on the clock, in seconds

Nobody == "nobody"

ASSUME BusAssumption == MaxTime \in Nat /\ Nobody \notin Buses

VARIABLES
    now,      \* the clock
    file,     \* external: the snapshot at the path, as readers see it
    durable,  \* external: the snapshot a power failure would leave
    lease,    \* external: which bus holds the lock file, or Nobody
    bus,      \* state of each bus: its retained events, or Closed
    task,     \* the publish each bus is running, or Idle
    acked,    \* history: events whose publish was answered `accepted`
    displaced \* history: events a committed publish replaced or evicted

vars == <<now, file, durable, lease, bus, task, acked, displaced>>
disk == <<file, durable, lease>>

Closed == [open |-> FALSE, events |-> {}]
Opened(S) == [open |-> TRUE, events |-> S]
Idle == [step |-> "idle", event |-> 0, candidate |-> {}, snapshot |-> {},
         caller |-> FALSE]

\* A snapshot file: its events, whether its contents reached the disk, and
\* whether it came back torn.
File(S, synced) == [events |-> S, synced |-> synced, torn |-> FALSE]
Torn == [events |-> {}, synced |-> TRUE, torn |-> TRUE]

Init ==
    /\ now = 0
    /\ file = File({}, TRUE)
    /\ durable = File({}, TRUE)
    /\ lease = Nobody
    /\ bus = [b \in Buses |-> Closed]
    /\ task = [b \in Buses |-> Idle]
    /\ acked = {}
    /\ displaced = {}

Tick ==
    /\ now < MaxTime
    /\ now' = now + 1
    /\ UNCHANGED <<file, durable, lease, bus, task, acked, displaced>>

\* open: take the lock file, then read the snapshot.
Open(b) ==
    /\ ~bus[b].open
    /\ lease = Nobody
    /\ ~file.torn
    /\ lease' = b
    /\ bus' = [bus EXCEPT ![b] = Opened(Restore(file.events, now))]
    /\ UNCHANGED <<now, file, durable, task, acked, displaced>>

\* Mutant: the write does not keep the mutex once its caller is gone.
CloseUnlessAwaited(b) ==
    /\ bus[b].open
    /\ ~task[b].caller
    /\ lease' = Nobody
    /\ bus' = [bus EXCEPT ![b] = Closed]
    /\ UNCHANGED <<now, file, durable, task, acked, displaced>>

\* close: waits for the mutex, then drops the state and with it the lease.
Close(b) ==
    /\ bus[b].open
    /\ task[b] = Idle
    /\ lease' = Nobody
    /\ bus' = [bus EXCEPT ![b] = Closed]
    /\ UNCHANGED <<now, file, durable, task, acked, displaced>>

-----------------------------------------------------------------------------
(* publish *)

\* The candidate is the bus's state with the event inserted; nothing is
\* written if the event is not retained.
Publish(b, e) ==
    /\ bus[b].open
    /\ task[b] = Idle
    /\ Inserts(bus[b].events, e, now)
    /\ task' = [task EXCEPT ![b] =
            [step |-> "write", event |-> e, candidate |-> Insert(bus[b].events, e, now),
             snapshot |-> Snapshot(Insert(bus[b].events, e, now), now), caller |-> TRUE]]
    /\ UNCHANGED <<now, disk, bus, acked, displaced>>

\* The temporary file is written, then synced.
Write(b) ==
    /\ task[b].step = "write"
    /\ task' = [task EXCEPT ![b].step = "sync"]
    /\ UNCHANGED <<now, disk, bus, acked, displaced>>

Sync(b) ==
    /\ task[b].step = "sync"
    /\ task' = [task EXCEPT ![b].step = "persist"]
    /\ UNCHANGED <<now, disk, bus, acked, displaced>>

\* What the commit replaced or evicted.
Displaced(b) == bus[b].events \ task[b].candidate

\* Mutant: the file is renamed before its contents are synced.
PersistUnsynced(b) ==
    /\ task[b].step = "sync"
    /\ file' = File(task[b].snapshot, FALSE)
    /\ bus' = [bus EXCEPT ![b].events = task[b].candidate]
    /\ displaced' = displaced \cup Displaced(b)
    /\ task' = [task EXCEPT ![b].step = "syncDirectory"]
    /\ UNCHANGED <<now, durable, lease, acked>>

\* The rename makes the new snapshot visible; memory follows.
Persist(b) ==
    /\ task[b].step = "persist"
    /\ file' = File(task[b].snapshot, TRUE)
    /\ bus' = [bus EXCEPT ![b].events = task[b].candidate]
    /\ displaced' = displaced \cup Displaced(b)
    /\ task' = [task EXCEPT ![b].step = "syncDirectory"]
    /\ UNCHANGED <<now, durable, lease, acked>>

\* The caller, if it still waits, learns that its event is accepted.
Answer(b) ==
    LET answered == IF task[b].caller THEN {task[b].event} ELSE {} IN
        /\ acked' = acked \cup answered
        /\ displaced' = displaced \ answered

\* Mutant: the answer does not wait for the directory.
AnswerEarly(b) ==
    /\ task[b].step = "syncDirectory"
    /\ UNCHANGED durable
    /\ Answer(b)
    /\ task' = [task EXCEPT ![b] = Idle]
    /\ UNCHANGED <<now, file, lease, bus>>

\* The directory is synced and the caller is answered.
SyncDirectory(b) ==
    /\ task[b].step = "syncDirectory"
    /\ durable' = file
    /\ Answer(b)
    /\ task' = [task EXCEPT ![b] = Idle]
    /\ UNCHANGED <<now, file, lease, bus>>

\* Any file operation may fail; the task ends with an error and leaves what it
\* has done.
Fail(b) ==
    /\ task[b] # Idle
    /\ task' = [task EXCEPT ![b] = Idle]
    /\ UNCHANGED <<now, disk, bus, acked, displaced>>

\* The caller's future is dropped; the blocking task runs on.
Cancel(b) ==
    /\ task[b].caller
    /\ task' = [task EXCEPT ![b].caller = FALSE]
    /\ UNCHANGED <<now, disk, bus, acked, displaced>>

-----------------------------------------------------------------------------
(* Crashes *)

\* A process dies: its task and its state are gone, the lock is released, the
\* files stay.
Kill(b) ==
    /\ bus[b].open \/ task[b] # Idle
    /\ bus' = [bus EXCEPT ![b] = Closed]
    /\ task' = [task EXCEPT ![b] = Idle]
    /\ lease' = IF lease = b THEN Nobody ELSE lease
    /\ UNCHANGED <<now, file, durable, acked, displaced>>

\* What a power failure may leave at the path.
AfterPowerFailure == {durable, IF file.synced THEN file ELSE Torn}

PowerFailure ==
    /\ \E left \in AfterPowerFailure : file' = left /\ durable' = left
    /\ lease' = Nobody
    /\ bus' = [b \in Buses |-> Closed]
    /\ task' = [b \in Buses |-> Idle]
    /\ UNCHANGED <<now, acked, displaced>>

Next ==
    \/ Tick \/ PowerFailure
    \/ \E b \in Buses :
        \/ Open(b) \/ Close(b) \/ Kill(b)
        \/ \E e \in Events : Publish(b, e)
        \/ Write(b) \/ Sync(b) \/ Persist(b) \/ SyncDirectory(b) \/ Fail(b) \/ Cancel(b)

Spec == Init /\ [][Next]_vars

-----------------------------------------------------------------------------
(* Properties *)

TypeOK ==
    /\ now \in 0..MaxTime
    /\ {file, durable} \subseteq [events : SUBSET Accepted, synced : BOOLEAN, torn : BOOLEAN]
    /\ lease \in Buses \cup {Nobody}
    /\ bus \in [Buses -> [open : BOOLEAN, events : SUBSET Accepted]]
    /\ \A b \in Buses :
        /\ task[b].step \in {"idle", "write", "sync", "persist", "syncDirectory"}
        /\ task[b].candidate \subseteq Accepted /\ task[b].snapshot \subseteq Accepted
    /\ acked \subseteq Accepted /\ displaced \subseteq Accepted

\* No process writes the path unless it holds the lock file: not after close(),
\* and not on behalf of a caller that stopped waiting.
SingleWriter == \A b \in Buses : bus[b].open \/ task[b] # Idle => lease = b

\* An event whose publish was answered `accepted` is in every bus opened later,
\* across crashes of the process and of the machine, until it expires or a
\* committed publish replaces or evicts it (publish, open).
AckedKept ==
    \A b \in Buses : bus[b].open =>
        \A e \in acked : e \in bus[b].events \/ e \in displaced \/ ~IsCurrent(e, now)

\* No crash leaves a snapshot that open() cannot read.
NeverTorn == ~file.torn /\ ~durable.torn

\* What an open bus answers to queries is what a restart would restore.
MemoryMatchesFile ==
    \A b \in Buses : bus[b].open => Snapshot(bus[b].events, now) = Restore(file.events, now)

Within(S) ==
    /\ Cardinality(S) <= MaxEvents /\ Bytes(S) <= MaxBytes
    /\ \A e, f \in S : f \in Rivals(e, S) => e = f

\* Every retained snapshot respects the limits and has one winner per
\* replaceable coordinate, in memory and in the file (insert, restore).
SnapshotsWithin == Within(file.events) /\ \A b \in Buses : Within(bus[b].events)

\* The store keeps its word: one writer, nothing acknowledged lost, no snapshot
\* torn, memory and file in step and within the limits, through cancelled calls
\* and crashes at every file operation (open, publish, close).
StoreSound ==
    TypeOK /\ SingleWriter /\ AckedKept /\ NeverTorn /\ MemoryMatchesFile /\ SnapshotsWithin

\* A replaced event does not come back while the event that replaced it is
\* kept, whatever is published again (insert).
NoComeback ==
    [][\A b \in Buses : \A e \in bus'[b].events \ bus[b].events :
         bus[b].open => ~\E f \in bus[b].events : f \in Rivals(e, Events) /\ Supersedes(f, e)
                                                  /\ IsCurrent(f, now)]_vars
=============================================================================
