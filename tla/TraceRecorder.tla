---------------------------- MODULE TraceRecorder ---------------------------
(***************************************************************************)
(* Recorder (aaf-trace) for one trace id: a document cached under a lock,  *)
(* a store written after the lock is released, and subscribers notified on *)
(* spawned tasks.  Callers are tasks that use the same trace id, such as   *)
(* two runs of one intent.                                                 *)
(***************************************************************************)
EXTENDS Integers, Sequences, FiniteSets

CONSTANTS
    Callers,
    Subscribers,     \* the subscribers there are
    MaxCalls         \* bound on the calls made

ASSUME RecorderAssumption == MaxCalls \in Nat

VARIABLES
    subscribers,\* the subscribers this recorder was built with
    cache,      \* the entry of the map `open`; Absent before the first open
    stored,     \* the document in the store
    pc,         \* caller: "idle", "putOpen", "insert", "put"
    snapshot,   \* caller: the document it is about to put
    calls,      \* calls made so far
    tasks,      \* spawned tasks: pairs of a subscriber and an observation
    delivered,  \* subscriber: the observations it received
    recorded,   \* history: the observations some document contained
    opens,      \* history: documents inserted by open
    settled     \* history: the latest call that had something to put ran alone
                \* and its put did not fail

caller == <<pc, snapshot>>
recorder == <<subscribers, cache, stored, caller, calls, tasks, delivered, recorded, opens, settled>>

\* An observation is named after the call that carries it.
Observations == 1..MaxCalls
Closed == {"Completed", "Failed", "Partial"}
Absent == [status |-> "Absent", steps |-> <<>>]
Opened == [status |-> "Running", steps |-> <<>>]
IsPrefixOf(s, t) == Len(s) <= Len(t) /\ s = SubSeq(t, 1, Len(s))

-----------------------------------------------------------------------------
RecorderInit ==
    /\ subscribers \subseteq Subscribers
    /\ cache = Absent /\ stored = Absent
    /\ pc = [c \in Callers |-> "idle"]
    /\ snapshot = [c \in Callers |-> Absent]
    /\ calls = 0
    /\ tasks = {}
    /\ delivered = [s \in Subscribers |-> {}]
    /\ recorded = {} /\ opens = 0 /\ settled = TRUE

Call(c) == pc[c] = "idle" /\ calls < MaxCalls /\ calls' = calls + 1

PutNext(c, label, doc) ==
    /\ pc' = [pc EXCEPT ![c] = label]
    /\ snapshot' = [snapshot EXCEPT ![c] = doc]
    /\ settled' = \A o \in Callers : pc[o] = "idle"

Done(c) ==
    /\ pc' = [pc EXCEPT ![c] = "idle"]
    /\ snapshot' = [snapshot EXCEPT ![c] = Absent]

\* open(): a fresh document goes to the store first and then into the cache,
\* whatever either held for this id.
Open(c) ==
    /\ Call(c)
    /\ PutNext(c, "putOpen", Opened)
    /\ UNCHANGED <<cache, stored, tasks, delivered, recorded, opens>>

Insert(c) ==
    /\ pc[c] = "insert"
    /\ cache' = snapshot[c]
    /\ opens' = opens + 1
    /\ Done(c)
    /\ UNCHANGED <<stored, calls, tasks, delivered, recorded, settled>>

\* notify_subscribers(): one task each, before the trace is looked up.
Notify(obs) == tasks' = tasks \cup {<<s, obs>> : s \in subscribers}

\* The observation obs leaves cached in the cache and copy to be put.
Take(c, obs, cached, copy) ==
    /\ cache' = cached
    /\ PutNext(c, "put", copy)
    /\ recorded' = recorded \cup {obs}

With(obs) == [cache EXCEPT !.steps = Append(@, obs)]

\* Mutant: the document is copied before the step is appended.
TakeStep_StaleCopy(c, obs) ==
    IF cache.status = "Running" THEN Take(c, obs, With(obs), cache)
    ELSE UNCHANGED <<cache, caller, recorded, settled>>

\* Append and copy under the lock, unless the trace is not open or closed.
TakeStep(c, obs) ==
    IF cache.status = "Running" THEN Take(c, obs, With(obs), With(obs))
    ELSE UNCHANGED <<cache, caller, recorded, settled>>

\* record_step(), up to the await of the store.  A step of another trace id,
\* one this recorder did not open, is refused after its notification.
RecordStep(c, mine) ==
    /\ Call(c)
    /\ Notify(calls')
    /\ IF mine THEN TakeStep(c, calls') ELSE UNCHANGED <<cache, caller, recorded, settled>>
    /\ UNCHANGED <<stored, delivered, opens>>

\* close(), likewise; it does not look at the status the document has.
Close(c) ==
    /\ Call(c)
    /\ IF cache.status # "Absent"
       THEN \E st \in Closed :
                /\ cache' = [cache EXCEPT !.status = st]
                /\ PutNext(c, "put", [cache EXCEPT !.status = st])
       ELSE UNCHANGED <<cache, caller, settled>>
    /\ UNCHANGED <<stored, tasks, delivered, recorded, opens>>

\* TraceStore::put replaces the document.
Put(c) ==
    /\ pc[c] \in {"put", "putOpen"}
    /\ stored' = snapshot[c]
    /\ IF pc[c] = "putOpen"
       THEN pc' = [pc EXCEPT ![c] = "insert"] /\ UNCHANGED snapshot
       ELSE Done(c)
    /\ UNCHANGED <<cache, calls, tasks, delivered, recorded, opens, settled>>

PutFails(c) ==
    /\ pc[c] \in {"put", "putOpen"}
    /\ Done(c)
    /\ settled' = FALSE
    /\ UNCHANGED <<cache, stored, calls, tasks, delivered, recorded, opens>>

\* A spawned task runs: tasks are scheduled in any order.
Deliver(s, obs) ==
    /\ <<s, obs>> \in tasks
    /\ tasks' = tasks \ {<<s, obs>>}
    /\ delivered' = [delivered EXCEPT ![s] = @ \cup {obs}]
    /\ UNCHANGED <<cache, stored, caller, calls, recorded, opens, settled>>

Proceed(c) == Put(c) \/ PutFails(c) \/ Insert(c)

-----------------------------------------------------------------------------
(* Properties.                                                             *)

\* The store may lag behind the cache: puts overtake each other and fail.  While
\* a trace was opened once at most the store holds no step the cache does not have, a
\* late put of an older snapshot shortens the stored trace and does not corrupt
\* it, and one later call that runs alone repairs it.
StoreFollowsTrace ==
    /\ opens <= 1 => IsPrefixOf(stored.steps, cache.steps)
    /\ settled /\ (\A c \in Callers : pc[c] = "idle") => stored = cache

=============================================================================
