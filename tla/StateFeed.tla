------------------------------ MODULE StateFeed ------------------------------
(***************************************************************************)
(* The lifecycle feed: ModuleStateObserver buffers transitions under the   *)
(* caller's lock, a flush hands them to the sink afterwards, the sink      *)
(* posts them to the owner thread, and the module modules_state (external) *)
(* keeps, per module, the record with the highest seq. A snapshot of the   *)
(* registry, stamped from the same counter, fills in what happened before  *)
(* the consumer was up. Readiness comes from one-shot watches.             *)
(*                                                                         *)
(* The load path itself is ModuleLifecycle's; here an operation is its     *)
(* registry change and the records around it. Modules leaves modules_state *)
(* out: the feed does not describe its own consumer.                       *)
(***************************************************************************)
EXTENDS Naturals, Sequences

CONSTANTS
    Modules,        \* the modules the feed is about
    Threads,        \* API threads, Owner and Asio included
    Owner,          \* the thread that owns the core LogosAPI
    Asio,           \* the container's background thread
    None,
    MaxLoads,       \* bound: loads
    MaxConsumers    \* bound: loads of modules_state

ASSUME FeedAssumption ==
    /\ {Owner, Asio} \subseteq Threads /\ Owner # Asio
    /\ None \notin Modules
    /\ MaxLoads \in Nat
    /\ MaxConsumers \in Nat

VARIABLES
    pc, cur, batch,     \* per thread: step, module, the batch it took
    reg,                \* registry: loaded, published, epoch of each module
    objUp,              \* the module's object is acquirable (external truth)
    watches,            \* readiness watches that have not run
    expected,           \* expectedExits(): teardowns announced
    sink,               \* m_sink is set
    seq,                \* m_seq
    pending,            \* m_pending
    posted,             \* batches queued on the owner thread
    consumer,           \* modules_state: "down" | "loaded" | "ready"
    snapArmed,          \* a snapshot is waiting for modules_state to publish
    snap,               \* the listing being built
    store,              \* what modules_state holds
    last,               \* the last event stamped for each module
    outlived,           \* history: modules with a watch armed before a clear()
    loads, consumers

threadVars == <<pc, cur, batch>>
obsVars == <<sink, seq, pending, last>>
consVars == <<consumer, snapArmed, snap, store>>
bounds == <<outlived, loads, consumers>>
vars == <<threadVars, reg, objUp, watches, expected, obsVars, posted, consVars, bounds>>

States == {"unloaded", "loading", "loaded", "ready", "stopping", "error"}
NoRecord == [seq |-> 0, state |-> "none"]
Empty == [m \in Modules |-> NoRecord]
Down == [loaded |-> FALSE, published |-> "unknown", epoch |-> 0]

Init ==
    /\ pc = [t \in Threads |-> "idle"]
    /\ cur = [t \in Threads |-> None]
    /\ batch = [t \in Threads |-> <<>>]
    /\ reg = [m \in Modules |-> Down]
    /\ objUp = [m \in Modules |-> FALSE]
    /\ watches = {}
    /\ expected = {}
    /\ sink = FALSE /\ seq = 0 /\ pending = <<>>
    /\ last = Empty
    /\ posted = <<>>
    /\ consumer = "down" /\ snapArmed = FALSE
    /\ snap = Empty
    /\ store = Empty
    /\ outlived = {} /\ loads = 0 /\ consumers = 0

-----------------------------------------------------------------------------
(* The observer.                                                           *)

\* record: stamped and buffered, or dropped when nobody listens.
Record(m, s) ==
    IF sink
    THEN /\ seq' = seq + 1
         /\ pending' = Append(pending, [mod |-> m, state |-> s, seq |-> seq + 1])
         /\ last' = [last EXCEPT ![m] = [seq |-> seq + 1, state |-> s]]
         /\ UNCHANGED sink
    ELSE UNCHANGED obsVars

\* Move t on; its module is forgotten once it flushes.
Goto(t, l) == pc' = [pc EXCEPT ![t] = l]

\* What modules_state (external) makes of a list of records: for each module,
\* the newest of them and of what it holds.
Applied(st, recs) ==
    [m \in Modules |->
        LET mine == {j \in DOMAIN recs : recs[j].mod = m}
            all == {st[m]} \cup {[seq |-> recs[i].seq, state |-> recs[i].state] : i \in mine}
        IN CHOOSE r \in all : \A q \in all : q.seq <= r.seq]

\* A call reaches modules_state only once its object is published.
Deliver(recs) ==
    store' = IF consumer = "ready" THEN Applied(store, recs) ELSE store

\* flush: take the batch under the observer's mutex ...
FlushTakes(t) ==
    /\ pc[t] = "flush" /\ pending # <<>> /\ sink
    /\ batch' = [batch EXCEPT ![t] = pending]
    /\ pending' = <<>>
    /\ Goto(t, "dispatch")
    /\ UNCHANGED <<cur, reg, objUp, watches, sink, seq, last, expected,
                   posted, consVars, bounds>>

FlushEmpty(t) ==
    /\ pc[t] = "flush" /\ (pending = <<>> \/ ~sink)
    /\ Goto(t, "idle")
    /\ UNCHANGED <<cur, batch, reg, objUp, watches, obsVars, expected, posted,
                   consVars, bounds>>

\* ... and hand it to the sink outside it. pushTransitions drops it when
\* modules_state is not loaded; the owner thread sends inline, others post.
FlushDispatches(t) ==
    /\ pc[t] = "dispatch"
    /\ batch' = [batch EXCEPT ![t] = <<>>]
    /\ Goto(t, "idle")
    /\ IF consumer = "down"
       THEN UNCHANGED <<posted, store>>
       ELSE IF t = Owner
            THEN Deliver(batch[t]) /\ UNCHANGED posted
            ELSE posted' = Append(posted, batch[t]) /\ UNCHANGED store
    /\ UNCHANGED <<cur, reg, objUp, watches, obsVars, consumer, snapArmed, snap,
                   expected, bounds>>

\* The owner's event loop runs while the owner is not inside an operation.
OwnerSends ==
    /\ pc[Owner] = "idle" /\ posted # <<>>
    /\ posted' = Tail(posted)
    /\ Deliver(Head(posted))
    /\ UNCHANGED <<threadVars, reg, objUp, watches, obsVars, consumer, snapArmed,
                   snap, expected, bounds>>

-----------------------------------------------------------------------------
(* Operations, under the module's lock.                                    *)

Unlocked(m) == \A t \in Threads \ {Asio} : cur[t] # m

LoadBegins(t, m) ==
    /\ t # Asio /\ pc[t] = "idle" /\ Unlocked(m) /\ ~reg[m].loaded
    /\ loads < MaxLoads
    /\ loads' = loads + 1
    /\ cur' = [cur EXCEPT ![t] = m]
    /\ Record(m, "loading")
    /\ Goto(t, "commit")
    /\ UNCHANGED <<batch, reg, objUp, watches, expected, posted,
                   consVars, outlived, consumers>>

\* markLoaded.
LoadCommits(t) ==
    /\ pc[t] = "commit"
    /\ reg' = [reg EXCEPT ![cur[t]] =
                 [loaded |-> TRUE, published |-> "unknown", epoch |-> @.epoch + 1]]
    /\ objUp' = [objUp EXCEPT ![cur[t]] = FALSE]
    /\ Goto(t, "record")
    /\ UNCHANGED <<cur, batch, watches, obsVars, expected, posted, consVars, bounds>>

\* A load may fail, and does when its child died meanwhile.
LoadFails(t) ==
    /\ pc[t] \in {"commit", "doomed"}
    /\ Record(cur[t], "error")
    /\ cur' = [cur EXCEPT ![t] = None]
    /\ Goto(t, "flush")
    /\ UNCHANGED <<batch, reg, objUp, watches, expected, posted, consVars, bounds>>

LoadRecords(t) ==
    /\ pc[t] = "record"
    /\ Record(cur[t], "loaded")
    /\ Goto(t, "arm")
    /\ UNCHANGED <<cur, batch, reg, objUp, watches, expected, posted, consVars, bounds>>

\* armReadinessWatch: nothing without a sink; otherwise the watch carries the
\* epoch it was armed under.
ArmWatch(t) ==
    /\ pc[t] = "arm"
    /\ IF sink
       THEN /\ reg' = [reg EXCEPT ![cur[t]].published =
                          IF @ = "unknown" THEN "no" ELSE @]
            /\ watches' = watches \cup
                  {[mod |-> cur[t], epoch |-> reg[cur[t]].epoch,
                    fired |-> objUp[cur[t]]]}
       ELSE UNCHANGED <<reg, watches>>
    /\ cur' = [cur EXCEPT ![t] = None]
    /\ Goto(t, "flush")
    /\ UNCHANGED <<batch, objUp, obsVars, expected, posted, consVars, bounds>>

\* The module publishes its object: every watch on its name fires, and its
\* callback waits for the owner's event loop.
Publishes(m) ==
    /\ reg[m].loaded /\ ~objUp[m]
    /\ objUp' = [objUp EXCEPT ![m] = TRUE]
    /\ watches' = {[w EXCEPT !.fired = @ \/ w.mod = m] : w \in watches}
    /\ UNCHANGED <<threadVars, reg, obsVars, expected, posted, consVars, bounds>>

\* Mutant of MarksPublished: the epoch is not compared.
MarksAnyLoad(w) == reg[w.mod].loaded /\ reg[w.mod].published # "yes"

\* markPublished: the instance the watch was armed for is the one that is up.
MarksPublished(w) ==
    reg[w.mod].epoch = w.epoch /\ reg[w.mod].loaded /\ reg[w.mod].published # "yes"

\* Mutant of WatchRuns: the callback leaves the flush to somebody else.
WatchRunsUnflushed(w) ==
    /\ pc[Owner] = "idle" /\ w \in watches /\ w.fired
    /\ watches' = watches \ {w}
    /\ IF MarksPublished(w)
       THEN /\ reg' = [reg EXCEPT ![w.mod].published = "yes"]
            /\ Record(w.mod, "ready")
       ELSE UNCHANGED <<reg, obsVars>>
    /\ UNCHANGED <<pc, cur, batch, objUp, expected, posted, consVars, bounds>>

\* The watch's callback on the owner thread: mark, record, flush.
WatchRuns(w) ==
    /\ pc[Owner] = "idle" /\ w \in watches /\ w.fired
    /\ watches' = watches \ {w}
    /\ IF MarksPublished(w)
       THEN /\ reg' = [reg EXCEPT ![w.mod].published = "yes"]
            /\ Record(w.mod, "ready")
            /\ Goto(Owner, "flush")
       ELSE UNCHANGED <<reg, obsVars, pc>>
    /\ UNCHANGED <<cur, batch, objUp, expected, posted, consVars, bounds>>

\* markUnloaded keeps the epoch.
MarkUnloaded(m) ==
    /\ reg' = [reg EXCEPT ![m] =
                 [loaded |-> FALSE, published |-> "unknown", epoch |-> @.epoch]]
    /\ objUp' = [objUp EXCEPT ![m] = FALSE]

\* bound: an unload begins before the exit the callback is about, not between
\* the two, where each one would only be refused like the one before it.
UnloadBegins(t, m) ==
    /\ t # Asio /\ pc[t] = "idle" /\ Unlocked(m) /\ reg[m].loaded
    /\ cur[Asio] # m
    /\ cur' = [cur EXCEPT ![t] = m]
    /\ Record(m, "stopping")
    /\ Goto(t, "unload")
    /\ UNCHANGED <<batch, reg, objUp, watches, expected, posted, consVars, bounds>>

\* The container has dropped its entry for m: the process is gone, and the
\* callback that says so may still be on its way.
Gone(m) == cur[Asio] = m \/ ~reg[m].loaded

\* No entry: nothing to tear down, and `stopping` is walked back.
UnloadRefused(t) ==
    /\ pc[t] = "unload" /\ Gone(cur[t])
    /\ Record(cur[t], "loaded")
    /\ cur' = [cur EXCEPT ![t] = None]
    /\ Goto(t, "flush")
    /\ UNCHANGED <<batch, reg, objUp, watches, expected, posted, consVars, bounds>>

\* markExitExpected, before terminate.
UnloadAnnounces(t) ==
    /\ pc[t] = "unload" /\ ~Gone(cur[t])
    /\ expected' = expected \cup {cur[t]}
    /\ Goto(t, "terminate")
    /\ UNCHANGED <<cur, batch, reg, objUp, watches, obsVars, posted, consVars,
                   bounds>>

UnloadMarks(t) ==
    /\ pc[t] = "terminate"
    /\ MarkUnloaded(cur[t])
    /\ Goto(t, "unloaded")
    /\ UNCHANGED <<cur, batch, watches, expected, obsVars, posted, consVars, bounds>>

\* `unloaded` is recorded here unless the callback took the mark and did it.
UnloadRecords(t) ==
    /\ pc[t] = "unloaded"
    /\ expected' = expected \ {cur[t]}
    /\ IF cur[t] \in expected THEN Record(cur[t], "unloaded") ELSE UNCHANGED obsVars
    /\ cur' = [cur EXCEPT ![t] = None]
    /\ Goto(t, "flush")
    /\ UNCHANGED <<batch, reg, objUp, watches, posted, consVars, bounds>>

\* The container sees a module's process end, asked or not.
Exits(m) ==
    /\ pc[Asio] = "idle" /\ reg[m].loaded
    /\ cur' = [cur EXCEPT ![Asio] = m]
    /\ Goto(Asio, "exited")
    /\ UNCHANGED <<batch, reg, objUp, watches, expected, obsVars, posted, consVars,
                   bounds>>

\* onTerminated on the asio thread, at any later moment. A load under way takes
\* the termination, and will fail of it ...
LoadTakesExit(t) ==
    /\ pc[Asio] = "exited" /\ cur[t] = cur[Asio] /\ pc[t] \in {"commit", "doomed"}
    /\ MarkUnloaded(cur[t])
    /\ pc' = [pc EXCEPT ![t] = "doomed", ![Asio] = "idle"]
    /\ cur' = [cur EXCEPT ![Asio] = None]
    /\ UNCHANGED <<batch, watches, expected, obsVars, posted, consVars, bounds>>

\* ... otherwise: mark ...
Crashes ==
    /\ pc[Asio] = "exited"
    /\ \A t \in Threads : cur[t] = cur[Asio] => pc[t] \notin {"commit", "doomed"}
    /\ MarkUnloaded(cur[Asio])
    /\ Goto(Asio, "crash")
    /\ UNCHANGED <<cur, batch, watches, expected, obsVars, posted, consVars, bounds>>

\* ... record what the expected-exit mark makes of it, and flush.
CrashRecords ==
    /\ pc[Asio] = "crash"
    /\ Record(cur[Asio], IF cur[Asio] \in expected THEN "unloaded" ELSE "error")
    /\ expected' = expected \ {cur[Asio]}
    /\ cur' = [cur EXCEPT ![Asio] = None]
    /\ Goto(Asio, "flush")
    /\ UNCHANGED <<batch, reg, objUp, watches, posted, consVars, bounds>>

\* terminateAll (clearLoaded drops the flag and nothing else) and clear with the
\* scan after it (every entry is erased and made again). Both hold the fleet
\* lock exclusively, which the asio thread does not take; they take
\* modules_state down too, and leave the sink and the armed watches alone.
FleetOperation(newReg) ==
    /\ \A t \in Threads \ {Asio} : cur[t] = None /\ pc[t] # "disable"
    /\ consumer # "down" \/ \E m \in Modules : reg[m] # newReg[m]
    /\ reg' = newReg
    /\ objUp' = [m \in Modules |-> FALSE]
    /\ consumer' = "down" /\ store' = Empty
    /\ expected' = {}
    /\ UNCHANGED <<threadVars, watches, obsVars, posted, snapArmed, snap, loads,
                   consumers>>

TerminateAll ==
    /\ FleetOperation([m \in Modules |-> [reg[m] EXCEPT !.loaded = FALSE]])
    /\ UNCHANGED outlived

ClearAndDiscover ==
    /\ FleetOperation([m \in Modules |-> Down])
    /\ outlived' = outlived \cup {w.mod : w \in watches}

-----------------------------------------------------------------------------
(* modules_state, and the snapshot.                                        *)

\* The unload of modules_state holds its lock to the end.
Disabling == \E t \in Threads : pc[t] = "disable"

\* modules_state is loaded: enableModulesStateFeed sets the sink and waits for
\* it to publish.
ConsumerLoads(t) ==
    /\ t # Asio /\ pc[t] = "idle" /\ consumer = "down" /\ ~Disabling
    /\ consumers < MaxConsumers
    /\ consumers' = consumers + 1
    /\ consumer' = "loaded"
    /\ sink' = TRUE /\ snapArmed' = TRUE
    /\ Goto(t, "flush")
    /\ UNCHANGED <<cur, batch, reg, objUp, watches, seq, pending, last,
                   expected, posted, snap, store, outlived, loads>>

ConsumerPublishes ==
    /\ consumer = "loaded"
    /\ consumer' = "ready"
    /\ UNCHANGED <<threadVars, reg, objUp, watches, obsVars, expected, posted,
                   snapArmed, snap, store, bounds>>

\* What modules_state holds goes with its process. An unload of it goes on to
\* clear the sink; a death of it does not. One whose entry is gone is refused:
\* nothing changes.
ConsumerUnloads(t) ==
    /\ t # Asio /\ pc[t] = "idle" /\ consumer # "down" /\ ~Disabling
    /\ consumer' = "down" /\ store' = Empty
    /\ Goto(t, "disable")
    /\ UNCHANGED <<cur, batch, reg, objUp, watches, expected, obsVars, posted,
                   snapArmed, snap, bounds>>

\* disableModulesStateFeed.
SinkCleared(t) ==
    /\ pc[t] = "disable"
    /\ sink' = FALSE
    /\ Goto(t, "flush")
    /\ UNCHANGED <<cur, batch, reg, objUp, watches, expected, seq, pending, last,
                   posted, consVars, bounds>>

ConsumerDies ==
    /\ pc[Asio] = "idle" /\ consumer # "down"
    /\ consumer' = "down" /\ store' = Empty
    /\ Goto(Asio, "flush")
    /\ UNCHANGED <<cur, batch, reg, objUp, watches, obsVars, expected, posted, snapArmed,
                   snap, bounds>>

\* The state a listing gives a module.
Listed(m) ==
    IF ~reg[m].loaded THEN "unloaded"
    ELSE IF reg[m].published = "yes" THEN "ready" ELSE "loaded"

\* pushSnapshot, on the owner thread once modules_state has published:
\* allModulesInfo is one reading of the registry ...
SnapshotReads ==
    /\ pc[Owner] = "idle" /\ snapArmed /\ consumer = "ready"
    /\ snapArmed' = FALSE
    /\ snap' = [m \in Modules |-> [seq |-> 0, state |-> Listed(m)]]
    /\ Goto(Owner, "stamp")
    /\ UNCHANGED <<cur, batch, reg, objUp, watches, obsVars, expected, posted, consumer,
                   store, bounds>>

\* Mutant of SnapshotStamps: snapshots are numbered apart from transitions.
SnapshotStampsApart ==
    /\ pc[Owner] = "stamp"
    /\ snap' = [m \in Modules |-> [snap[m] EXCEPT !.seq = consumers]]
    /\ last' = snap'
    /\ Goto(Owner, "apply")
    /\ UNCHANGED <<cur, batch, reg, objUp, watches, sink, seq, pending, expected, posted,
                   consumer, snapArmed, store, bounds>>

\* ... whose records then draw their seqs from the observer's counter. A seq is
\* only ever compared with one of the same module: one number stands for all.
SnapshotStamps ==
    /\ pc[Owner] = "stamp"
    /\ seq' = seq + 1
    /\ snap' = [m \in Modules |-> [snap[m] EXCEPT !.seq = seq + 1]]
    /\ last' = snap'
    /\ Goto(Owner, "apply")
    /\ UNCHANGED <<cur, batch, reg, objUp, watches, sink, pending, expected, posted,
                   consumer, snapArmed, store, bounds>>

\* ... and are applied by a call that reaches whoever is up by then.
SnapshotApplies ==
    /\ pc[Owner] = "apply"
    /\ store' = IF consumer = "ready"
                THEN [m \in Modules |-> IF snap[m].seq > store[m].seq THEN snap[m]
                                        ELSE store[m]]
                ELSE store
    /\ snap' = Empty
    /\ Goto(Owner, "idle")
    /\ UNCHANGED <<cur, batch, reg, objUp, watches, obsVars, expected, posted, consumer,
                   snapArmed, bounds>>

-----------------------------------------------------------------------------

\* Nobody has a load left to make and nothing is under way.
Idle ==
    /\ \A t \in Threads : pc[t] = "idle"
    /\ posted = <<>>
    /\ ~\E w \in watches : w.fired

Finished == Idle /\ loads = MaxLoads /\ UNCHANGED vars

ThreadStep(t) ==
    \/ LoadCommits(t) \/ LoadFails(t) \/ LoadRecords(t) \/ ArmWatch(t)
    \/ UnloadRefused(t) \/ UnloadAnnounces(t) \/ UnloadMarks(t) \/ UnloadRecords(t)
    \/ LoadTakesExit(t) \/ SinkCleared(t)
    \/ FlushTakes(t) \/ FlushEmpty(t) \/ FlushDispatches(t)

Next ==
    \/ \E t \in Threads, m \in Modules : LoadBegins(t, m) \/ UnloadBegins(t, m)
    \/ \E t \in Threads : ThreadStep(t)
    \/ \E m \in Modules : Publishes(m) \/ Exits(m)
    \/ Crashes \/ CrashRecords
    \/ \E w \in watches : WatchRuns(w)
    \/ OwnerSends
    \/ TerminateAll \/ ClearAndDiscover
    \/ \E t \in Threads : ConsumerLoads(t) \/ ConsumerUnloads(t)
    \/ ConsumerPublishes \/ ConsumerDies
    \/ SnapshotReads \/ SnapshotStamps \/ SnapshotApplies
    \/ Finished

Spec == Init /\ [][Next]_vars

-----------------------------------------------------------------------------

Events == [mod : Modules, state : States, seq : Nat]
Records == [seq : Nat, state : States \cup {"none"}]
Entries == [loaded : BOOLEAN, published : {"unknown", "no", "yes"}, epoch : Nat]
Watches == [mod : Modules, epoch : Nat, fired : BOOLEAN]

\* Every variable of the feed has its type.
TypeOK ==
    /\ pc \in [Threads -> {"idle", "commit", "record", "arm", "doomed", "unload",
                           "terminate", "unloaded", "exited", "crash", "disable",
                           "flush", "dispatch", "stamp", "apply"}]
    /\ cur \in [Threads -> Modules \cup {None}]
    /\ batch \in [Threads -> Seq(Events)]
    /\ reg \in [Modules -> Entries]
    /\ objUp \in [Modules -> BOOLEAN]
    /\ watches \subseteq Watches
    /\ expected \subseteq Modules
    /\ sink \in BOOLEAN
    /\ seq \in Nat
    /\ pending \in Seq(Events)
    /\ posted \in Seq(Seq(Events))
    /\ consumer \in {"down", "loaded", "ready"}
    /\ snapArmed \in BOOLEAN
    /\ snap \in [Modules -> Records] /\ store \in [Modules -> Records]
    /\ last \in [Modules -> Records]
    /\ outlived \subseteq Modules
    /\ loads \in 0..MaxLoads /\ consumers \in 0..MaxConsumers

\* A loaded module is marked published only while its own object is up
\* (armReadinessWatch, markPublished): no callback of an earlier load, however
\* late the owner thread runs it, marks a later one. The exception is a watch
\* that was armed before clear() erased the entry its epoch was counted in: the
\* new entry counts from zero, and the old watch's epoch comes round again.
ReadyMeansPublished ==
    \A m \in Modules \ outlived :
        reg[m].loaded /\ reg[m].published = "yes" => objUp[m]

\* No transition is stranded: with a sink installed and every thread back, the
\* buffer is empty (ScopedModuleStateFlush, onTerminated, the watch callback),
\* so a consumer never waits for the next operation to hear of the last one.
NothingStranded == sink /\ Idle => pending = <<>>

\* modules_state converges on the newest event: once the snapshot is in and
\* nothing is under way, it holds, for each module, the last transition or
\* snapshot record stamped, whatever the order in which threads flushed, the
\* owner sent inline or from its queue, and modules_state came and went.
ConsumerHoldsLast ==
    Idle /\ consumer = "ready" /\ ~snapArmed => \A m \in Modules : store[m] = last[m]

=============================================================================
