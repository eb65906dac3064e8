--------------------------- MODULE ModuleLifecycle ---------------------------
(***************************************************************************)
(* The load / unload path of ModuleManager (module_manager.cpp): threads   *)
(* of the host application call the C API, the locks fleet -> module ->    *)
(* spawn order them, a container runs the module, and the container's      *)
(* background (asio) thread reports a module that exited on its own.       *)
(*                                                                         *)
(* One step is what happens between two points at which another thread,    *)
(* the asio thread or the operating system can interleave: taking a lock,  *)
(* one call on a mutex-protected table, one call into the container.       *)
(***************************************************************************)
EXTENDS Naturals, Sequences, FiniteSets

CONSTANTS
    Modules,        \* names known to the registry
    InProc,         \* those whose artifact is a Bare image: Native container
    Threads,        \* host threads that call the C API
    Main,           \* the Qt main thread, where supervised restarts run
    None,           \* no thread / no module
    Ops,            \* the entry points callers use in this instance
    LoadOrder,      \* m -> required closure of m, dependencies first
    BestEffort,     \* m -> members of LoadOrder[m] whose failure is tolerated
    TeardownOrder,  \* m -> m and its recursive dependents, leaves first
    MaxCalls,       \* bound: API calls per behaviour
    MaxSpawns       \* bound: launches that succeed per behaviour

AllOps == {"load", "loadDeps", "unload", "cascade", "terminateAll", "clear"}

\* Entry points that take fleetMutex() exclusively.
FleetOps == {"cascade", "terminateAll", "clear"}

\* Entry points that run loadModuleInternal.
LoadOps == {"load", "loadDeps"}

ASSUME LifecycleAssumption ==
    /\ InProc \subseteq Modules
    /\ Main \in Threads
    /\ None \notin Threads
    /\ None \notin Modules
    /\ Ops \subseteq AllOps
    /\ LoadOrder \in [Modules -> Seq(Modules)]
    /\ BestEffort \in [Modules -> SUBSET Modules]
    /\ TeardownOrder \in [Modules -> Seq(Modules)]
    /\ MaxCalls \in Nat
    /\ MaxSpawns \in Nat

\* d needs m: m is in d's required closure.
DependsOn(d, m) == d # m /\ \E i \in DOMAIN LoadOrder[d] : LoadOrder[d][i] = m

\* What unloadModuleWithDependents gets from the dependency resolver for a graph
\* without cycles (DependencyResolver, TeardownExact): the target is in the
\* order, and whatever needs a member comes before it.
ASSUME TeardownAssumption ==
    \A m \in Modules :
        /\ \E i \in 1..Len(TeardownOrder[m]) : TeardownOrder[m][i] = m
        /\ \A j \in 1..Len(TeardownOrder[m]), d \in Modules :
              DependsOn(d, TeardownOrder[m][j]) =>
                  \E i \in 1..(j - 1) : TeardownOrder[m][i] = d

VARIABLES
    \* ---- the calling threads ----
    pc,         \* where each thread is
    op,         \* the entry point it is inside
    target,     \* the module the caller named
    todo,       \* the modules its loop has left
    cur,        \* the module whose span it is in
    ok,         \* allSucceeded, what the call will return
    \* ---- locks ----
    fleetShared,    \* threads holding fleetMutex() shared
    fleetOwner,     \* the thread holding it exclusively, or None
    modLock,        \* moduleMutex(name) -> holder or None
    spawnLock,      \* spawnMutex() -> holder or None
    \* ---- tables ----
    known,      \* registry: names with a ModuleInfo
    loaded,     \* registry: names with loaded = true
    inFlight,   \* inFlightLoads(): "none" | "live" | "died"
    expected,   \* expectedExits()
    tokens,     \* TokenManager: names with a saved root token
    feed,       \* the last state the observer recorded for each name
    \* ---- container and its asio thread ----
    proc,       \* "none" no entry | "running" | "dead" exited, entry still there
    asioPc,     \* the termination callback the asio thread is inside
    asioMod,
    restarts,   \* restarts handed to the scheduler and not yet run
    \* ---- bounds ----
    calls,
    spawns

callVars   == <<op, target, todo, cur>>
threadVars == <<pc, callVars, ok>>
lockVars   == <<fleetShared, fleetOwner, modLock, spawnLock>>
tableVars  == <<known, loaded, inFlight, expected, tokens, feed>>
asioVars   == <<asioPc, asioMod>>
boundVars  == <<calls, spawns>>
envVars    == <<asioVars, restarts, boundVars>>
vars == <<threadVars, lockVars, tableVars, proc, envVars>>

LoadSteps ==
    {"LCheck", "LBegin", "LSpawn", "LLaunch", "LToken", "LTokMark", "LTokTerm",
     "LTokConsume", "LAwait", "LFailTerm", "LAbandon", "LCommit", "LPublish",
     "LRecord"}
UnloadSteps ==
    {"UCheck", "UHas", "UMark", "UTerm", "UDispatch", "UForget", "UConsume"}
SpanSteps == LoadSteps \cup UnloadSteps \cup {"Unlock"}
FleetSteps == {"AMark", "AKill", "ADispatch", "AClear", "AForget"}
Steps == {"Idle", "Fleet", "Next", "Lock", "Release", "Dispatch"}
           \cup SpanSteps \cup FleetSteps

States == {"unloaded", "loading", "loaded", "stopping", "error"}

Init ==
    /\ pc = [t \in Threads |-> "Idle"]
    /\ op = [t \in Threads |-> "load"]
    /\ target = [t \in Threads |-> None]
    /\ todo = [t \in Threads |-> <<>>]
    /\ cur = [t \in Threads |-> None]
    /\ ok = [t \in Threads |-> TRUE]
    /\ fleetShared = {}
    /\ fleetOwner = None
    /\ modLock = [m \in Modules |-> None]
    /\ spawnLock = None
    /\ known = Modules
    /\ loaded = {}
    /\ inFlight = [m \in Modules |-> "none"]
    /\ expected = {}
    /\ tokens = {}
    /\ feed = [m \in Modules |-> "unloaded"]
    /\ proc = [m \in Modules |-> "none"]
    /\ asioPc = "idle"
    /\ asioMod = None
    /\ restarts = {}
    /\ calls = 0
    /\ spawns = 0

-----------------------------------------------------------------------------
(* Helpers.                                                                *)

Goto(t, l) == pc' = [pc EXCEPT ![t] = l]

At(t, l) == pc[t] = l

\* ModuleStateObserver::record: the newest transition recorded for m.
Record(m, s) == feed' = [feed EXCEPT ![m] = s]

\* A best-effort dependency of the module the caller named: its failure never
\* reaches the return value.
Tolerated(t, m) == op[t] = "loadDeps" /\ m \in BestEffort[target[t]]

\* Leave cur's span with a failure.
Fail(t) ==
    /\ Goto(t, "Unlock")
    /\ ok' = [ok EXCEPT ![t] = @ /\ Tolerated(t, cur[t])]

\* DependencyResolver finds every required module.
Resolves(m) == \A i \in DOMAIN LoadOrder[m] : LoadOrder[m][i] \in known

-----------------------------------------------------------------------------
(* Entry: the C API call, and the fleet lock.                              *)

Call(t, o, m) ==
    /\ At(t, "Idle") /\ calls < MaxCalls
    /\ calls' = calls + 1
    /\ Goto(t, "Fleet")
    /\ op' = [op EXCEPT ![t] = o]
    /\ target' = [target EXCEPT ![t] = m]
    /\ ok' = [ok EXCEPT ![t] = TRUE]
    /\ UNCHANGED <<todo, cur, lockVars, tableVars, proc, asioVars, restarts,
                   spawns>>

\* A supervised restart runs from the main thread's event loop: restartModule,
\* or nothing at all if the module is no longer known.
RestartFires(m) ==
    /\ At(Main, "Idle") /\ m \in restarts /\ m \in known
    /\ restarts' = restarts \ {m}
    /\ Goto(Main, "Fleet")
    /\ op' = [op EXCEPT ![Main] = "load"]
    /\ target' = [target EXCEPT ![Main] = m]
    /\ ok' = [ok EXCEPT ![Main] = TRUE]
    /\ UNCHANGED <<todo, cur, lockVars, tableVars, proc, asioVars, boundVars>>

RestartUnknown(m) ==
    /\ At(Main, "Idle") /\ m \in restarts /\ m \notin known
    /\ restarts' = restarts \ {m}
    /\ UNCHANGED <<threadVars, lockVars, tableVars, proc, asioVars, boundVars>>

\* The call out to capability_module spins a nested event loop on the main
\* thread; a restart delivered inside it is re-entrant and refused.
RestartRefused(m) ==
    /\ At(Main, "LPublish") /\ m \in restarts
    /\ restarts' = restarts \ {m}
    /\ UNCHANGED <<threadVars, lockVars, tableVars, proc, asioVars, boundVars>>

\* Mutant of FleetShared: a chain does not wait for the exclusive holder.
FleetSharedBarging(t) ==
    /\ At(t, "Fleet") /\ op[t] \notin FleetOps
    /\ op[t] = "loadDeps" => Resolves(target[t])
    /\ fleetShared' = fleetShared \cup {t}
    /\ Goto(t, "Next")
    /\ todo' = [todo EXCEPT ![t] = IF op[t] = "loadDeps" THEN LoadOrder[target[t]]
                                   ELSE <<target[t]>>]
    /\ UNCHANGED <<op, target, cur, ok, fleetOwner, modLock, spawnLock,
                   tableVars, proc, envVars>>

\* shared_lock: single loads, chains and single unloads. A chain walks its
\* resolved order, the others the one module they name.
FleetShared(t) ==
    /\ At(t, "Fleet") /\ op[t] \notin FleetOps /\ fleetOwner = None
    /\ op[t] = "loadDeps" => Resolves(target[t])
    /\ fleetShared' = fleetShared \cup {t}
    /\ Goto(t, "Next")
    /\ todo' = [todo EXCEPT ![t] = IF op[t] = "loadDeps" THEN LoadOrder[target[t]]
                                   ELSE <<target[t]>>]
    /\ UNCHANGED <<op, target, cur, ok, fleetOwner, modLock, spawnLock,
                   tableVars, proc, envVars>>

\* An unresolved dependency fails the call before any load.
ResolveFails(t) ==
    /\ At(t, "Fleet") /\ op[t] = "loadDeps" /\ fleetOwner = None
    /\ ~Resolves(target[t])
    /\ fleetShared' = fleetShared \cup {t}
    /\ Goto(t, "Release")
    /\ ok' = [ok EXCEPT ![t] = FALSE]
    /\ UNCHANGED <<callVars, fleetOwner, modLock, spawnLock, tableVars, proc,
                   envVars>>

\* Mutant of LockFleet: exclusive, but only against other exclusive holders.
LockFleetIgnoringShared(t) ==
    /\ At(t, "Fleet") /\ fleetOwner = None
    /\ fleetOwner' = t
    /\ UNCHANGED <<op, target, cur, fleetShared, modLock, spawnLock,
                   tableVars, proc, envVars>>

\* unique_lock: terminateAll, clear and the unload cascade.
LockFleet(t) ==
    /\ At(t, "Fleet") /\ fleetOwner = None /\ fleetShared = {}
    /\ fleetOwner' = t
    /\ UNCHANGED <<op, target, cur, fleetShared, modLock, spawnLock,
                   tableVars, proc, envVars>>

FleetExclusive(t) ==
    /\ op[t] \in {"terminateAll", "clear"}
    /\ LockFleet(t)
    /\ Goto(t, "AMark")
    /\ UNCHANGED <<todo, ok>>

\* Mutant of CascadeBegins: the target goes down before its dependents.
CascadeRootFirst(t) ==
    /\ op[t] = "cascade" /\ target[t] \in loaded
    /\ LockFleet(t)
    /\ Goto(t, "Next")
    /\ todo' = [todo EXCEPT ![t] =
                   <<target[t]>> \o SelectSeq(TeardownOrder[target[t]],
                                               LAMBDA m : m # target[t])]
    /\ UNCHANGED ok

\* The cascade takes down the target and its dependents; those not loaded now
\* are skipped in the loop, and none can become loaded while the lock is held.
CascadeBegins(t) ==
    /\ op[t] = "cascade" /\ target[t] \in loaded
    /\ LockFleet(t)
    /\ Goto(t, "Next")
    /\ todo' = [todo EXCEPT ![t] = TeardownOrder[target[t]]]
    /\ UNCHANGED ok

CascadeRefused(t) ==
    /\ op[t] = "cascade" /\ target[t] \notin loaded
    /\ LockFleet(t)
    /\ Goto(t, "Release")
    /\ ok' = [ok EXCEPT ![t] = FALSE]
    /\ UNCHANGED todo

\* The loop over the resolved order, and the checks made before moduleMutex.
LoopEnds(t) ==
    /\ At(t, "Next") /\ todo[t] = <<>>
    /\ Goto(t, "Release")
    /\ UNCHANGED <<callVars, ok, lockVars, tableVars, proc, envVars>>

\* A cascade skips what is already down.
SkipModule(t) ==
    /\ At(t, "Next") /\ todo[t] # <<>>
    /\ op[t] = "cascade" /\ Head(todo[t]) \notin loaded
    /\ todo' = [todo EXCEPT ![t] = Tail(@)]
    /\ UNCHANGED <<pc, op, target, cur, ok, lockVars, tableVars, proc, envVars>>

\* A load of an unknown name fails.
UnknownModule(t) ==
    /\ At(t, "Next") /\ todo[t] # <<>>
    /\ op[t] \in LoadOps /\ Head(todo[t]) \notin known
    /\ todo' = [todo EXCEPT ![t] = Tail(@)]
    /\ ok' = [ok EXCEPT ![t] = @ /\ Tolerated(t, Head(todo[t]))]
    /\ UNCHANGED <<pc, op, target, cur, lockVars, tableVars, proc, envVars>>

\* Mutant of NextModule: the loop does not advance.
NextModuleKeepsHead(t) ==
    /\ At(t, "Next") /\ todo[t] # <<>>
    /\ op[t] = "cascade" => Head(todo[t]) \in loaded
    /\ op[t] \in LoadOps => Head(todo[t]) \in known
    /\ cur' = [cur EXCEPT ![t] = Head(todo[t])]
    /\ Goto(t, "Lock")
    /\ UNCHANGED <<op, target, todo, ok, lockVars, tableVars, proc, envVars>>

NextModule(t) ==
    /\ At(t, "Next") /\ todo[t] # <<>>
    /\ op[t] = "cascade" => Head(todo[t]) \in loaded
    /\ op[t] \in LoadOps => Head(todo[t]) \in known
    /\ todo' = [todo EXCEPT ![t] = Tail(@)]
    /\ cur' = [cur EXCEPT ![t] = Head(todo[t])]
    /\ Goto(t, "Lock")
    /\ UNCHANGED <<op, target, ok, lockVars, tableVars, proc, envVars>>

\* Mutant of LockModule: the per-module mutex is not taken in turn.
LockModuleNoWait(t) ==
    /\ At(t, "Lock")
    /\ modLock' = [modLock EXCEPT ![cur[t]] = t]
    /\ Goto(t, IF op[t] \in LoadOps THEN "LCheck" ELSE "UCheck")
    /\ UNCHANGED <<callVars, ok, fleetShared, fleetOwner, spawnLock,
                   tableVars, proc, envVars>>

LockModule(t) ==
    /\ At(t, "Lock") /\ modLock[cur[t]] = None
    /\ modLock' = [modLock EXCEPT ![cur[t]] = t]
    /\ Goto(t, IF op[t] \in LoadOps THEN "LCheck" ELSE "UCheck")
    /\ UNCHANGED <<callVars, ok, fleetShared, fleetOwner, spawnLock,
                   tableVars, proc, envVars>>

UnlockModule(t) ==
    /\ At(t, "Unlock")
    /\ modLock' = [modLock EXCEPT ![cur[t]] = None]
    /\ cur' = [cur EXCEPT ![t] = None]
    /\ Goto(t, "Next")
    /\ UNCHANGED <<op, target, todo, ok, fleetShared, fleetOwner, spawnLock,
                   tableVars, proc, envVars>>

ReleaseFleet(t) ==
    /\ At(t, "Release")
    /\ fleetShared' = fleetShared \ {t}
    /\ fleetOwner' = IF fleetOwner = t THEN None ELSE fleetOwner
    /\ Goto(t, "Dispatch")
    /\ UNCHANGED <<callVars, ok, modLock, spawnLock, tableVars, proc, envVars>>

\* ~ScopedModuleStateFlush: the batch goes to the sink after the locks.
DispatchBatch(t) ==
    /\ At(t, "Dispatch")
    /\ Goto(t, "Idle")
    /\ target' = [target EXCEPT ![t] = None]
    /\ todo' = [todo EXCEPT ![t] = <<>>]
    /\ UNCHANGED <<op, cur, ok, lockVars, tableVars, proc, envVars>>

-----------------------------------------------------------------------------
(* loadModuleInternal, under moduleMutex(cur).                             *)

\* Already loaded is a successful no-op.
AlreadyLoaded(t) ==
    /\ At(t, "LCheck") /\ cur[t] \in loaded
    /\ Goto(t, "Unlock")
    /\ UNCHANGED <<callVars, ok, lockVars, tableVars, proc, envVars>>

\* A gate (container policy, protocol, dependency versions, no loader) refuses,
\* and the refusal is recorded as `error`.
GateRefuses(t) ==
    /\ At(t, "LCheck") /\ cur[t] \notin loaded
    /\ Record(cur[t], "error")
    /\ Fail(t)
    /\ UNCHANGED <<callVars, lockVars, known, loaded, inFlight, expected,
                   tokens, proc, envVars>>

\* Mutant of LoadStarts: the already-loaded check is not made under the lock.
LoadStartsUnchecked(t) ==
    /\ At(t, "LCheck")
    /\ Record(cur[t], "loading")
    /\ Goto(t, "LBegin")
    /\ UNCHANGED <<callVars, ok, lockVars, known, loaded, inFlight, expected,
                   tokens, proc, envVars>>

LoadStarts(t) ==
    /\ At(t, "LCheck") /\ cur[t] \notin loaded
    /\ Record(cur[t], "loading")
    /\ Goto(t, "LBegin")
    /\ UNCHANGED <<callVars, ok, lockVars, known, loaded, inFlight, expected,
                   tokens, proc, envVars>>

BeginLoadAttempt(t) ==
    /\ At(t, "LBegin")
    /\ inFlight' = [inFlight EXCEPT ![cur[t]] = "live"]
    /\ Goto(t, "LSpawn")
    /\ UNCHANGED <<callVars, ok, lockVars, known, loaded, expected, tokens,
                   feed, proc, envVars>>

LockSpawn(t) ==
    /\ At(t, "LSpawn") /\ spawnLock = None
    /\ spawnLock' = t
    /\ Goto(t, "LLaunch")
    /\ UNCHANGED <<callVars, ok, fleetShared, fleetOwner, modLock, tableVars,
                   proc, envVars>>

\* loader->load under spawnMutex. A container refuses a name it already has an
\* entry for, and may fail to start the module.
Launch(t) ==
    /\ At(t, "LLaunch") /\ proc[cur[t]] = "none" /\ spawns < MaxSpawns
    /\ spawnLock' = None
    /\ proc' = [proc EXCEPT ![cur[t]] = "running"]
    /\ spawns' = spawns + 1
    /\ Goto(t, "LToken")
    /\ UNCHANGED <<callVars, ok, fleetShared, fleetOwner, modLock, tableVars,
                   asioVars, restarts, calls>>

LaunchFails(t) ==
    /\ At(t, "LLaunch")
    /\ spawnLock' = None
    /\ Goto(t, "LAbandon")
    /\ UNCHANGED <<callVars, ok, fleetShared, fleetOwner, modLock, tableVars,
                   proc, envVars>>

\* loader->sendToken: needs an entry to write to, and may fail with one.
SendToken(t) ==
    /\ At(t, "LToken") /\ proc[cur[t]] # "none"
    /\ Goto(t, "LAwait")
    /\ UNCHANGED <<callVars, ok, lockVars, tableVars, proc, envVars>>

TokenFails(t) ==
    /\ At(t, "LToken")
    /\ Goto(t, "LTokMark")
    /\ UNCHANGED <<callVars, ok, lockVars, tableVars, proc, envVars>>

TokenFailedMark(t) ==
    /\ At(t, "LTokMark")
    /\ expected' = expected \cup {cur[t]}
    /\ Goto(t, "LTokTerm")
    /\ UNCHANGED <<callVars, ok, lockVars, known, loaded, inFlight, tokens,
                   feed, proc, envVars>>

\* loader->terminate of a failed attempt. The subprocess container drops its
\* callback; the Native one calls it here, and the attempt swallows it.
TerminateAttempt(t, from, to) ==
    /\ At(t, from)
    /\ Goto(t, to)
    /\ proc' = [proc EXCEPT ![cur[t]] = "none"]
    /\ IF cur[t] \in InProc /\ proc[cur[t]] # "none"
       THEN /\ loaded' = loaded \ {cur[t]}
            /\ inFlight' = [inFlight EXCEPT ![cur[t]] = "died"]
       ELSE UNCHANGED <<loaded, inFlight>>
    /\ UNCHANGED <<callVars, ok, lockVars, known, expected, tokens, feed,
                   envVars>>

TokenFailedTerminate(t) == TerminateAttempt(t, "LTokTerm", "LTokConsume")

TokenFailedConsume(t) ==
    /\ At(t, "LTokConsume")
    /\ expected' = expected \ {cur[t]}
    /\ Goto(t, "LAbandon")
    /\ UNCHANGED <<callVars, ok, lockVars, known, loaded, inFlight, tokens,
                   feed, proc, envVars>>

\* loader->awaitLoad: Loaded and Unknown go on to commit, Failed does not. A
\* verdict may describe a child that has exited since it reported.
AwaitLoad(t) ==
    /\ At(t, "LAwait")
    /\ Goto(t, "LCommit")
    /\ UNCHANGED <<callVars, ok, lockVars, tableVars, proc, envVars>>

VerdictFailed(t) ==
    /\ At(t, "LAwait")
    /\ Goto(t, "LFailTerm")
    /\ UNCHANGED <<callVars, ok, lockVars, tableVars, proc, envVars>>

VerdictFailedTerminate(t) == TerminateAttempt(t, "LFailTerm", "LAbandon")

\* Mutant of AbandonLoadAttempt: the in-flight entry is left behind.
AbandonLeaksAttempt(t) ==
    /\ At(t, "LAbandon")
    /\ Record(cur[t], "error")
    /\ Fail(t)
    /\ UNCHANGED <<callVars, lockVars, known, loaded, inFlight, expected,
                   tokens, proc, envVars>>

\* abandonLoadAttempt, then the failed attempt is recorded.
AbandonLoadAttempt(t) ==
    /\ At(t, "LAbandon")
    /\ inFlight' = [inFlight EXCEPT ![cur[t]] = "none"]
    /\ Record(cur[t], "error")
    /\ Fail(t)
    /\ UNCHANGED <<callVars, lockVars, known, loaded, expected, tokens, proc,
                   envVars>>

\* Mutant of CommitLoad: what happened during the attempt is not looked at.
CommitDespiteDeath(t) ==
    /\ At(t, "LCommit")
    /\ inFlight' = [inFlight EXCEPT ![cur[t]] = "none"]
    /\ loaded' = loaded \cup {cur[t]}
    /\ known' = known \cup {cur[t]}
    /\ Goto(t, "LPublish")
    /\ UNCHANGED <<callVars, ok, lockVars, expected, tokens, feed, proc,
                   envVars>>

\* commitLoad: close the attempt and mark loaded as one step ...
CommitLoad(t) ==
    /\ At(t, "LCommit") /\ inFlight[cur[t]] # "died"
    /\ inFlight' = [inFlight EXCEPT ![cur[t]] = "none"]
    /\ loaded' = loaded \cup {cur[t]}
    /\ known' = known \cup {cur[t]}
    /\ Goto(t, "LPublish")
    /\ UNCHANGED <<callVars, ok, lockVars, expected, tokens, feed, proc,
                   envVars>>

\* ... unless a termination arrived during it.
CommitRefused(t) ==
    /\ At(t, "LCommit") /\ inFlight[cur[t]] = "died"
    /\ inFlight' = [inFlight EXCEPT ![cur[t]] = "none"]
    /\ Record(cur[t], "error")
    /\ Fail(t)
    /\ UNCHANGED <<callVars, lockVars, known, loaded, expected, tokens, proc,
                   envVars>>

\* saveToken, notifyCapabilityModule and the restriction refresh.
PublishLoad(t) ==
    /\ At(t, "LPublish")
    /\ tokens' = tokens \cup {cur[t]}
    /\ Goto(t, "LRecord")
    /\ UNCHANGED <<callVars, ok, lockVars, known, loaded, inFlight, expected,
                   feed, proc, envVars>>

\* Mutant of RecordLoaded: a state name the feed does not define.
RecordRunning(t) ==
    /\ At(t, "LRecord")
    /\ Record(cur[t], "running")
    /\ Goto(t, "Unlock")
    /\ UNCHANGED <<callVars, ok, lockVars, known, loaded, inFlight, expected,
                   tokens, proc, envVars>>

RecordLoaded(t) ==
    /\ At(t, "LRecord")
    /\ Record(cur[t], "loaded")
    /\ Goto(t, "Unlock")
    /\ UNCHANGED <<callVars, ok, lockVars, known, loaded, inFlight, expected,
                   tokens, proc, envVars>>

-----------------------------------------------------------------------------
(* unloadModuleInternal, under moduleMutex(cur).                           *)

UnloadStarts(t) ==
    /\ At(t, "UCheck") /\ cur[t] \in loaded
    /\ Record(cur[t], "stopping")
    /\ Goto(t, "UHas")
    /\ UNCHANGED <<callVars, ok, lockVars, known, loaded, inFlight, expected,
                   tokens, proc, envVars>>

UnloadNotLoaded(t) ==
    /\ At(t, "UCheck") /\ cur[t] \notin loaded
    /\ Fail(t)
    /\ UNCHANGED <<callVars, lockVars, tableVars, proc, envVars>>

UnloadHasModule(t) ==
    /\ At(t, "UHas") /\ proc[cur[t]] # "none"
    /\ Goto(t, "UMark")
    /\ UNCHANGED <<callVars, ok, lockVars, tableVars, proc, envVars>>

\* loader->hasModule said no: nothing was torn down, `stopping` is walked back.
UnloadNoEntry(t) ==
    /\ At(t, "UHas") /\ proc[cur[t]] = "none"
    /\ Record(cur[t], "loaded")
    /\ Fail(t)
    /\ UNCHANGED <<callVars, lockVars, known, loaded, inFlight, expected,
                   tokens, proc, envVars>>

UnloadMark(t) ==
    /\ At(t, "UMark")
    /\ expected' = expected \cup {cur[t]}
    /\ Goto(t, "UTerm")
    /\ UNCHANGED <<callVars, ok, lockVars, known, loaded, inFlight, tokens,
                   feed, proc, envVars>>

\* loader->terminate. The subprocess container drops its callback.
UnloadTerminate(t) ==
    /\ At(t, "UTerm") /\ cur[t] \notin InProc
    /\ proc' = [proc EXCEPT ![cur[t]] = "none"]
    /\ Goto(t, "UForget")
    /\ UNCHANGED <<callVars, ok, lockVars, tableVars, envVars>>

\* The Native container calls onTerminated here, on this thread: it marks the
\* module unloaded, consumes the mark, records `unloaded` and flushes.
UnloadTerminateInProc(t) ==
    /\ At(t, "UTerm") /\ cur[t] \in InProc
    /\ proc' = [proc EXCEPT ![cur[t]] = "none"]
    /\ loaded' = loaded \ {cur[t]}
    /\ expected' = expected \ {cur[t]}
    /\ Record(cur[t], "unloaded")
    /\ Goto(t, "UDispatch")
    /\ UNCHANGED <<callVars, ok, lockVars, known, inFlight, tokens, envVars>>

\* observer.flush() from inside the callback.
UnloadDispatch(t) ==
    /\ At(t, "UDispatch")
    /\ Goto(t, "UForget")
    /\ UNCHANGED <<callVars, ok, lockVars, tableVars, proc, envVars>>

\* markUnloaded, supervisor.forget, restriction refresh.
UnloadForget(t) ==
    /\ At(t, "UForget")
    /\ loaded' = loaded \ {cur[t]}
    /\ Goto(t, "UConsume")
    /\ UNCHANGED <<callVars, ok, lockVars, known, inFlight, expected, tokens,
                   feed, proc, envVars>>

\* Mutant of UnloadConsume: the mark is dropped and nothing is recorded.
UnloadConsumeSilently(t) ==
    /\ At(t, "UConsume")
    /\ expected' = expected \ {cur[t]}
    /\ Goto(t, "Unlock")
    /\ UNCHANGED <<callVars, ok, lockVars, known, loaded, inFlight, tokens,
                   feed, proc, envVars>>

\* The mark is the guard: whoever consumes it records `unloaded`, once.
UnloadConsume(t) ==
    /\ At(t, "UConsume")
    /\ expected' = expected \ {cur[t]}
    /\ IF cur[t] \in expected THEN Record(cur[t], "unloaded") ELSE UNCHANGED feed
    /\ Goto(t, "Unlock")
    /\ UNCHANGED <<callVars, ok, lockVars, known, loaded, inFlight, tokens,
                   proc, envVars>>

-----------------------------------------------------------------------------
(* terminateAll and clear, under fleetMutex() exclusive.                   *)

MarkAllLoadedExitsExpected(t) ==
    /\ At(t, "AMark")
    /\ expected' = expected \cup loaded
    /\ Goto(t, "AKill")
    /\ UNCHANGED <<callVars, ok, lockVars, known, loaded, inFlight, tokens,
                   feed, proc, envVars>>

\* loaderRegistry().terminateAll(): every container, subprocess entries without
\* a callback, Native ones with it.
TerminateAllContainers(t) ==
    /\ At(t, "AKill")
    /\ LET reported == {m \in InProc : proc[m] # "none"}
       IN /\ loaded' = loaded \ reported
          /\ expected' = expected \ reported
          /\ feed' = [m \in Modules |->
                        IF m \notin reported THEN feed[m]
                        ELSE IF m \in expected THEN "unloaded" ELSE "error"]
    /\ proc' = [m \in Modules |-> "none"]
    /\ Goto(t, "ADispatch")
    /\ UNCHANGED <<callVars, ok, lockVars, known, inFlight, tokens, envVars>>

FleetDispatch(t) ==
    /\ At(t, "ADispatch")
    /\ Goto(t, "AClear")
    /\ UNCHANGED <<callVars, ok, lockVars, tableVars, proc, envVars>>

\* Mutant of ClearExpectedExits: marks nobody consumed are kept.
KeepExpectedExits(t) ==
    /\ At(t, "AClear")
    /\ Goto(t, "AForget")
    /\ UNCHANGED <<callVars, ok, lockVars, tableVars, proc, envVars>>

ClearExpectedExits(t) ==
    /\ At(t, "AClear")
    /\ expected' = {}
    /\ Goto(t, "AForget")
    /\ UNCHANGED <<callVars, ok, lockVars, known, loaded, inFlight, tokens,
                   feed, proc, envVars>>

\* registry.clearLoaded() for terminateAll, registry.clear() for clear.
ClearLoaded(t) ==
    /\ At(t, "AForget")
    /\ loaded' = {}
    /\ known' = IF op[t] = "clear" THEN {} ELSE known
    /\ Goto(t, "Release")
    /\ UNCHANGED <<callVars, ok, lockVars, inFlight, expected, tokens, feed,
                   proc, envVars>>

-----------------------------------------------------------------------------
(* The module process, the container's asio thread, discovery.             *)

\* A subprocess exits on its own.
ModuleExits(m) ==
    /\ m \notin InProc /\ proc[m] = "running"
    /\ proc' = [proc EXCEPT ![m] = "dead"]
    /\ UNCHANGED <<threadVars, lockVars, tableVars, envVars>>

\* The asio thread reaps it: the entry goes, then onTerminated(m) runs.
AsioReaps(m) ==
    /\ asioPc = "idle" /\ proc[m] = "dead"
    /\ proc' = [proc EXCEPT ![m] = "none"]
    /\ asioPc' = "settle"
    /\ asioMod' = m
    /\ UNCHANGED <<threadVars, lockVars, tableVars, restarts, boundVars>>

\* Mutant of AsioSettles: only an attempt in flight is told.
AsioSettlesAttemptOnly ==
    /\ asioPc = "settle"
    /\ IF inFlight[asioMod] # "none"
       THEN /\ inFlight' = [inFlight EXCEPT ![asioMod] = "died"]
            /\ asioPc' = "idle" /\ asioMod' = None
       ELSE asioPc' = "consume" /\ UNCHANGED <<inFlight, asioMod>>
    /\ UNCHANGED <<threadVars, lockVars, known, loaded, expected, tokens, feed,
                   proc, restarts, boundVars>>

\* recordTerminationDuringLoad: mark unloaded, and hand the termination to the
\* attempt in flight if there is one.
AsioSettles ==
    /\ asioPc = "settle"
    /\ loaded' = loaded \ {asioMod}
    /\ IF inFlight[asioMod] # "none"
       THEN /\ inFlight' = [inFlight EXCEPT ![asioMod] = "died"]
            /\ asioPc' = "idle" /\ asioMod' = None
       ELSE asioPc' = "consume" /\ UNCHANGED <<inFlight, asioMod>>
    /\ UNCHANGED <<threadVars, lockVars, known, expected, tokens, feed, proc,
                   restarts, boundVars>>

\* consumeExpectedExit: an announced teardown is recorded as `unloaded`.
AsioConsumes ==
    /\ asioPc = "consume"
    /\ IF asioMod \in expected
       THEN /\ expected' = expected \ {asioMod}
            /\ Record(asioMod, "unloaded")
            /\ asioPc' = "idle" /\ asioMod' = None
       ELSE asioPc' = "report" /\ UNCHANGED <<expected, feed, asioMod>>
    /\ UNCHANGED <<threadVars, lockVars, known, loaded, inFlight, tokens,
                   proc, restarts, boundVars>>

\* A death nobody announced: `error`, flushed, then superviseUnexpectedExit,
\* whose verdict (ModuleSupervisor) either schedules a restart or does not.
AsioReportsCrash ==
    /\ asioPc = "report"
    /\ Record(asioMod, "error")
    /\ asioPc' = "idle" /\ asioMod' = None
    /\ \/ restarts' = restarts \cup {asioMod}
       \/ UNCHANGED restarts
    /\ UNCHANGED <<threadVars, lockVars, known, loaded, inFlight, expected,
                   tokens, proc, boundVars>>

\* discoverInstalledModules after a clear: every installed name is known again.
Discover ==
    /\ known # Modules
    /\ known' = Modules
    /\ UNCHANGED <<threadVars, lockVars, loaded, inFlight, expected, tokens,
                   feed, proc, envVars>>

-----------------------------------------------------------------------------

ThreadStep(t) ==
    \/ FleetShared(t) \/ ResolveFails(t) \/ FleetExclusive(t)
    \/ CascadeBegins(t) \/ CascadeRefused(t)
    \/ LoopEnds(t) \/ SkipModule(t) \/ UnknownModule(t) \/ NextModule(t)
    \/ LockModule(t) \/ UnlockModule(t) \/ ReleaseFleet(t) \/ DispatchBatch(t)
    \/ AlreadyLoaded(t) \/ GateRefuses(t) \/ LoadStarts(t) \/ BeginLoadAttempt(t)
    \/ LockSpawn(t) \/ Launch(t) \/ LaunchFails(t) \/ SendToken(t) \/ TokenFails(t)
    \/ TokenFailedMark(t) \/ TokenFailedTerminate(t) \/ TokenFailedConsume(t)
    \/ AwaitLoad(t) \/ VerdictFailed(t) \/ VerdictFailedTerminate(t)
    \/ AbandonLoadAttempt(t)
    \/ CommitLoad(t) \/ CommitRefused(t) \/ PublishLoad(t) \/ RecordLoaded(t)
    \/ UnloadStarts(t) \/ UnloadNotLoaded(t) \/ UnloadHasModule(t)
    \/ UnloadNoEntry(t) \/ UnloadMark(t) \/ UnloadTerminate(t) \/ UnloadTerminateInProc(t)
    \/ UnloadDispatch(t) \/ UnloadForget(t) \/ UnloadConsume(t)
    \/ MarkAllLoadedExitsExpected(t) \/ TerminateAllContainers(t)
    \/ FleetDispatch(t) \/ ClearExpectedExits(t) \/ ClearLoaded(t)

AsioStep == AsioSettles \/ AsioConsumes \/ AsioReportsCrash

\* Every thread is back with its caller and the calls are spent.
Finished ==
    /\ calls = MaxCalls /\ \A t \in Threads : At(t, "Idle")
    /\ asioPc = "idle" /\ restarts = {} /\ \A m \in Modules : proc[m] # "dead"
    /\ UNCHANGED vars

Next ==
    \/ \E t \in Threads, o \in Ops, m \in Modules : Call(t, o, m)
    \/ \E m \in Modules : RestartFires(m) \/ RestartUnknown(m) \/ RestartRefused(m)
    \/ \E t \in Threads : ThreadStep(t)
    \/ \E m \in Modules : ModuleExits(m) \/ AsioReaps(m)
    \/ AsioStep
    \/ Discover
    \/ Finished

\* A thread inside a call and the asio thread keep running; nothing obliges a
\* caller to call, a module to exit, or a scan to happen.
Fairness ==
    /\ \A t \in Threads : WF_vars(ThreadStep(t))
    /\ \A m \in Modules : WF_vars(AsioReaps(m)) /\ WF_vars(RestartFires(m) \/ RestartUnknown(m))
    /\ WF_vars(AsioStep)

Spec == Init /\ [][Next]_vars
FairSpec == Spec /\ Fairness

-----------------------------------------------------------------------------
(* Properties.                                                             *)

\* Between beginLoadAttempt and abandonLoadAttempt / commitLoad.
AttemptSteps ==
    {"LSpawn", "LLaunch", "LToken", "LTokMark", "LTokTerm", "LTokConsume",
     "LAwait", "LFailTerm", "LAbandon", "LCommit"}

\* Nobody is inside a call and no termination is being reported.
Quiescent ==
    /\ \A t \in Threads : At(t, "Idle")
    /\ asioPc = "idle" /\ \A m \in Modules : proc[m] # "dead"

\* Every variable holds a value of its type: the thread, lock, registry, mark,
\* attempt and process tables of module_manager.cpp.
TypeOK ==
    /\ pc \in [Threads -> Steps]
    /\ op \in [Threads -> AllOps]
    /\ target \in [Threads -> Modules \cup {None}]
    /\ todo \in [Threads -> Seq(Modules)]
    /\ cur \in [Threads -> Modules \cup {None}]
    /\ ok \in [Threads -> BOOLEAN]
    /\ fleetShared \subseteq Threads
    /\ fleetOwner \in Threads \cup {None}
    /\ modLock \in [Modules -> Threads \cup {None}]
    /\ spawnLock \in Threads \cup {None}
    /\ known \subseteq Modules
    /\ loaded \subseteq Modules
    /\ inFlight \in [Modules -> {"none", "live", "died"}]
    /\ expected \subseteq Modules
    /\ tokens \subseteq Modules
    /\ feed \in [Modules -> States]
    /\ proc \in [Modules -> {"none", "running", "dead"}]
    /\ asioPc \in {"idle", "settle", "consume", "report"}
    /\ asioMod \in Modules \cup {None}
    /\ restarts \subseteq Modules
    /\ calls \in Nat
    /\ spawns \in Nat

\* A death is never lost (commitLoad, recordTerminationDuringLoad): a module
\* the registry calls loaded has a container entry, or its termination is about
\* to be settled, or a teardown that has already terminated it is about to
\* clear the flag. No interleaving leaves a module that is not there marked
\* loaded for good.
NoLostDeath ==
    \A m \in loaded :
        \/ proc[m] # "none"
        \/ asioPc = "settle" /\ asioMod = m
        \/ \E t \in Threads : pc[t] = "UForget" /\ cur[t] = m
        \/ \E t \in Threads : pc[t] \in {"ADispatch", "AClear", "AForget"}

\* An expected-exit mark never outlives the teardown that set it
\* (markExitExpected, consumeExpectedExit, clearExpectedExits), so a module
\* that is reloaded and then crashes cannot inherit an earlier orderly exit.
MarksScoped ==
    \A m \in expected :
        \/ \E t \in Threads :
              cur[t] = m /\ pc[t] \in {"UTerm", "UForget", "UConsume",
                                       "LTokTerm", "LTokConsume"}
        \/ \E t \in Threads : pc[t] \in {"AKill", "ADispatch", "AClear"}

\* An in-flight entry never outlives its attempt (beginLoadAttempt,
\* abandonLoadAttempt, commitLoad). A leaked entry would swallow every later
\* death of that name: recordTerminationDuringLoad would hand it to a load
\* that no longer exists.
AttemptsScoped ==
    \A m \in Modules :
        inFlight[m] # "none" =>
            \E t \in Threads : cur[t] = m /\ pc[t] \in AttemptSteps

\* Two callers racing on one name are one load: a thread past the
\* already-loaded check of loadModuleInternal never finds the registry calling
\* that module loaded, nor another thread inside an attempt on it.
OneLoadPerModule ==
    \A t \in Threads :
        pc[t] \in AttemptSteps =>
            /\ cur[t] \notin loaded
            /\ \A u \in Threads : pc[u] \in AttemptSteps /\ cur[u] = cur[t] => u = t

\* The fleet lock orders whole-set operations against everything else
\* (fleetMutex): while a thread is inside a cascade, terminateAll or clear, no
\* other thread is between NextModule and ReleaseFleet.
FleetExclusion ==
    \A t, u \in Threads :
        /\ t # u
        /\ fleetOwner = t
        => pc[u] \in {"Idle", "Fleet", "Dispatch"}

\* Leaves first (unloadModuleWithDependents): when a cascade terminates a
\* module, no loaded module that depends on it still has a process.
CascadeLeavesFirst ==
    \A t \in Threads :
        op[t] = "cascade" /\ pc[t] \in {"UForget", "UConsume"} =>
            \A d \in loaded : DependsOn(d, cur[t]) => proc[d] = "none"

\* A cascade that returns success left neither the target nor any dependent
\* loaded (unloadModuleWithDependents): no load slipped in between.
CascadeComplete ==
    \A t \in Threads :
        op[t] = "cascade" /\ pc[t] = "Release" /\ ok[t] =>
            /\ target[t] \notin loaded
            /\ \A d \in loaded : ~DependsOn(d, target[t])

\* Once everybody is idle, no module sits in `loading` or `stopping`: each
\* early return and each teardown recorded how it ended (loadModuleInternal,
\* unloadModuleInternal and onTerminated between them).
FeedNotStuck == Quiescent => \A m \in Modules : feed[m] \notin {"loading", "stopping"}

\* Every C API call returns: the lock order fleet -> module -> spawn admits no
\* deadlock with the container's callbacks, and no loop runs forever.
EveryCallReturns == \A t \in Threads : pc[t] = "Fleet" ~> pc[t] = "Idle"

-----------------------------------------------------------------------------
(* The abstract specification this one implements.                         *)

\* What a caller of isLoaded and of the container would make of m.
StatusOf(m) ==
    CASE m \in loaded /\ proc[m] = "running" -> "up"
      [] m \in loaded /\ proc[m] # "running" -> "lost"
      [] m \notin loaded /\ inFlight[m] # "none" -> "starting"
      [] OTHER -> "down"

Contract == INSTANCE ModuleContract WITH status <- [m \in Modules |-> StatusOf(m)]

\* The lifecycle implements its contract (loadModuleInternal,
\* unloadModuleInternal, terminateAll, onTerminated): a module comes up only
\* through one attempt that began while it was down, a lost one comes back only
\* through down, and a fleet operation moves modules down only, with no attempt
\* open anywhere, whatever the threads and callbacks interleave.
ImplementsContract == Contract!Spec

\* With fair threads it also keeps the contract's promise of progress: it decides
\* every attempt, and takes every module that died or was terminated off the
\* loaded list (onTerminated on the asio thread,
\* or the teardown that beat it).
ContractProgress == Contract!Progress

-----------------------------------------------------------------------------
(* The inductive invariant behind the theorems of ModuleLifecycleProofs.   *)

InsideFleet == {"Next", "Lock", "Release"} \cup SpanSteps \cup FleetSteps

\* A thread past a lock of module_manager.cpp holds it, and holds it alone: the
\* fleet lock from FleetShared / FleetExclusive to ReleaseFleet, the module
\* lock for the whole span on cur.
LocksHeld ==
    /\ fleetOwner # None => fleetShared = {}
    /\ \A t \in Threads : pc[t] \in InsideFleet => t \in fleetShared \/ fleetOwner = t
    /\ \A t \in Threads : pc[t] \in FleetSteps => fleetOwner = t
    /\ \A t \in Threads : pc[t] \in SpanSteps => modLock[cur[t]] = t

\* The names a step dereferences are there.
NamesBound ==
    /\ \A t \in Threads : pc[t] # "Idle" => target[t] \in Modules
    /\ \A t \in Threads : pc[t] \in SpanSteps \cup {"Lock"} => cur[t] \in Modules
    /\ asioPc # "idle" => asioMod \in Modules

\* Inside an attempt the entry of inFlightLoads() is there and the module is
\* down; from launch to commit, a container entry that has gone has been
\* counted by the attempt or is about to be.
AttemptTracked ==
    \A t \in Threads :
        /\ pc[t] \in AttemptSteps => inFlight[cur[t]] # "none"
        /\ pc[t] \in AttemptSteps \cup {"LBegin"} => cur[t] \notin loaded
        /\ pc[t] \in {"LToken", "LAwait", "LCommit"} =>
              \/ inFlight[cur[t]] = "died"
              \/ proc[cur[t]] # "none"
              \/ asioPc = "settle" /\ asioMod = cur[t]

\* The thread holding m's lock is at one of these steps, on m.
HolderAt(m, steps) ==
    modLock[m] \in Threads /\ cur[modLock[m]] = m /\ pc[modLock[m]] \in steps

\* The thread holding the fleet lock exclusively is at one of these steps.
OwnerAt(steps) == fleetOwner \in Threads /\ pc[fleetOwner] \in steps

\* AttemptsScoped, MarksScoped and NoLostDeath with their witness named: it is
\* always the holder of the lock that the step runs under.
AttemptsOwned == \A m \in Modules : inFlight[m] # "none" => HolderAt(m, AttemptSteps)

MarksOwned ==
    \A m \in expected :
        \/ HolderAt(m, {"UTerm", "UForget", "UConsume", "LTokTerm", "LTokConsume"})
        \/ OwnerAt({"AKill", "ADispatch", "AClear"})

DeathsOwned ==
    \A m \in loaded :
        \/ proc[m] # "none"
        \/ asioPc = "settle" /\ asioMod = m
        \/ HolderAt(m, {"UForget"})
        \/ OwnerAt({"ADispatch", "AClear", "AForget"})

-----------------------------------------------------------------------------
(* What the comments and documents say and the code does not do.           *)

\* A module process belongs to a module the registry calls loaded, or to a
\* load or unload in progress.
NoOrphanProcess ==
    \A m \in Modules :
        proc[m] = "running" =>
            \/ m \in loaded
            \/ \E t \in Threads : cur[t] = m /\ pc[t] \in SpanSteps
            \/ fleetOwner # None
=============================================================================
