# logos-liblogos in TLA+

`liblogos_core` discovers modules, resolves their dependencies, loads them into
containers (a subprocess, an in-process image, or a web page), unloads them,
notices when they die, brings them back under a supervision policy, and tells
the module `modules_state` about every step. This directory models that: one
TLA+ module per component, small TLC instances of each, and TLAPS proofs of the
safety properties of eight of the ten components.

Paths below are relative to `src/src/logos_core/` of the repository.

## The system

| Component | State | Operations | Hard because |
|---|---|---|---|
| Module manager (`module_manager.cpp`) | fleet lock, one lock per module, spawn lock, expected-exit marks, in-flight load attempts, tokens | load (with dependencies), unload, cascade, terminateAll, clear, the termination callback | host threads, the Qt main thread and the container's asio thread cross at every step |
| Supervisor (`module_supervisor.cpp`) | policy, death times per module, scheduled restarts | setPolicy, onUnexpectedExit, forget, clear, the timer | timers outlive the reason for them |
| State feed (`module_state_observer.cpp`, `module_manager.cpp` 676-868) | pending transitions, sequence counter, sink, load epochs, readiness watches | record, flush, snapshot, watch | batches and snapshots reach the consumer from several threads |
| Dependency resolver (`dependency_resolver.cpp`) | none (a pure algorithm) | resolve, the cascade's teardown order | cycles, missing modules, optional branches |
| Registry (`module_registry.cpp`) | one entry per name, with edges and their inverses | discover, processModule, addEmbeddedBareModule, the load marks, clear | scans race loads; entries change hands between embedded, packaged and loaded |
| In-process container (`inproc_container.cpp`, `bare_module_glue.cpp`, `bare_module_abi.cpp`) | instances, dispatch state, queued calls, worker, retained images | launch, callMethod, terminate | a worker may be inside the image, for ever, when it is unloaded |
| Web container (`web_container.cpp`, `web_module_glue.cpp`) | instances, parked instances, the router's gate, waits | launch, awaitLoad, terminate, a page's death, calls in and out | nested event loops on the main thread; deaths posted by name |
| Web call router (`web_call_router.cpp`) | the page's sinks, the gate, subscription ids | onCall, onSubscribe, onUnsubscribe, onConnectionClosed, emissions, stop | four threads: delivery, main, emitter and the one that stops it |
| Gates (`module_manager.cpp` 870-1010, `dependency_gate.cpp`, `protocol_gate.h`, `module_loader_registry.cpp`) | the container policy; versions, formats and constraints in the registry | the gates a load asks, the choice of a loader, the container's own gate | every question reads something else at another moment |
| Access policy (`access_policy.cpp`, `module_manager.cpp` 476-640) | the installed policy, tokens, what capability_module was told | setAccessPolicy, the derivation, pushes on load and unload | pushes are inline on one thread and queued on the others |

The manager calls the resolver for an order, the registry for descriptors and
the loaded flags, and a loader's container to launch and terminate. Containers
call back `onTerminated`: on an asio thread for subprocesses, on the unloading
thread for in-process modules, on the main thread for pages. The callback settles
the load attempt or the loaded flag, consumes the expected-exit mark, records a
transition and asks the supervisor, which posts a restart to the main thread.
Records are buffered and flushed to the sink when a scope ends.

What makes each part correct is listed with its runs below, and the places where
it could go wrong are the `hazards` of `PROJECT.json`.

## Modules

Each `X.tla` has its `MCX.tla` with the values of set-valued constants, and
`XProofs.tla` holds its theorems; WebProofs holds those of both web modules, and
LoadPlanProofs those of the resolver and of the gates. An operator whose comment starts with "Mutant of" is a deliberately wrong variant of
the definition after it, used to show that a property can fail; no specification
uses one.

### ModuleLifecycle

`module_manager.cpp`, the load and unload paths. Each thread has a program
counter `pc`, a work list `todo`, the module it is on (`cur`) and its result
(`ok`). The labels follow the code: `Fleet` (the fleet lock), `Next`/`Lock` (the
loop and the module's lock), `L...` for `loadModuleInternal`, `U...` for
`unloadModuleInternal`, `A...` for `terminateAll` and `clear`, `Release` and
`Dispatch` for the end of the scope and `ScopedModuleStateFlush`. `inFlight` is
`inFlightLoads()`, `expected` is `expectedExits()`, `proc` is the container's
entry, `feed` the last recorded transition. The asio thread has a program counter
of its own (`settle`, `consume`, `report`), so a death may be between any two of
its steps while threads run.

The module ends with the refinement mapping to ModuleContract: `StatusOf(m)` is
`starting` while an attempt for `m` is in flight, `up` if it is listed as loaded
and its process is there, `lost` if it is listed and the process is gone.

The order of a chain and of a cascade are constants here: DependencyResolver
covers how they are computed. Whether a gate refuses a load, a launch fails, a
token cannot be delivered or a verdict is bad is free choice. Whether the
supervisor grants a restart is free choice too, so every verdict of
ModuleSupervisor is among the behaviours.

### ModuleContract

The abstract specification: what a caller may rely on about the life of one
module, as four states (`down`, `starting`, `up`, `lost`) and the moves between
them, and that neither a load nor a death stays undecided. It has no threads,
locks or callbacks, and it says what the lifecycle may never do: list a module
nobody is loading, begin a second attempt inside the first, or run a fleet
operation across a load.

### ModuleSupervisor

Time is a counter. `deaths` keeps what `onUnexpectedExit` prunes and appends,
`timers` the restarts that were granted and have not fired. A load an operator asks
for re-arms its target (`OperatorLoads`) and then brings up a chain (`Loads`), whose
other members are not re-armed; `entering` counts the calls between the two. `LOGOS_SUPERVISION`
is a list of parsed fields: readable numbers keep their value until they are cast
to an `int` of width `IntMax`. `history` grows only, unlike `deaths`: the properties
compare the two.

### Subsequences

`Keep(s, I)`, the members of a sequence at the positions `I`: the erase of a
`remove_if` in the supervisor, the filtered copy of the load order in a cascade. It is
written by rank and not by recursion, so that it can be reasoned about.

### StateFeed

The observer's buffer, counter and sink; the flush in its three parts (take under
the mutex, dispatch to the owner thread, send); the snapshot in its three (read,
stamp, apply); the readiness watch with its epoch. An unload announces an expected
exit (`expected`), and one the container has no entry for takes the mark back. A death
is the container's callback, which finds the registry entry and the mark as they are
when it runs, at any later moment and beside an unload of the same module; the model
lets an unload begin only while the asio thread is not recording a death of that very
module. The consumer is external and modelled from how the code addresses it: of the records it is sent and the one it
holds it keeps, per module, the one with the highest sequence number. Its own unload
is two steps, the mark and the sink taken away; transitions of `modules_state` itself are not
recorded in this model, so a refused unload of it changes nothing here. What in-process
containers report from inside `terminateAll` is ModuleLifecycle's. `outlived` is a history variable: the modules with a watch
armed before a `clear()`.

### DependencyResolver

`resolve` as a state machine over a graph and a set of installed modules chosen in
`Init` (in the code each callback is a registry read of its own, so a scan in the middle
of a resolve mixes two graphs; that is not modelled), with edges as sets: the breadth-first walk,
the best-effort rounds, the two topological sorts. Where the code iterates an
unordered container the step picks any element. The walks inside a step (a candidate
branch, a module's dependents) and the reference definitions use `Reach`, the least
set around its start that the graph does not lead out of: that is what a
queue-and-seen loop has seen when its queue is empty. `Acyclic` and `Respects` are
written over it and over positions.

### ModuleRegistry

The table `info`, packages on `disk`, scans in two steps (membership sampled at
the start, table and reports at the end, the registry lock held between), and the
load marks with the manager's steps around them. The snapshot for a consumer is two
steps, as in `buildSnapshotListing`: the listing is read (`listing`), and numbered and
applied later. A module discovered in between is in neither, and `overtaken` remembers
it. Versions and formats are LoadGates', metadata text is left out, names that
`isValidModuleName` rejects are only in the proof (`TypeOK`); the disk is read in one
step of the scan.

### BareDispatch

One in-process module over several instances: calls posted to the worker's event
loop, the claim that decides who answers a queued call, the bounded wait,
abandonment, and the images kept mapped. A handler may spin the worker's loop, so
invocations nest, and may never return, and neither may the image when it is asked
whether it is ready to be unloaded (`aboutToUnload()`).

### WebContainer

One web module over several launches. The API thread loads and unloads; the main
thread is a stack of nested frames, `in` (a call waiting in `awaitPage`), `out`
(work of the page under the router's gate) and `lock` (blocked on the manager's
module lock). Posted work (a death, a sweep, an unload) runs on top of whatever is
on the stack. Calls are accepted as long as the LogosAPI exists. Loads from the
main thread are represented by the API thread. Subscriptions are WebRouter's.

### WebRouter

One router from the page's first message to the end of `stop()`. The delivery
thread handles a message in the steps the code has (read `m_routes`, change
`m_sinks` under its mutex, post); the main thread runs posted work under the gate,
and a call may spin a nested loop, so `frames` is a stack; the emitter looks a sink
up and writes to it under the gate; `stop()` takes the sinks, withdraws them,
closes the gate, waits for the frames of other threads and drops the routes. The
client that arms subscriptions is external: it may refuse one. `failed`, `late` and
`underway` are history, and name the exceptions of the properties.

### LoadGates

`loadModuleInternal` up to the launch: path, format, container policy, the stamp
in the file, each dependency entry and each installed version are separate reads,
and between any two of them a package may be replaced on disk, the directories
rescanned or the policy changed. `disk` is what is installed, `table` what the last
scan recorded, `mapped` the bare images this process keeps mapped: an image opened once, be
it refused afterwards, is never unmapped, and a later load of the same path runs it
again whatever the file holds by then. `inst` is what a running module runs (`pkg`),
what was on disk when it was launched (`found`) and the policy it was judged under.
`outdated` is history: the modules whose package, or whose
dependency's, changed since their load began. What satisfies a version range is
liblgx's, so a range is the set of versions it accepts.

### AccessRestrictions

The policy, the tokens, and every push to capability_module, with the owner
thread's queue: a push from the owner runs inline, one from a worker is queued and
reads the registry when it runs. capability_module is external and modelled as the
table it is told; a restart empties it. `edges` are the dependencies the registry
has from the last scan: a rescan may change them, of a loaded module too, and pushes
nothing. `died`, `overtaken` and `redeclared` are history, and name the exceptions of
the properties.

The lifecycle's type invariant is checked by its run and proved; that of the feed,
the registry, both containers, the supervisor and the resolver is proved; in the
other proofs the types are a conjunct of the inductive invariant (`Typed`,
`GatesTyped`). The runs are spent on the properties below.

## Runs

Passing runs:

| Run | Bounds | Shows |
|---|---|---|
| `lifecycle` | 2 modules with a dependency, one in-process; 2 threads, all six operations; 3 calls, 3 launches | exclusion of fleet operations, one load per module, cascades leaves-first and complete; no death lost, marks and attempts scoped, the feed never left in `loading` or `stopping` |
| `liveness` | 2 modules, the dependency optional; 2 threads, 2 calls | the lifecycle implements ModuleContract, and its progress under fair threads: every attempt is decided, every death noticed; every call returns |
| `supervisor` | 2 modules, 4 ticks, 3 operator calls | restarts within the budget in every window; exhaustion only when earned |
| `feed` | 1 module, the owner and the asio thread, 2 loads, 2 lives of `modules_state` | readiness belongs to the loaded instance; nothing stranded; the consumer ends with the last record |
| `resolve` | every required graph on three modules, every optional graph of at most two edges, every installed and loaded set, three modes | order, verdict, best-effort set and teardown order are the reference ones; termination |
| `registry` | 2 names; 4 package shapes; 2 disk changes, 1 load | inverse edges exact, but for an entry `markLoaded` made up; what is known was reported, but for what the snapshot overtakes |
| `bare` | 3 calls, 2 instances | one answer per call, and always one if handlers return; nothing freed under the worker, images accounted; terminate returns if the image returns from `aboutToUnload()` |
| `web` | 3 launches, 3 calls, depth 3 | lost pages outlive the calls they were lost under; sweeps and unloads end, except in the wait `Deadlocked` names |
| `router` | 1 pair, 2 calls, 4 messages about subscriptions, `stop()` on the main or another thread | what is armed is what the page is subscribed to; nothing runs after `stop()` and nothing stays armed, but for two races; every call is answered |
| `gates` | a module, its dependency and an exempt one; 2 threads, 11 packages, two images of one path among them, 2 reinstalls, 1 policy change | what runs is what the policy and the protocol gate admit, and stands in the declared ranges, unless its package or a dependency's changed meanwhile or the dependency runs a retained image |
| `access` | 3 modules (one requires, one optionally needs the third), owner and 2 workers, a rescan that drops or restores an edge, 5 operations | once the pushes are through, capability_module restricts every target to its rightful callers and knows each module by its present token, but for the named cases |

Two threads are enough for each lock's races, because every property is about a
pair of actors plus the asio or main thread, which are separate processes of the
model. Two modules are the smallest dependency; two launches of one name are the
smallest reload, three let a stale event of the first cross the third. Three graph
nodes give every cycle shape up to length three, a diamond-free branch and a
missing leaf. Subscriptions of different pairs share no state but the gate, so one
pair and four messages (subscribe, withdraw, subscribe again, repeat) give every
order of its posted work; two calls let one nest in the other. Two reinstalls
change a module and its dependency, or one of them twice, inside one load. Five
operations are enough to load a target and its dependent, lose one and load both
again. A second load is what tells a stale readiness watch from a timely one, and a
second life of `modules_state` what a batch or a snapshot of the first may reach. Two images at one path and two reinstalls are a load, an upgrade and the
reload that runs the old code. The counters (`MaxCalls`, `MaxSpawns`, `MaxLoads`, `MaxDisk`,
`MaxLaunches`, `MaxDepth`, `MaxTime`, `MaxOps`, `MaxSubs`, `MaxInstalls`,
`MaxPolicies`) only bound how much happens in a behaviour. Symmetry is used over
the threads of `gates`, the workers of `access` and the modules of `supervisor`, which
check invariants only. `feed` has a view that replaces sequence numbers by their ranks:
only their order is ever looked at, and the next one is larger than all of them.
Deadlock is checked except in the web run, where nothing obliges anybody to act
once the bounds are spent.

The exceptions in the properties are necessary: each was taken out in turn, and
TLC then reaches the case its comment describes.

One run ends in a violation. It states what a comment says, and the code does
something else; `findings` quotes the line:

- `no_orphan`: the late callback of an earlier process is counted by the next
  load attempt, whose commit is refused and whose process stays, unlisted.

### Other disagreements between the code and its words

The models take these steps too; no run is kept for them.

| The words | What the code does |
|---|---|
| "kLoaded means the host owns the process." (`module_state_observer.h:58`) | a death between the commit and the `loaded` record is recorded first, and the feed ends at `loaded` for a module that is gone (`module_manager.cpp:1167`) |
| "the next snapshot re-establishes the whole" picture (`module_manager.cpp:834`) | the listing is read, then numbered: a state that changes in between is outranked by the old one, and a module discovered in between is not in the listing and ranks below it (`module_manager.cpp:739`, `796`): the exception in `KnownIsVisible` |
| "a kill racing a deliberate unload" finds nothing (`web_container.cpp:405`) | a death is posted by name and, after a reload, retires the page loaded since (`web_container.cpp:631`) |
| stop() "withdraws what the page subscribed to" (`web_call_router.h:174`) | a withdrawal posted before it is dropped at the closed gate, and with `stop()` on another thread a subscription may be armed after the sinks were taken: the exceptions in `NothingLeftArmed` |
| "a repeat Subscribe is an idempotent re-assertion" (`web_call_router.cpp:371`) | after a refused subscription the sink stays, so the repeat does not try again: the exception in `SubscriptionsAgree` |
| "for every loaded target, core derives the allowed callers" (`README.md:190` of the repository) | a rescan that changes what a loaded module declares pushes nothing (`module_manager.cpp:1437`); only `logos_core_start` tells capability_module everything (`module_manager.cpp:1602`); one that is restarted knows only later pushes, and a crashed caller keeps its entry |
| "a target absent from `restrictions` is unrestricted" (`logos_core.h:317`) | under `enforce` it is restricted to its loaded dependents and the trusted callers |
| "same thread, same order, same timing" (`module_manager.cpp:490`) | true of the owner alone: its inline token push overtakes one a worker queued, which then has the last word: the exception in `IdentityCurrent` |
| "are serialised — only one runs at a time" (`docs/spec.md:237`) | loads and unloads take the fleet lock shared and overlap on different modules (`module_manager.cpp:1480`) |
| "Associated tokens and state are cleaned up" (`docs/spec.md:192`) | the token saved by a load stays after the unload (`module_manager.cpp:1284`) |
| "MUST be called with no caller lock" (`module_state_observer.h:106`) | an in-process module's termination callback flushes under the unloading thread's locks (`module_manager.cpp:1065`) |
| "Set a budget and a module that dies is LOADED AGAIN" (`logos_core.h:358`) | a restart that comes due inside a load is refused and not scheduled again (`module_manager.cpp:1191`) |
| "Past the budget it is" left down (`logos_core.h:359`) | a restart scheduled for an earlier death still fires; an operator's unload does not cancel one either (`module_manager.cpp:1227`) |
| "Anything it cannot read leaves supervision OFF" (`module_supervisor.h:109`) | a number too large for an `int` is narrowed by a cast (`module_supervisor.cpp:176`) |
| "THE SINK IS UNINSTALLED when modules_state goes away" (`module_manager.cpp:676`) | it stays when modules_state dies or terminateAll takes it down |
| "a fast unload/reload cannot let a stale watch mark the new" (`module_registry.h:84`) | after `clear()` epochs count from zero again: the exception in `ReadyMeansPublished` |
| "they never make `hasCycle` true" (`dependency_resolver.h:85`) | an optional branch whose own required edges cycle does (`dependency_resolver.cpp:168`) |
| "Dependents come down before the" modules they need (`module_manager.cpp:1665`) | modules the resolver left out because of a cycle come last, in no order: the condition in `TeardownExact` |
| "Kept in sync with `dependencies`" (`module_registry.h:45`) | `markLoaded` makes an entry up again that a scan pruned during the load, without the edges (`module_registry.cpp:787`): the exception in `DependentsExact` |
| "0 ⟺ not currently loaded" (`module_registry.h:76`) | `clearLoaded` leaves `loadedAt` (`module_registry.cpp:854`) |
| "the host serializes dispatch calls (one at a time)" (`bare_module_glue.h:70`) | a handler that spins its loop is re-entered; a reload after an abandonment runs beside the old worker |
| "A reload re-uses the mapping" (`inproc_container.cpp:402`) | so after an upgrade the gates judge the version on disk while the code of the old one runs beside its dependents, and an image refused for its protocol stays refused until the host restarts (`bare_module_abi.cpp:119`): the exception in `DependenciesInRange` |
| "no work can still be holding the pointer" (`web_call_router.cpp:258`) | the wait is for other threads: a `stop()` on the main thread inside the page's own call returns while that call's frame is still on its stack, which is why `NoLateWork` is about who stops |
| "teardown racing a call blocks here instead of wedging" (`web_call_router.cpp:262`) | the main thread, inside the call, may be waiting for the lock the tearing-down thread holds: `Deadlocked` |

### Fairness

- ModuleLifecycle: a thread inside a call, the asio thread and a due restart keep
  running; nothing obliges a caller to call or a module to die. The fleet lock is
  weakly fair per thread only, which suffices because calls are finitely many.
- BareDispatch: the worker and the tearing-down thread run. Nothing obliges
  a handler to return: `PromiseKept` takes that as its hypothesis (`Returns`),
  `TerminateReturns` does without. Nothing obliges the image to return from
  `aboutToUnload()` either, the one call of `terminate()` no wait bounds
  (`bare_module_glue.cpp:540`): `TerminateReturns` has that as its hypothesis
  (`Answers`).
- WebContainer: the API thread and the event loop run, and a call ends by its
  deadline at the latest (`kCallTimeoutMs`). Calls are finitely many, so a parked
  page is not kept for ever by new calls.
- WebRouter: the delivery thread, the event loop, the emitter and the stopping
  thread run, and a call out ends by its timeout. Nothing obliges the page to send
  or anybody to stop the router.
- DependencyResolver: the loop runs.

## Proofs

Every theorem has the form `Spec => []P` (or `Spec => ImplementsContract`) and
holds for any values of the constants that satisfy the module's `ASSUME`: any
modules, threads, calls, graphs and bounds, not only those of the runs. The bounds
(`MaxCalls`, `MaxOps`, ...) are arbitrary naturals in them. TLC checks each
assumption on the instances, and each inductive invariant was checked there before
it was proved. There is no safety property of a passing run without a theorem.

| Module | Proved | Rests on |
|---|---|---|
| ModuleLifecycleProofs | `TypeOK`, `NoLostDeath`, `MarksScoped`, `AttemptsScoped`, `OneLoadPerModule`, `FleetExclusion`, `CascadeLeavesFirst`, `CascadeComplete`, `FeedNotStuck`, and the refinement `ImplementsContract` | `LifecycleAssumption`; the cascades also on `TeardownAssumption` |
| StateFeedProofs | `TypeOK`, `ReadyMeansPublished`, `NothingStranded`, `ConsumerHoldsLast` | `FeedAssumption` |
| ModuleRegistryProofs | `TypeOK`, `DependentsExact`, `KnownIsVisible` | `RegistryAssumption` |
| BareDispatchProofs | `TypeOK`, `AnsweredOnce`, `FreedWhenQuiet`, `ImageAccounted` | `BareAssumption` |
| WebProofs | of WebRouter: `NoLateWork`, `SubscriptionsAgree`, `NothingLeftArmed` | `RouterAssumption` |
| | of WebContainer: `TypeOK`, `LostPageOutlivesItsCalls` | `WebAssumption` |
| LoadPlanProofs | of DependencyResolver: `TypeOK`, `OrderSound`, `VerdictExact`, `BestEffortClosed`, `TeardownExact` | `ResolverAssumption` |
| | of LoadGates: `AdmittedOnly`, `DependenciesInRange` | `GatesAssumption` |
| ModuleSupervisorProofs | `TypeOK`, `WindowBudget`, `ExhaustionEarned` | `SupervisorAssumption` |
| AccessRestrictionsProofs | `RestrictionsCurrent`, `IdentityCurrent` | `AccessAssumption` |

WebProofs extends WebRouter and WebContainer, LoadPlanProofs extends
DependencyResolver and LoadGates: a load is a plan of which modules and a verdict on
each. The second of each pair therefore names its specification apart
(`ContainerSpec`, `GatesSpec`).

Most assumptions only give the constants their types; `ResolverAssumption` adds that
the modules are finitely many. The others are what the code
has: `TeardownAssumption` is the order the resolver gives a cascade over a graph
without cycles (`TeardownExact` is the proof that it does; over a cycle the code
promises no order); `AccessAssumption` says that the modules are finitely many and that
`kTrustedCallers` is not empty, because a push with no callers is skipped;
`GatesAssumption` says that an installed package has a path.

### Arguments

Hardly any of these properties is inductive: most speak of moments of rest, or say
that *somebody* will still act. Each module's `IInv` says what holds in between.

- **Lifecycle.** `NoLostDeath` says that some thread is about to clear the flag of
  a module that is gone; a step of that thread keeps it only if no other module
  needed the same witness, and a commit keeps it only if a process that died during
  the attempt has been counted by it. `NamesBound`: the module a step works on is
  one. `LocksHeld`: which steps hold the fleet lock, shared or alone, and that the
  thread inside a load or unload holds the module's lock. `AttemptTracked`: inside
  an attempt the entry exists and the module is not loaded, and a process that is
  gone is counted or about to be. `AttemptsOwned`, `MarksOwned`, `DeathsOwned`: the
  scoping properties with the witness named, as the holder of the lock. The
  refinement goes action by action: with `IInv`, each step is a step of the contract
  for the one module whose status it changes and a stutter for the others.
  `CascadeTracked` says that whatever the cascade has passed, and whatever needs it,
  is down and stays so under the exclusive fleet lock; `FeedOwned`, that a passing
  state has a thread or a death in progress that will replace it.
- **Feed.** The last record stamped for a module is in the buffer, in a batch some
  thread has taken, on the owner's queue, in a snapshot under way or with
  modules_state (`Underway`), and everything else under way is older (`Stamped`), so
  no order of arrival can replace it. `Flushing`: whoever filled the buffer has its
  flush before it. `Watched`: a watch of the entry's present epoch has fired only if
  the present object is up.
- **Registry.** `Owed`: a known module the consumer has not heard of is about
  to be reported by the load or registration that put it into the table, or was
  overtaken by the listing; and of a listing read and not yet numbered the same holds,
  so applying it loses nobody else.
- **In-process container.** `CallsPlaced`: a call an instance took is queued there,
  or on its worker's stack once, or answered, and only one of these; `LifeStages`:
  what each stage of `terminate()` has established; `RefsCounted`: the references.
- **Web container.** `CallsPark`: while a call that came in before the loss is
  unwinding, its instance is parked, so no sweep has lifted it out; `Whereabouts`:
  nothing that is mapped, opening or in a tearDown's hands is parked.
- **Web router.** `Pipeline` follows each pair through the main thread's queue:
  posted subscriptions and withdrawals alternate, the first undoes what the client
  holds and the last leaves what the page wants. `Armed` and `Taken` say what
  `stop()` has found and what may still be behind it.
- **Gates.** `LoadsHeld` carries, for a load in progress, what the questions asked
  so far came to; `RunsHeld` says that, unless a package changed, the file found at the
  launch, the file of now and the registry's entry are the same thing. `ImagesHeld`:
  what is kept mapped is an image, so what runs is of the kind the file is, whichever
  version it is.
- **Supervisor.** The code keeps a pruned list and counts what is left of it; the
  properties are about every death since the module was re-armed. `Recorded`: the list
  is the end of that history. `Ordered`: the history is in order of time, so the
  prune, a filter, takes from the front only (`WindowIsEnd`). `Erased`: what is no
  longer on the list was outside the window of a later death. The length of the list is
  then the number of deaths in the window, and a verdict says of the history what it
  says of the list.
- **Resolver.** The walk: what it has found is needed, and closed up to the queue
  (`Walking`), so that with the queue empty it is the least closed set (`Walked`). The
  rounds: `BlockedIffUnsatisfiable`, whether a branch is blocked does not depend on what
  has been admitted before it, because the set is closed under required edges; `Rounds`
  says which optional dependencies are still to be looked at. The sort: `Sorting`, the
  order so far is sound and the degrees count the edges it has not placed. When nothing
  is ready each module left over needs another that is left over; a module leading to
  the fewest others among them leads to one that leads to as many, hence a cycle
  (`StuckIsCyclic`). That is a least element, not an induction over the graph. A
  complete order shows that there is no cycle (`OrderedIsAcyclic`). `Fallback`: the
  first order is kept as it was for a second sort that fails. The teardown order is
  read off `Keep` and `Reverse` by positions (`ResolvedPart`).
- **Access.** `Restrictions`: an entry that is not accurate belongs to a target that
  some thread, a queued refresh or the push under way will read again (`Pending`), or
  whose dependents a rescan has changed since it was last pushed.
  `Identities`: the last token queued for a module is the present one. `Explicit`:
  explicit lists never change while capability_module enforces them, which is why a
  skipped push of an empty list does no harm.

Each conjunct has a lemma that a step preserves it, with one case per action, from
the conjuncts it needs; `InductiveInvariant` combines them, and the other theorems
read their property off `IInv`.

### Only model-checked

Liveness under fairness: `EveryCallReturns`, `ContractProgress`, `PromiseKept`,
`TerminateReturns`, `ParkedSwept`, `TeardownReturns`, `CallsAnswered` and `Terminates`.
It is outside the prover's reach, and so is what a recursive definition computes: the
models that are proved about use none.

## Not modelled

- `hostStaysSilent` and other timing of the load verdict: the verdict is a choice.
- The unload of a module without a loader (`module_manager.cpp` 1268-1282), which
  only tests reach.
- C API wrappers, string conversion, statistics, logging; the web views and the
  web loader, which pass through to the container.
- The query methods of the registry and the `register*` mutators used by tests.
- Inline dispatch between publishing an in-process module and enabling deferred
  dispatch: which thread delivers a call is the provider library's affair.
  Marshalling of values, events, host services.
- A call that is inside `callMethod` on the delivering thread while the unloading
  thread deletes the LogosAPI and the glue (`inproc_container.cpp` 391-405): deciding
  on a call is one step, and what keeps the two apart is the provider library's.
- The narrowing of the backoff to an `int` when a restart is scheduled
  (`module_supervisor.cpp:56`): no property depends on how late a restart is.
- Page credentials, destructors of the containers.
- A loader pinned by id (nothing in the repository sets one), parsing of version
  strings, ranges and policy documents: what parses is an input.

## Plan

Done: the lifecycle and the contract it implements, the supervisor, the feed, the
resolver, the registry, both host-side containers, the web router, the gates and the
access restrictions; their safety properties, model-checked on the instances above and
as theorems for every instance; their liveness, model-checked.

Left:

1. **Composition of the lifecycle with the supervisor**, in place of free choice. Every
   verdict is among the lifecycle's behaviours already, so this adds properties
   about restarts and budgets across threads (the hazards at `module_manager.cpp:1191`
   and `1227`), not safety of the load path.
2. **Composition of the lifecycle with the resolver**: `TeardownAssumption` as a
   consequence of `TeardownExact` rather than a fact of the constants, for graphs that a
   scan changes while a cascade waits for its locks.
