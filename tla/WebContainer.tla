----------------------------- MODULE WebContainer -----------------------------
(***************************************************************************)
(* WebContainer (web_container.cpp) running one web module, with the glue  *)
(* that waits for its page (web_module_glue.cpp) and the router that makes *)
(* the page's own calls (web_call_router.cpp). An API thread loads and     *)
(* unloads the module. The Qt main thread serves calls into the page and   *)
(* calls out of it, both of which spin a nested event loop, so it runs     *)
(* posted work (a page's death, a sweep, an unload) on top of them.        *)
(***************************************************************************)
EXTENDS Naturals, Sequences, FiniteSets

CONSTANTS
    MaxLaunches,    \* bound: views opened per behaviour
    MaxCalls,       \* bound: calls into and out of pages
    MaxDepth        \* bound: frames on the main thread's stack

ASSUME WebAssumption ==
    MaxLaunches \in Nat /\ MaxCalls \in Nat /\ MaxDepth \in Nat

Instances == 1..MaxLaunches

VARIABLES
    opened,     \* views opened so far
    inst,       \* "none" | "building" | "mapped" | "taken" | "parked" | "destroyed"
    page,       \* "none" | "alive" | "dead"
    current,    \* the instance in m_modules, or 0
    apis,       \* instances whose LogosAPI exists: the name is published
    gates,      \* instances whose router's gate is open
    lost,       \* instances retired because their page died
    told,       \* instance -> onTerminated calls made
    stack,      \* the main thread: [kind, on, late], innermost last; late: the
                \* page had been lost when the call came in
    lock,       \* the manager's mutex for this module: "none" | "api"
    tpc,        \* the API thread
    victims,    \* what its tearDown is destroying
    after,      \* where it goes next
    deaths,     \* posted death notifications
    sweep,      \* a sweep is posted
    calls

instVars == <<opened, inst, page, current, apis, gates, lost, told>>
threadVars == <<tpc, victims, after>>
postVars == <<deaths, sweep>>
containerVars == <<instVars, stack, lock, threadVars, postVars, calls>>

ContainerInit ==
    /\ opened = 0 /\ current = 0
    /\ inst = [i \in Instances |-> "none"]
    /\ page = [i \in Instances |-> "none"]
    /\ apis = {} /\ gates = {} /\ lost = {}
    /\ told = [i \in Instances |-> 0]
    /\ stack = <<>>
    /\ lock = "none" /\ tpc = "idle" /\ victims = {} /\ after = "idle"
    /\ deaths = 0 /\ sweep = FALSE
    /\ calls = 0

-----------------------------------------------------------------------------

\* The main thread is inside a frame of this kind on instance i.
Inside(kind, i) == \E k \in DOMAIN stack : stack[k].kind = kind /\ stack[k].on = i

\* isAwaitingPage.
Awaiting(i) == Inside("in", i)

\* The main thread's event loop, nested or not, is turning.
MainTurns == stack # <<>> => stack[Len(stack)].kind # "lock"

Push(kind, i) == stack' = Append(stack, [kind |-> kind, on |-> i, late |-> i \in lost])
Popped == SubSeq(stack, 1, Len(stack) - 1)

\* What sweepRetired lifts out: parked, and no longer waited on.
Ready == {i \in Instances : inst[i] = "parked" /\ ~Awaiting(i)}

\* tearDown past the router's stop: the API, the glue, the connection, the
\* router, the routes and the view go.
Destroy(S) ==
    /\ inst' = [i \in Instances |-> IF i \in S THEN "destroyed" ELSE inst[i]]
    /\ apis' = apis \ S
    /\ gates' = gates \ S

Tell(S) == told' = [i \in Instances |-> IF i \in S THEN told[i] + 1 ELSE told[i]]

-----------------------------------------------------------------------------
(* The API thread: load, under the module's lock.                          *)

GotoT(l) == tpc' = l

\* launch starts with a sweep.
LoadBegins ==
    /\ tpc = "idle" /\ lock = "none" /\ current = 0 /\ opened < MaxLaunches
    /\ lock' = "api"
    /\ victims' = Ready /\ after' = "open"
    /\ inst' = [i \in Instances |-> IF i \in Ready THEN "taken" ELSE inst[i]]
    /\ GotoT("stop")
    /\ UNCHANGED <<opened, page, current, apis, gates, lost, told, stack, postVars, calls>>

\* The view, the API, the routes, the router and the connection; published.
LaunchOpens ==
    /\ tpc = "open"
    /\ LET i == opened + 1
       IN /\ opened' = i
          /\ inst' = [inst EXCEPT ![i] = "building"]
          /\ page' = [page EXCEPT ![i] = "alive"]
          /\ apis' = apis \cup {i} /\ gates' = gates \cup {i}
    /\ GotoT("map")
    /\ UNCHANGED <<current, lost, told, stack, lock, victims, after, postVars, calls>>

\* No backend, no channel, no token store, no connection: tearDown and report.
LaunchFails ==
    /\ tpc = "open"
    /\ opened' = opened + 1
    /\ lock' = "none" /\ GotoT("idle")
    /\ UNCHANGED <<inst, page, current, apis, gates, lost, told, stack, victims, after,
                   postVars, calls>>

\* Into m_modules.
LaunchMaps ==
    /\ tpc = "map"
    /\ current' = opened
    /\ inst' = [inst EXCEPT ![opened] = "mapped"]
    /\ GotoT("probe")
    /\ UNCHANGED <<opened, page, apis, gates, lost, told, stack, lock, victims, after,
                   postVars, calls>>

\* awaitLoad: the page serves...
ProbeServes ==
    /\ tpc = "probe" /\ page[opened] = "alive"
    /\ lock' = "none" /\ GotoT("idle")
    /\ UNCHANGED <<instVars, stack, victims, after, postVars, calls>>

\* ...or it went away or never published, and the manager terminates it.
ProbeFails ==
    /\ tpc = "probe"
    /\ GotoT("take")
    /\ UNCHANGED <<instVars, stack, lock, victims, after, postVars, calls>>

-----------------------------------------------------------------------------
(* The API thread: unload.                                                 *)

UnloadBegins ==
    /\ tpc = "idle" /\ lock = "none" /\ current # 0
    /\ lock' = "api" /\ GotoT("take")
    /\ UNCHANGED <<instVars, stack, victims, after, postVars, calls>>

\* takeInstance.
Take(i) ==
    /\ current' = 0
    /\ inst' = [inst EXCEPT ![i] = "taken"]

\* retire(Unloaded): out of the map...
RetireTakes ==
    /\ tpc = "take" /\ current # 0
    /\ Take(current)
    /\ victims' = {current} /\ after' = "sweep"
    /\ GotoT("stop")
    /\ UNCHANGED <<opened, page, apis, gates, lost, told, stack, lock, postVars, calls>>

\* ...unless the main thread retired it first...
RetireFindsNothing ==
    /\ tpc = "take" /\ current = 0
    /\ GotoT("sweep")
    /\ UNCHANGED <<instVars, stack, lock, victims, after, postVars, calls>>

\* ...the router's stop() closes the gate...
StopCloses ==
    /\ tpc = "stop"
    /\ gates' = gates \ victims
    /\ GotoT("wait")
    /\ UNCHANGED <<opened, inst, page, current, apis, lost, told, stack, lock, victims,
                   after, postVars, calls>>

\* ...and waits for the frames of other threads, here the main thread's...
OthersOut == \A i \in victims : ~Inside("out", i)

\* ...before anything is destroyed. A retirement is announced last.
TearDown ==
    /\ tpc = "wait" /\ OthersOut
    /\ Destroy(victims)
    /\ Tell(IF after = "sweep" THEN victims ELSE {})
    /\ victims' = {}
    /\ GotoT(IF after = "idle" THEN "release" ELSE after)
    /\ UNCHANGED <<opened, page, current, lost, stack, lock, after, postVars, calls>>

\* terminate ends with a sweep of its own.
TerminateSweeps ==
    /\ tpc = "sweep"
    /\ victims' = Ready /\ after' = "idle"
    /\ inst' = [i \in Instances |-> IF i \in Ready THEN "taken" ELSE inst[i]]
    /\ GotoT("stop")
    /\ UNCHANGED <<opened, page, current, apis, gates, lost, told, stack, lock, postVars,
                   calls>>

UnloadReturns ==
    /\ tpc = "release"
    /\ lock' = "none" /\ GotoT("idle")
    /\ UNCHANGED <<instVars, stack, victims, after, postVars, calls>>

-----------------------------------------------------------------------------
(* Pages, and the main thread's event loop.                                *)

\* A page dies; the backend's thread posts the news, by name.
PageDies(i) ==
    /\ page[i] = "alive" /\ inst[i] \in {"building", "mapped", "parked"}
    /\ page' = [page EXCEPT ![i] = "dead"]
    /\ deaths' = deaths + 1
    /\ UNCHANGED <<opened, inst, current, apis, gates, lost, told, stack, lock, threadVars,
                   sweep, calls>>

\* A call into the page: callMethod, waiting in awaitPage's nested loop. The
\* name is published as long as the LogosAPI exists, and nothing in the glue
\* turns a call away once the page is lost.
CallIn(i) ==
    /\ MainTurns /\ i \in apis /\ Len(stack) < MaxDepth /\ calls < MaxCalls
    /\ Push("in", i)
    /\ calls' = calls + 1
    /\ UNCHANGED <<instVars, lock, threadVars, postVars>>

\* A call from the page: posted work that found the gate open.
CallOut(i) ==
    /\ MainTurns /\ i \in gates /\ Len(stack) < MaxDepth /\ calls < MaxCalls
    /\ Push("out", i)
    /\ calls' = calls + 1
    /\ UNCHANGED <<instVars, lock, threadVars, postVars>>

\* Mutant of CallReturns: a call's way out takes the module's lock.
CallReturnsLocking ==
    /\ stack # <<>> /\ MainTurns /\ lock = "none"
    /\ stack' = Popped
    /\ UNCHANGED <<instVars, lock, threadVars, postVars, calls>>

\* The innermost call ends: answered, abandoned or timed out.
CallReturns ==
    /\ stack # <<>> /\ MainTurns
    /\ stack' = Popped
    /\ UNCHANGED <<instVars, lock, threadVars, postVars, calls>>

\* retire(PageLost) for a name that is not in the map.
DeathFindsNothing ==
    /\ MainTurns /\ deaths > 0 /\ current = 0
    /\ deaths' = deaths - 1
    /\ UNCHANGED <<instVars, stack, lock, threadVars, sweep, calls>>

\* Mutant of DeathParks: a lost page is always torn down where it is noticed.
DeathParksNothing ==
    /\ MainTurns /\ deaths > 0 /\ current # 0 /\ Awaiting(current)
    /\ deaths' = deaths - 1
    /\ lost' = lost \cup {current}
    /\ current' = 0
    /\ Destroy({current})
    /\ Tell({current})
    /\ UNCHANGED <<opened, page, stack, lock, threadVars, sweep, calls>>

\* A call into it is still unwinding: abandonPendingCalls, and parked.
DeathParks ==
    /\ MainTurns /\ deaths > 0 /\ current # 0 /\ Awaiting(current)
    /\ deaths' = deaths - 1
    /\ lost' = lost \cup {current}
    /\ current' = 0
    /\ inst' = [inst EXCEPT ![current] = "parked"]
    /\ sweep' = TRUE
    /\ Tell({current})
    /\ UNCHANGED <<opened, page, apis, gates, stack, lock, threadVars, calls>>

\* Otherwise it is torn down at once; stop() does not wait for its own thread.
DeathTearsDown ==
    /\ MainTurns /\ deaths > 0 /\ current # 0 /\ ~Awaiting(current)
    /\ deaths' = deaths - 1
    /\ lost' = lost \cup {current}
    /\ current' = 0
    /\ Destroy({current})
    /\ Tell({current})
    /\ UNCHANGED <<opened, page, stack, lock, threadVars, sweep, calls>>

\* Mutant of Sweeps: the sweep does not come back for what is still waited on.
SweepsOnce ==
    /\ MainTurns /\ sweep
    /\ sweep' = FALSE
    /\ Destroy(Ready)
    /\ UNCHANGED <<opened, page, current, lost, told, stack, lock, threadVars, deaths, calls>>

\* sweepRetired on the main thread: again next turn if something is left.
Sweeps ==
    /\ MainTurns /\ sweep
    /\ sweep' = \E i \in Instances : inst[i] = "parked" /\ Awaiting(i)
    /\ Destroy(Ready)
    /\ UNCHANGED <<opened, page, current, lost, told, stack, lock, threadVars, deaths, calls>>

\* The host unloads from its event loop: retire, then the sweep.
MainUnload(stk) ==
    /\ lock = "none"
    /\ IF current = 0 THEN UNCHANGED <<current, told>> ELSE current' = 0 /\ Tell({current})
    /\ Destroy(Ready \cup ({current} \ {0}))
    /\ stack' = stk
    /\ UNCHANGED <<opened, page, lost, lock, threadVars, postVars, calls>>

MainUnloadsNow == MainTurns /\ current # 0 /\ MainUnload(stack)

\* The module's lock is taken: the main thread blocks, its loop stops.
MainBlocks ==
    /\ MainTurns /\ lock = "api" /\ Len(stack) < MaxDepth
    /\ Push("lock", 0)
    /\ UNCHANGED <<instVars, lock, threadVars, postVars, calls>>

MainUnblocks == ~MainTurns /\ MainUnload(Popped)

-----------------------------------------------------------------------------

ApiStep ==
    \/ LaunchOpens \/ LaunchFails \/ LaunchMaps \/ ProbeServes \/ ProbeFails
    \/ RetireTakes \/ RetireFindsNothing \/ StopCloses \/ TearDown
    \/ TerminateSweeps \/ UnloadReturns

PostedStep == DeathFindsNothing \/ DeathParks \/ DeathTearsDown \/ Sweeps

ContainerNext ==
    \/ LoadBegins \/ UnloadBegins \/ ApiStep
    \/ \E i \in Instances : PageDies(i) \/ CallIn(i) \/ CallOut(i)
    \/ CallReturns \/ PostedStep
    \/ MainUnloadsNow \/ MainBlocks \/ MainUnblocks

\* The API thread and the event loop run, and a call ends by its deadline at
\* the latest. A sweep posted turn after turn leaves room for the call to end.
ContainerFairness ==
    /\ WF_containerVars(ApiStep) /\ WF_containerVars(MainUnblocks)
    /\ WF_containerVars(CallReturns) /\ WF_containerVars(Sweeps)
    /\ WF_containerVars(DeathFindsNothing \/ DeathParks \/ DeathTearsDown)

ContainerSpec == ContainerInit /\ [][ContainerNext]_containerVars
ContainerFairSpec == ContainerSpec /\ ContainerFairness

-----------------------------------------------------------------------------
(* Properties.                                                             *)

\* Every variable holds a value of its type (WebContainer::Instance, Gate).
TypeOK ==
    /\ opened \in 0..MaxLaunches /\ current \in 0..opened
    /\ inst \in [Instances -> {"none", "building", "mapped", "taken", "parked",
                               "destroyed"}]
    /\ page \in [Instances -> {"none", "alive", "dead"}]
    /\ apis \subseteq Instances /\ gates \subseteq apis /\ lost \subseteq Instances
    /\ told \in [Instances -> Nat]
    /\ stack \in Seq([kind : {"in", "out", "lock"}, on : 0..MaxLaunches, late : BOOLEAN])
    /\ lock \in {"none", "api"}
    /\ tpc \in {"idle", "open", "map", "probe", "take", "stop", "wait", "sweep", "release"}
    /\ victims \subseteq Instances /\ after \in {"idle", "open", "sweep"}
    /\ deaths \in Nat /\ sweep \in BOOLEAN /\ calls \in 0..MaxCalls

\* A page that is lost in the middle of a call into it is not destroyed under
\* that call, however long it takes to unwind and whoever sweeps
\* (deferTearDown, sweepRetired).
LostPageOutlivesItsCalls ==
    \A k \in DOMAIN stack :
        /\ stack[k].kind = "in" /\ stack[k].on \in lost /\ ~stack[k].late
        => inst[stack[k].on] # "destroyed"

\* The one way the two threads wait on each other: the API thread, holding the
\* module's lock, waits for the main thread to leave a call of the page, and the
\* main thread, inside that call, waits for the lock.
Deadlocked == ~MainTurns /\ tpc = "wait" /\ ~OthersOut

\* A parked module is destroyed in the end: the sweep comes back until the call
\* it waits for has unwound (armSweep). Calls are finitely many (MaxCalls).
ParkedSwept ==
    \A i \in Instances : inst[i] = "parked" ~> inst[i] = "destroyed" \/ Deadlocked

\* An unload on the API thread returns: closing the gate waits for calls of the
\* page, and those end, unless the two threads wait on each other.
TeardownReturns == tpc = "stop" ~> tpc = "idle" \/ Deadlocked

=============================================================================
