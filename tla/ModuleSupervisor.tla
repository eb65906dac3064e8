--------------------------- MODULE ModuleSupervisor ---------------------------
(***************************************************************************)
(* Supervision of modules that die (module_supervisor.cpp): a budget of    *)
(* restarts per module inside a sliding window, the backoff timer that     *)
(* runs a granted restart later on the main thread, and the interventions  *)
(* that start the budget over. What happens inside a load is               *)
(* ModuleLifecycle's; here a module is up or down.                         *)
(***************************************************************************)
EXTENDS Integers, Sequences, FiniteSets, SequencesExt, Subsequences

CONSTANTS
    Names,          \* supervised modules
    Policies,       \* SupervisionPolicy values the host may set
    Envs,           \* values of LOGOS_SUPERVISION, split at the commas
    IntMax,         \* largest int: maxRestarts is one
    MaxTime,        \* bound: the clock
    MaxCalls        \* bound: operator calls

ASSUME SupervisorAssumption ==
    /\ Policies \subseteq [max : Int, window : Nat, backoff : Nat]
    /\ Envs \subseteq Seq(Int)
    /\ IntMax \in Nat \ {0}
    /\ MaxTime \in Nat
    /\ MaxCalls \in Nat

\* A field that std::stol does not read to its end: empty, not a number, or out
\* of the range of long.
Unreadable == -1

DefaultWindow == 2
DefaultBackoff == 1
Off == [max |-> 0, window |-> DefaultWindow, backoff |-> DefaultBackoff]

VARIABLES
    policy,     \* m_policy
    deaths,     \* m_deaths: name -> times of its deaths, oldest first
    timers,     \* name -> due times of the restarts scheduled and not yet run
    up,         \* modules that are loaded
    known,      \* modules the registry knows
    now,        \* steady_clock
    started,    \* logos_core_start has run
    env,        \* LOGOS_SUPERVISION of this process
    calls,      \* operator calls made
    entering,   \* name -> load calls for it that have forgotten and not loaded
    history     \* name -> its deaths since it was last re-armed, and what was
                \* decided about each; grows only, unlike deaths

tables == <<policy, deaths, timers, up, known>>
vars == <<tables, now, started, env, calls, entering, history>>

Init ==
    /\ policy = Off
    /\ deaths = [n \in Names |-> <<>>]
    /\ timers = [n \in Names |-> <<>>]
    /\ up = {}
    /\ known = Names
    /\ now = 0
    /\ started = FALSE
    /\ env \in Envs
    /\ calls = 0
    /\ entering = [n \in Names |-> 0]
    /\ history = [n \in Names |-> <<>>]

-----------------------------------------------------------------------------

\* static_cast<int>(long): what is left of a number that does not fit wraps.
ToInt(n) == ((n + IntMax + 1) % (2 * IntMax + 2)) - IntMax - 1

\* policyFromEnvironment: strict, anything unreadable is Off.
PolicyFromEnvironment(fields) ==
    IF fields = <<>> \/ Len(fields) > 3 \/ \E i \in DOMAIN fields : fields[i] < 0
    THEN Off
    ELSE [max     |-> ToInt(fields[1]),
          window  |-> IF Len(fields) > 1 THEN fields[2] ELSE DefaultWindow,
          backoff |-> IF Len(fields) > 2 THEN fields[3] ELSE DefaultBackoff]

\* setPolicy: a new policy starts every budget over.
Install(p) ==
    /\ policy' = p
    /\ deaths' = [n \in Names |-> <<>>]
    /\ history' = [n \in Names |-> <<>>]

\* forget: drop one module's history.
Forget(n) ==
    /\ deaths' = [deaths EXCEPT ![n] = <<>>]
    /\ history' = [history EXCEPT ![n] = <<>>]

\* logos_core_start: LOGOS_SUPERVISION counts only when the host has set no
\* policy and it spells a positive budget.
Start ==
    /\ ~started
    /\ started' = TRUE
    /\ LET p == PolicyFromEnvironment(env)
       IN IF policy.max <= 0 /\ p.max > 0
          THEN Install(p)
          ELSE UNCHANGED <<policy, deaths, history>>
    /\ UNCHANGED <<timers, up, known, now, env, calls, entering>>

\* logos_core_set_supervision_policy.
SetPolicy(p) ==
    /\ calls < MaxCalls
    /\ calls' = calls + 1
    /\ Install(p)
    /\ UNCHANGED <<timers, up, known, now, started, env, entering>>

\* Mutant of InWindow: nothing ages out.
AllDeaths(n) == deaths[n]

\* The deaths the window still covers, oldest first: the erase/remove_if.
InWindow(n) ==
    Keep(deaths[n], {i \in DOMAIN deaths[n] : deaths[n][i] >= now - policy.window})

\* verdict.attempt <= maxRestarts.
WithinBudget(attempt) == attempt <= policy.max

\* A loaded module dies unasked: onUnexpectedExit judges and records in one
\* step, and a granted restart is handed to the scheduler. It is due the backoff
\* later; the scheduler narrows that to an int, and a number no int holds is
\* outside these instances (no property speaks of a due time).
UnexpectedExit(n) ==
    /\ n \in up
    /\ up' = up \ {n}
    /\ IF policy.max <= 0
       THEN UNCHANGED <<deaths, timers, history>>
       ELSE LET record  == Append(InWindow(n), now)
                granted == WithinBudget(Len(record))
            IN /\ deaths' = [deaths EXCEPT ![n] = record]
               /\ timers' = IF granted
                            THEN [timers EXCEPT ![n] = Append(@, now + policy.backoff)]
                            ELSE timers
               /\ history' = [history EXCEPT ![n] =
                                Append(@, [at |-> now, granted |-> granted])]
    /\ UNCHANGED <<policy, known, now, started, env, calls, entering>>

\* Mutant of RestartFires: the restart goes through loadModule, which forgets.
RestartForgets(n) ==
    /\ \E i \in DOMAIN timers[n] :
          /\ timers[n][i] <= now
          /\ timers' = [timers EXCEPT ![n] = RemoveAt(@, i)]
    /\ up' \in {up} \cup {up \cup ({n} \cap known)}
    /\ deaths' = [deaths EXCEPT ![n] = <<>>]
    /\ UNCHANGED <<policy, known, now, started, env, calls, history, entering>>

\* The timer runs on the main thread: nothing for a name no longer known,
\* nothing for a module already up, otherwise a load that may fail.
RestartFires(n) ==
    /\ \E i \in DOMAIN timers[n] :
          /\ timers[n][i] <= now
          /\ timers' = [timers EXCEPT ![n] = RemoveAt(@, i)]
    /\ up' \in {up} \cup {up \cup ({n} \cap known)}
    /\ UNCHANGED <<policy, deaths, known, now, started, env, calls, history, entering>>

\* loadModule and loadModuleWithDependencies forget their target on entry,
\* before any lock: deaths and other calls come between that and the load.
OperatorLoads(n) ==
    /\ calls < MaxCalls
    /\ calls' = calls + 1
    /\ Forget(n)
    /\ entering' = [entering EXCEPT ![n] = @ + 1]
    /\ UNCHANGED <<policy, timers, up, known, now, started, env>>

\* The load itself. A chain brings known modules up on the target's behalf and
\* forgets none of them; each load of it may fail, and none is tried for a
\* target the registry does not know.
Loads(n) ==
    /\ entering[n] > 0
    /\ entering' = [entering EXCEPT ![n] = @ - 1]
    /\ \E brought \in SUBSET known :
          /\ n \notin known => brought = {}
          /\ up' = up \cup brought
    /\ UNCHANGED <<policy, deaths, timers, known, now, started, env, calls, history>>

\* unloadModule forgets once the module is down; it refuses one that is not up.
OperatorUnloads(n) ==
    /\ calls < MaxCalls /\ n \in up
    /\ calls' = calls + 1
    /\ Forget(n)
    /\ up' = up \ {n}
    /\ UNCHANGED <<policy, timers, known, now, started, env, entering>>

\* terminateAll takes every module down and keeps the histories.
TerminateAll ==
    /\ calls < MaxCalls
    /\ calls' = calls + 1
    /\ up' = {}
    /\ UNCHANGED <<policy, deaths, timers, known, now, started, env, history, entering>>

\* clear also empties the registry and every history; the policy stays.
Clear ==
    /\ calls < MaxCalls
    /\ calls' = calls + 1
    /\ up' = {} /\ known' = {}
    /\ deaths' = [n \in Names |-> <<>>]
    /\ history' = [n \in Names |-> <<>>]
    /\ UNCHANGED <<policy, timers, now, started, env, entering>>

Discover ==
    /\ known # Names
    /\ known' = Names
    /\ UNCHANGED <<policy, deaths, timers, up, now, started, env, calls, history, entering>>

Tick ==
    /\ now < MaxTime
    /\ now' = now + 1
    /\ UNCHANGED <<tables, started, env, calls, history, entering>>

\* The clock is at its bound.
Finished == now = MaxTime /\ UNCHANGED vars

Next ==
    \/ Start
    \/ \E p \in Policies : SetPolicy(p)
    \/ \E n \in Names : UnexpectedExit(n) \/ RestartFires(n)
    \/ \E n \in Names : OperatorLoads(n) \/ Loads(n) \/ OperatorUnloads(n)
    \/ TerminateAll \/ Clear \/ Discover
    \/ Tick
    \/ Finished

Spec == Init /\ [][Next]_vars

-----------------------------------------------------------------------------

\* The death recorded as entry i of n's history, and the earlier ones its
\* window covers.
Covered(n, i) ==
    {j \in 1..i : history[n][j].at >= history[n][i].at - policy.window}

\* Every variable of the supervisor and its surroundings has its type.
TypeOK ==
    /\ policy \in [max : Int, window : Nat, backoff : Nat]
    /\ deaths \in [Names -> Seq(Nat)]
    /\ timers \in [Names -> Seq(Nat)]
    /\ up \subseteq Names
    /\ known \subseteq Names
    /\ now \in 0..MaxTime
    /\ started \in BOOLEAN
    /\ env \in Envs
    /\ calls \in 0..MaxCalls
    /\ entering \in [Names -> Nat]
    /\ history \in [Names -> Seq([at : Nat, granted : BOOLEAN])]

\* The budget holds over EVERY window, not only the last: however deaths,
\* restarts and the clock interleave, no window ending at a granted restart
\* holds more than maxRestarts of them between two interventions
\* (onUnexpectedExit, restartModule).
WindowBudget ==
    \A n \in Names : \A i \in DOMAIN history[n] :
        Cardinality({j \in Covered(n, i) : history[n][j].granted}) <= policy.max

\* A module is left down only for a crash loop of its own: a refused restart
\* means more than maxRestarts deaths of that module inside the window since
\* its last intervention. A module that dies rarely is restarted every time.
ExhaustionEarned ==
    \A n \in Names : \A i \in DOMAIN history[n] :
        ~history[n][i].granted => Cardinality(Covered(n, i)) > policy.max
=============================================================================
