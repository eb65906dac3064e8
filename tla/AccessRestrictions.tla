------------------------- MODULE AccessRestrictions -------------------------
(***************************************************************************)
(* What the core tells capability_module (module_manager.cpp): who may     *)
(* call whom under an enforce policy, and the token each module was loaded *)
(* with. Every load and unload pushes from the owner thread: inline when   *)
(* it runs there, posted to its event loop from any other thread. What     *)
(* capability_module keeps is external and lasts as long as its process.   *)
(***************************************************************************)
EXTENDS Naturals, Sequences, FiniteSets, SequencesExt

CONSTANTS
    Modules,        \* operator modules
    Capability,     \* capability_module, the broker
    Trusted,        \* kTrustedCallers
    Exempt,         \* kExemptTargets, capability_module among them
    Manifests,      \* m -> the manifests its package may come to carry
    Documents,      \* policy documents the host may install
    Owner,          \* the thread coreApi() belongs to
    Workers,        \* other threads that load and unload
    None,
    Open,           \* the entry of a target nobody restricted
    MaxOps          \* bound: loads, unloads, crashes, rescans and clears

\* The dependencies a manifest declares.
Manifest == [required : SUBSET Modules, optional : SUBSET Modules]

\* The lists of callers a policy or the derivation can come to.
CallerSets ==
    (UNION {{d.restrictions[t] : t \in DOMAIN d.restrictions} : d \in Documents})
    \cup {S \cup Trusted : S \in SUBSET Modules} \cup {{}}

ASSUME AccessAssumption ==
    /\ IsFiniteSet(Modules)
    /\ Capability \in Exempt /\ Capability \notin Modules
    /\ Owner \notin Workers /\ None \notin Workers \cup {Owner}
    /\ None \notin Modules \cup {Capability} /\ Open \notin CallerSets
    /\ Trusted # {}
    /\ Manifests \in [Modules -> SUBSET Manifest]
    /\ \A d \in Documents :
          /\ d.valid \in BOOLEAN /\ DOMAIN d.restrictions \subseteq Modules \cup Exempt
    /\ MaxOps \in Nat

Threads == Workers \cup {Owner}

All == Modules \cup {Capability}

VARIABLES
    policy,     \* parsedEnforcePolicy(): [on, explicit]
    started,    \* logos_core_start has run
    loaded,     \* registry
    edges,      \* registry: the manifest each module was last scanned with
    token,      \* TokenManager: m -> number of the load that made its token
    \* ---- threads ----
    pc, cur,    \* where a thread is in a load or unload, and of what
    queue,      \* work posted to the owner thread
    job,        \* what the owner is pushing: targets left, callers read
    \* ---- capability_module ----
    table,      \* target -> the callers it allows, or Open
    identity,   \* m -> the token it knows m by
    \* ---- history ----
    initialised,    \* this capability_module was started by logos_core_start
    died,           \* modules that crashed and have not been loaded since
    informed,       \* modules whose load found this capability_module up
    overtaken,      \* modules whose token was sent past an older one
    redeclared,     \* targets whose dependents a rescan changed, not pushed since
    ops

configVars == <<policy, started>>
threadVars == <<pc, cur>>
brokerVars == <<table, identity>>
history == <<initialised, died, informed, overtaken>>
scanVars == <<edges, redeclared>>
vars == <<configVars, loaded, token, threadVars, queue, job, brokerVars, history,
          scanVars, ops>>

NoJob == [targets |-> <<>>, target |-> None, callers |-> {}]

Init ==
    /\ policy = [on |-> FALSE, explicit |-> <<>>] /\ started = FALSE
    /\ edges \in [Modules -> UNION {Manifests[m] : m \in Modules}]
    /\ \A m \in Modules : edges[m] \in Manifests[m]
    /\ redeclared = {}
    /\ loaded = {} /\ token = [m \in Modules |-> 0]
    /\ pc = [t \in Threads |-> "idle"] /\ cur = [t \in Threads |-> None]
    /\ queue = <<>> /\ job = NoJob
    /\ table = [m \in Modules |-> Open] /\ identity = [m \in Modules |-> 0]
    /\ initialised = FALSE /\ died = {} /\ informed = {} /\ overtaken = {}
    /\ ops = 0

-----------------------------------------------------------------------------
(* The derivation.                                                         *)

DependenciesOf(m) == edges[m].required \cup edges[m].optional

Declares(d, target) == target \in DependenciesOf(d)

\* Mutant of DerivedAllowedCallersFor: only required dependents are callers.
DerivedFromRequired(target) ==
    IF target \in Exempt \/ ~policy.on THEN {}
    ELSE IF target \in DOMAIN policy.explicit THEN policy.explicit[target]
    ELSE {d \in loaded \cap Modules : target \in edges[d].required} \cup Trusted

\* derivedAllowedCallersFor: empty for an exempt target or without an enforce
\* policy; an explicit entry is taken verbatim; otherwise the loaded dependents,
\* required or optional, and the trusted callers.
DerivedAllowedCallersFor(target) ==
    IF target \in Exempt \/ ~policy.on THEN {}
    ELSE IF target \in DOMAIN policy.explicit THEN policy.explicit[target]
    ELSE {d \in loaded \cap Modules : Declares(d, target)} \cup Trusted

\* The targets whose callers a load or an unload of m changes, in push order.
TargetsOf(m) ==
    SetToSeq(edges[m].required) \o SetToSeq(edges[m].optional) \o <<m>>

-----------------------------------------------------------------------------
(* Configuration.                                                          *)

\* setAccessPolicy: a document that does not parse, or of another mode, leaves
\* no policy. The host calls it before logos_core_start().
SetAccessPolicy(d) ==
    /\ ~started /\ pc[Owner] = "idle"
    /\ policy' = IF d.valid /\ d.mode = "enforce"
                 THEN [on |-> TRUE, explicit |-> d.restrictions]
                 ELSE [on |-> FALSE, explicit |-> <<>>]
    /\ UNCHANGED <<started, loaded, token, threadVars, queue, job, brokerVars,
                   history, ops, scanVars>>

-----------------------------------------------------------------------------
(* Loads and unloads: a span on one module per thread. What comes before   *)
(* the commit changes nothing here and may fail.                           *)

\* runOnOwner for a thread and a piece of work: posted, or done now.
OwnerIsFree == job = NoJob

Busy(m) == \E t \in Threads : cur[t] = m

Begins(t, m) ==
    /\ pc[t] = "idle" /\ ops < MaxOps /\ ~Busy(m)
    /\ t = Owner => OwnerIsFree
    /\ ops' = ops + 1
    /\ cur' = [cur EXCEPT ![t] = m]

Goto(t, l) == pc' = [pc EXCEPT ![t] = l]

\* initializeCapabilityModule, from logos_core_start on the owner thread.
Start ==
    /\ ~started
    /\ Begins(Owner, Capability)
    /\ started' = TRUE
    /\ Goto(Owner, "start")
    /\ UNCHANGED <<policy, loaded, token, queue, job, brokerVars, history, scanVars>>

\* commitLoad of capability_module, a fresh process: it knows nothing yet.
BrokerUp(init) ==
    /\ loaded' = loaded \cup {Capability}
    /\ table' = [m \in Modules |-> Open]
    /\ identity' = [m \in Modules |-> 0]
    /\ informed' = {}
    /\ initialised' = init

StartCommits ==
    /\ pc[Owner] = "start"
    /\ BrokerUp(TRUE)
    /\ Goto(Owner, "explicit")
    /\ UNCHANGED <<configVars, token, cur, queue, job, died, overtaken, ops, scanVars>>

StartFails ==
    /\ pc[Owner] = "start"
    /\ Goto(Owner, "done")
    /\ UNCHANGED <<configVars, loaded, token, cur, queue, job, brokerVars, history,
                   ops, scanVars>>

\* pushAccessRestrictionsToCapabilityModule, then every module loaded by now.
PushExplicit ==
    /\ pc[Owner] = "explicit"
    /\ table' = [m \in Modules |->
                   IF /\ policy.on /\ Capability \in loaded
                      /\ m \in DOMAIN policy.explicit \ Exempt
                   THEN policy.explicit[m] ELSE table[m]]
    /\ job' = [NoJob EXCEPT !.targets = SetToSeq(loaded)]
    /\ Goto(Owner, "done")
    /\ UNCHANGED <<configVars, loaded, token, cur, queue, identity, history, ops, scanVars>>

\* A load that logos_core_start does not make: a supervised restart of
\* capability_module, or the host's own call. No restriction is pushed.
BrokerReloads(t) ==
    /\ started /\ Capability \notin loaded
    /\ Begins(t, Capability)
    /\ BrokerUp(FALSE)
    /\ Goto(t, "done")
    /\ UNCHANGED <<configVars, token, queue, job, died, overtaken, scanVars>>

LoadCommits(t, m) ==
    /\ m \notin loaded
    /\ Begins(t, m)
    /\ loaded' = loaded \cup {m}
    /\ token' = [token EXCEPT ![m] = @ + 1]
    /\ died' = died \ {m}
    /\ Goto(t, "notify")
    /\ UNCHANGED <<configVars, queue, job, brokerVars, initialised, informed,
                   overtaken, scanVars>>

UnloadMarks(t, m) ==
    /\ m \in loaded
    /\ Begins(t, m)
    /\ loaded' = loaded \ {m}
    /\ Goto(t, "refresh")
    /\ UNCHANGED <<configVars, token, queue, job, brokerVars, history, scanVars>>

\* notifyCapabilityModule: nothing without the broker; the token goes out now
\* from the owner, and behind what is queued from any other thread.
Queued(m) == \E i \in DOMAIN queue : queue[i].kind = "notify" /\ queue[i].name = m

NotifySkips(t) ==
    /\ pc[t] = "notify" /\ Capability \notin loaded
    /\ Goto(t, "refresh")
    /\ UNCHANGED <<configVars, loaded, token, cur, queue, job, brokerVars, history,
                   ops, scanVars>>

\* Mutant of NotifyPosts: the token read is the one saved before this load.
NotifyPostsSaved(t) ==
    /\ pc[t] = "notify" /\ Capability \in loaded /\ t # Owner
    /\ queue' = Append(queue, [kind |-> "notify", name |-> cur[t],
                               token |-> token[cur[t]] - 1])
    /\ informed' = informed \cup {cur[t]}
    /\ overtaken' = overtaken \ {cur[t]}
    /\ Goto(t, "refresh")
    /\ UNCHANGED <<configVars, loaded, token, cur, job, brokerVars, initialised,
                   died, ops, scanVars>>

NotifyPosts(t) ==
    /\ pc[t] = "notify" /\ Capability \in loaded /\ t # Owner
    /\ queue' = Append(queue, [kind |-> "notify", name |-> cur[t],
                               token |-> token[cur[t]]])
    /\ informed' = informed \cup {cur[t]}
    /\ overtaken' = overtaken \ {cur[t]}
    /\ Goto(t, "refresh")
    /\ UNCHANGED <<configVars, loaded, token, cur, job, brokerVars, initialised,
                   died, ops, scanVars>>

NotifyInline ==
    /\ pc[Owner] = "notify" /\ Capability \in loaded
    /\ identity' = [identity EXCEPT ![cur[Owner]] = token[cur[Owner]]]
    /\ informed' = informed \cup {cur[Owner]}
    /\ overtaken' = IF Queued(cur[Owner]) THEN overtaken \cup {cur[Owner]}
                    ELSE overtaken \ {cur[Owner]}
    /\ Goto(Owner, "refresh")
    /\ UNCHANGED <<configVars, loaded, token, cur, queue, job, table, initialised,
                   died, ops, scanVars>>

\* refreshDerivedRestrictionsForDependenciesOf.
RefreshSkips(t) ==
    /\ pc[t] = "refresh" /\ Capability \notin loaded
    /\ Goto(t, "done")
    /\ UNCHANGED <<configVars, loaded, token, cur, queue, job, brokerVars, history,
                   ops, scanVars>>

RefreshPosts(t) ==
    /\ pc[t] = "refresh" /\ Capability \in loaded /\ t # Owner
    /\ queue' = Append(queue, [kind |-> "refresh", name |-> cur[t]])
    /\ Goto(t, "done")
    /\ UNCHANGED <<configVars, loaded, token, cur, job, brokerVars, history, ops, scanVars>>

RefreshInline ==
    /\ pc[Owner] = "refresh" /\ Capability \in loaded
    /\ job' = [NoJob EXCEPT !.targets = TargetsOf(cur[Owner])]
    /\ Goto(Owner, "done")
    /\ UNCHANGED <<configVars, loaded, token, cur, queue, brokerVars, history, ops, scanVars>>

\* The call returns, on the owner once its pushes are through.
Returns(t) ==
    /\ pc[t] = "done"
    /\ t = Owner => OwnerIsFree
    /\ Goto(t, "idle")
    /\ cur' = [cur EXCEPT ![t] = None]
    /\ UNCHANGED <<configVars, loaded, token, queue, job, brokerVars, history, ops, scanVars>>

-----------------------------------------------------------------------------
(* The owner thread.                                                       *)

\* Its event loop takes the next piece of posted work.
OwnerTakes ==
    /\ pc[Owner] = "idle" /\ OwnerIsFree /\ queue # <<>>
    /\ queue' = Tail(queue)
    /\ IF Head(queue).kind = "refresh"
       THEN job' = [NoJob EXCEPT !.targets = TargetsOf(Head(queue).name)]
            /\ UNCHANGED identity
       ELSE /\ identity' = IF Capability \in loaded
                           THEN [identity EXCEPT ![Head(queue).name] = Head(queue).token]
                           ELSE identity
            /\ UNCHANGED job
    /\ UNCHANGED <<configVars, loaded, token, threadVars, table, history, ops, scanVars>>

\* pushDerivedRestrictionForTarget: the callers are read from the registry as it
\* is now. Nothing is sent without a broker or for an empty list.
PushReads ==
    /\ job.target = None /\ job.targets # <<>>
    /\ LET t == Head(job.targets)
           callers == DerivedAllowedCallersFor(t)
           skip == Capability \notin loaded \/ callers = {}
       IN job' = [targets |-> Tail(job.targets),
                  target |-> IF skip THEN None ELSE t,
                  callers |-> IF skip THEN {} ELSE callers]
    /\ redeclared' = redeclared \ {Head(job.targets)}
    /\ UNCHANGED <<configVars, loaded, edges, token, threadVars, queue, brokerVars,
                   history, ops>>

\* registerRestrictionRpc: lost if the broker has gone meanwhile.
PushSends ==
    /\ job.target # None
    /\ table' = IF Capability \in loaded
                THEN [table EXCEPT ![job.target] = job.callers] ELSE table
    /\ job' = [job EXCEPT !.target = None, !.callers = {}]
    /\ UNCHANGED <<configVars, loaded, token, threadVars, queue, identity, history,
                   ops, scanVars>>

-----------------------------------------------------------------------------
(* Deaths: onTerminated marks the module unloaded and pushes nothing.      *)

Dies(m) ==
    /\ m \in loaded \cap Modules /\ ops < MaxOps
    /\ ops' = ops + 1
    /\ loaded' = loaded \ {m}
    /\ died' = died \cup {m}
    /\ UNCHANGED <<configVars, token, threadVars, queue, job, brokerVars,
                   initialised, informed, overtaken, scanVars>>

\* capability_module dies, or is unloaded: the refresh after it finds it gone.
BrokerGoes ==
    /\ Capability \in loaded /\ ops < MaxOps
    /\ ops' = ops + 1
    /\ loaded' = loaded \ {Capability}
    /\ initialised' = FALSE
    /\ informed' = {}
    /\ UNCHANGED <<configVars, token, threadVars, queue, job, brokerVars, died,
                   overtaken, scanVars>>

\* discoverInstalledModules, under no lock a load holds: a scan that finds
\* another manifest in a module's package replaces its edges, whether it is loaded or
\* not, and has nothing pushed.
Rescans(m, e) ==
    /\ e # edges[m] /\ ops < MaxOps
    /\ ops' = ops + 1
    /\ edges' = [edges EXCEPT ![m] = e]
    /\ redeclared' = redeclared \cup
                      {t \in Modules : ~(Declares(m, t) <=> t \in e.required \cup e.optional)}
    /\ UNCHANGED <<configVars, loaded, token, threadVars, queue, job, brokerVars,
                   history>>

\* clear(), with the fleet lock held: no load is in progress. Every module goes
\* down and the policy is forgotten; what is queued on the owner stays queued.
Clear ==
    /\ started /\ ops < MaxOps
    /\ \A t \in Threads : pc[t] = "idle"
    /\ OwnerIsFree
    /\ ops' = ops + 1
    /\ loaded' = {} /\ started' = FALSE
    /\ policy' = [on |-> FALSE, explicit |-> <<>>]
    /\ initialised' = FALSE /\ informed' = {}
    /\ UNCHANGED <<token, threadVars, queue, job, brokerVars, died, overtaken, scanVars>>

-----------------------------------------------------------------------------

AtRest ==
    /\ \A t \in Threads : pc[t] = "idle"
    /\ queue = <<>> /\ job = NoJob

Finished == AtRest /\ ops = MaxOps /\ UNCHANGED vars

Next ==
    \/ \E d \in Documents : SetAccessPolicy(d)
    \/ Start \/ StartCommits \/ StartFails \/ PushExplicit
    \/ \E t \in Threads :
          \/ BrokerReloads(t)
          \/ \E m \in Modules : LoadCommits(t, m) \/ UnloadMarks(t, m)
          \/ NotifySkips(t) \/ NotifyPosts(t)
          \/ RefreshSkips(t) \/ RefreshPosts(t) \/ Returns(t)
    \/ NotifyInline \/ RefreshInline
    \/ OwnerTakes \/ PushReads \/ PushSends
    \/ \E m \in Modules : Dies(m)
    \/ \E m \in Modules : \E e \in Manifests[m] : Rescans(m, e)
    \/ BrokerGoes \/ Clear
    \/ Finished

Spec == Init /\ [][Next]_vars

-----------------------------------------------------------------------------
(* Properties.                                                             *)

\* Who may call t: its explicit list, or the loaded modules that declare it.
Rightful(t) ==
    IF t \in DOMAIN policy.explicit THEN policy.explicit[t]
    ELSE {d \in loaded \cap Modules : Declares(d, t)} \cup Trusted

\* Once the pushes are through, capability_module enforces the policy of now:
\* every loaded target is restricted, to its explicit list or to exactly its
\* loaded declared dependents and the trusted callers
\* (refreshDerivedRestrictionsForDependenciesOf). No load, on whatever thread,
\* ends with the last word spoken by a push that read the registry before it.
\* Three exceptions: a caller that crashed keeps its entry; a target whose
\* dependents a rescan changed is enforced as before until it is next pushed; and
\* only the capability_module that logos_core_start brought up is told at all.
RestrictionsCurrent ==
    AtRest /\ policy.on /\ initialised =>
        \A t \in loaded \ (Exempt \cup redeclared) :
            /\ table[t] # Open
            /\ Rightful(t) \subseteq table[t]
            /\ table[t] \ Rightful(t) \subseteq died

\* capability_module knows a loaded module by the token of its present load
\* (notifyCapabilityModule), whatever loads, unloads and crashes preceded it.
\* The exception is a load on the owner thread whose token goes out while the
\* one of an earlier load is still queued and then has the last word.
IdentityCurrent ==
    AtRest =>
        \A m \in loaded \cap informed :
            identity[m] = token[m] \/ m \in overtaken
=============================================================================
