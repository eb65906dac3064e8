----------------------------- MODULE BareDispatch -----------------------------
(***************************************************************************)
(* The Native container's dispatch of one Bare module: InProcContainer     *)
(* launches and terminates instances of the module (inproc_container.cpp), *)
(* each with a BareModuleGlue that answers calls with a pending-call       *)
(* sentinel and runs them on a worker thread of its own                    *)
(* (bare_module_glue.cpp), over one image that stays mapped                *)
(* (bare_module_abi.cpp).                                                  *)
(***************************************************************************)
EXTENDS Naturals, Sequences, FiniteSets

CONSTANTS
    Calls,          \* inbound calls, each made once
    MaxInstances    \* bound: launches per behaviour

ASSUME BareAssumption == IsFiniteSet(Calls) /\ MaxInstances \in Nat

Instances == 1..MaxInstances

VARIABLES
    current,    \* the instance in m_modules, or 0
    opened,     \* instances launched so far
    mode,       \* m_dispatch: "inline" | "deferred" | "retired"
    queued,     \* m_queued, the calls registered and not claimed
    posted,     \* invocations posted to the worker's event loop
    stack,      \* the calls the worker is running, innermost last
    worker,     \* "none" | "running" | "quitting" | "exited"
    glue,       \* "none" | "live" | "abandoned" | "freed"
    attached,   \* instances whose LogosAPI, hence event listener, exists
    teardown,   \* the step terminate() has reached
    leaving,    \* the instance being terminated
    owner,      \* call -> the instance that took it, or 0
    answers,    \* call -> completions and direct answers delivered
    refs,       \* the loader's reference count on the image
    pinned      \* retainedImages() holds the image

glueVars == <<mode, queued, posted, stack, worker, glue, attached>>
imageVars == <<refs, pinned>>
callVars == <<owner, answers>>
vars == <<current, opened, glueVars, teardown, leaving, callVars, imageVars>>

Teardown == {"idle", "ask", "retire", "wait", "answer", "abandon", "answered",
             "unpublish", "free"}

Init ==
    /\ current = 0 /\ opened = 0
    /\ mode = [i \in Instances |-> "inline"]
    /\ queued = [i \in Instances |-> {}]
    /\ posted = [i \in Instances |-> <<>>]
    /\ stack = [i \in Instances |-> <<>>]
    /\ worker = [i \in Instances |-> "none"]
    /\ glue = [i \in Instances |-> "none"]
    /\ attached = {}
    /\ teardown = "idle" /\ leaving = 0
    /\ owner = [c \in Calls |-> 0]
    /\ answers = [c \in Calls |-> 0]
    /\ refs = 0 /\ pinned = FALSE

-----------------------------------------------------------------------------
(* The image.                                                              *)

\* Mutant of RetainImage: every close gives its reference back.
ReleaseImage(n) == refs' = n - 1 /\ pinned' = TRUE

\* closeBareModule on n references: the first close keeps its own for good,
\* later ones give theirs back.
RetainImage(n) ==
    /\ pinned' = TRUE
    /\ refs' = IF pinned THEN n - 1 ELSE n

-----------------------------------------------------------------------------
(* InProcContainer::launch. The manager holds the module's lock across a   *)
(* launch and across a terminate, so the two do not overlap.               *)

MayLaunch == teardown = "idle" /\ current = 0 /\ opened < MaxInstances

\* The image is opened, the glue published, deferral switched on, and only
\* then is the instance in the map.
Launch ==
    /\ MayLaunch
    /\ LET i == opened + 1
       IN /\ opened' = i /\ current' = i
          /\ mode' = [mode EXCEPT ![i] = "deferred"]
          /\ worker' = [worker EXCEPT ![i] = "running"]
          /\ glue' = [glue EXCEPT ![i] = "live"]
          /\ attached' = attached \cup {i}
    /\ refs' = refs + 1
    /\ UNCHANGED <<queued, posted, stack, teardown, leaving, callVars, pinned>>

\* The protocol handshake, the token store or the publication refuses: the
\* image is closed the retaining way.
LaunchRefused ==
    /\ MayLaunch
    /\ opened' = opened + 1
    /\ RetainImage(refs + 1)
    /\ UNCHANGED <<current, glueVars, teardown, leaving, callVars>>

\* Not a module: openBareModule gives back what it opened.
LaunchNotAModule ==
    /\ MayLaunch
    /\ opened' = opened + 1
    /\ UNCHANGED <<current, glueVars, teardown, leaving, callVars, imageVars>>

-----------------------------------------------------------------------------
(* BareModuleGlue: calls and the worker.                                   *)

\* callMethod while deferring: registered, posted, and answered the sentinel.
CallDeferred(c, i) ==
    /\ owner[c] = 0 /\ i \in attached /\ mode[i] = "deferred"
    /\ owner' = [owner EXCEPT ![c] = i]
    /\ queued' = [queued EXCEPT ![i] = @ \cup {c}]
    /\ posted' = [posted EXCEPT ![i] = Append(@, c)]
    /\ UNCHANGED <<current, opened, mode, stack, worker, glue, attached, teardown,
                   leaving, answers, imageVars>>

\* callMethod once retired: the unloading answer, on the spot.
CallRetired(c, i) ==
    /\ owner[c] = 0 /\ i \in attached /\ mode[i] = "retired"
    /\ owner' = [owner EXCEPT ![c] = i]
    /\ answers' = [answers EXCEPT ![c] = @ + 1]
    /\ UNCHANGED <<current, opened, glueVars, teardown, leaving, imageVars>>

\* The worker's event loop delivers the next invocation; a handler that spins
\* a nested loop lets it deliver one more on top.
MayDeliver(i) ==
    worker[i] \in {"running", "quitting"} /\ posted[i] # <<>>

\* Mutant of WorkerRuns: the invocation does not ask whose call it is.
WorkerRunsUnclaimed(i) ==
    /\ MayDeliver(i)
    /\ posted' = [posted EXCEPT ![i] = Tail(@)]
    /\ queued' = [queued EXCEPT ![i] = @ \ {Head(posted[i])}]
    /\ stack' = [stack EXCEPT ![i] = Append(@, Head(posted[i]))]
    /\ UNCHANGED <<current, opened, mode, worker, glue, attached, teardown,
                   leaving, callVars, imageVars>>

\* claimQueuedCall succeeds and the dispatch enters the image.
WorkerRuns(i) ==
    /\ MayDeliver(i) /\ Head(posted[i]) \in queued[i]
    /\ posted' = [posted EXCEPT ![i] = Tail(@)]
    /\ queued' = [queued EXCEPT ![i] = @ \ {Head(posted[i])}]
    /\ stack' = [stack EXCEPT ![i] = Append(@, Head(posted[i]))]
    /\ UNCHANGED <<current, opened, mode, worker, glue, attached, teardown,
                   leaving, callVars, imageVars>>

\* The stop answered it already.
WorkerSkips(i) ==
    /\ MayDeliver(i) /\ Head(posted[i]) \notin queued[i]
    /\ posted' = [posted EXCEPT ![i] = Tail(@)]
    /\ UNCHANGED <<current, opened, mode, queued, stack, worker, glue, attached,
                   teardown, leaving, callVars, imageVars>>

\* deliverCompletion: through the listener, if there is one.
Completed(S, i) ==
    answers' = [c \in Calls |-> IF c \in S /\ i \in attached THEN answers[c] + 1
                                ELSE answers[c]]

\* The innermost dispatch returns.
WorkerCompletes(i) ==
    /\ stack[i] # <<>>
    /\ stack' = [stack EXCEPT ![i] = SubSeq(@, 1, Len(@) - 1)]
    /\ Completed({stack[i][Len(stack[i])]}, i)
    /\ UNCHANGED <<current, opened, mode, queued, posted, worker, glue, attached,
                   teardown, leaving, owner, imageVars>>

\* quit() takes effect between two invocations, wherever the loop then is.
WorkerExits(i) ==
    /\ worker[i] = "quitting" /\ stack[i] = <<>>
    /\ worker' = [worker EXCEPT ![i] = "exited"]
    /\ UNCHANGED <<current, opened, mode, queued, posted, stack, glue, attached,
                   teardown, leaving, callVars, imageVars>>

-----------------------------------------------------------------------------
(* InProcContainer::terminate.                                             *)

Goto(s) == teardown' = s

\* Out of the map first.
TerminateBegins ==
    /\ teardown = "idle" /\ current # 0
    /\ leaving' = current /\ current' = 0
    /\ Goto("ask")
    /\ UNCHANGED <<opened, glueVars, callVars, imageVars>>

\* aboutToUnload: the image is asked, and if it wants time it gets a bounded wait.
\* The call itself is bounded by nothing, so no fairness obliges this step.
AboutToUnload ==
    /\ teardown = "ask"
    /\ Goto("retire")
    /\ UNCHANGED <<current, opened, glueVars, leaving, callVars, imageVars>>

\* stopDispatch: retire, then ask the worker's loop to stop...
Retire ==
    /\ teardown = "retire"
    /\ mode' = [mode EXCEPT ![leaving] = "retired"]
    /\ worker' = [worker EXCEPT ![leaving] = "quitting"]
    /\ Goto("wait")
    /\ UNCHANGED <<current, opened, queued, posted, stack, glue, attached, leaving,
                   callVars, imageVars>>

\* ...wait for it...
WaitStopped ==
    /\ teardown = "wait" /\ worker[leaving] = "exited"
    /\ Goto("answer")
    /\ UNCHANGED <<current, opened, glueVars, leaving, callVars, imageVars>>

\* Mutant of WaitTimesOut: the wait has no bound.
WaitForever ==
    /\ teardown = "wait" /\ worker[leaving] = "exited"
    /\ Goto("abandon")
    /\ UNCHANGED <<current, opened, glueVars, leaving, callVars, imageVars>>

\* ...for graceMs at most...
WaitTimesOut ==
    /\ teardown = "wait" /\ worker[leaving] # "exited"
    /\ Goto("abandon")
    /\ UNCHANGED <<current, opened, glueVars, leaving, callVars, imageVars>>

\* Mutant of AnswerQueued: only a stopped worker's calls are answered.
AnswerIfStopped ==
    /\ teardown \in {"answer", "abandon"}
    /\ Goto(IF teardown = "answer" THEN "unpublish" ELSE "answered")
    /\ queued' = [queued EXCEPT ![leaving] = {}]
    /\ Completed(IF teardown = "answer" THEN queued[leaving] ELSE {}, leaving)
    /\ UNCHANGED <<current, opened, mode, posted, stack, worker, glue, attached,
                   leaving, owner, imageVars>>

\* ...and answer whatever is still queued, whether it stopped or not.
AnswerQueued ==
    /\ teardown \in {"answer", "abandon"}
    /\ Goto(IF teardown = "answer" THEN "unpublish" ELSE "answered")
    /\ queued' = [queued EXCEPT ![leaving] = {}]
    /\ Completed(queued[leaving], leaving)
    /\ UNCHANGED <<current, opened, mode, posted, stack, worker, glue, attached,
                   leaving, owner, imageVars>>

\* Mutant of Abandon: the glue is destroyed all the same.
AbandonFrees ==
    /\ teardown = "answered"
    /\ glue' = [glue EXCEPT ![leaving] = "freed"]
    /\ leaving' = 0
    /\ Goto("idle")
    /\ UNCHANGED <<current, opened, mode, queued, posted, stack, worker, attached,
                   callVars, imageVars>>

\* The worker is still inside: the instance is kept for the life of the process,
\* its LogosAPI and its image reference with it.
Abandon ==
    /\ teardown = "answered"
    /\ glue' = [glue EXCEPT ![leaving] = "abandoned"]
    /\ leaving' = 0
    /\ Goto("idle")
    /\ UNCHANGED <<current, opened, mode, queued, posted, stack, worker, attached,
                   callVars, imageVars>>

\* It stopped: the worker and what is still posted go, the LogosAPI goes...
Unpublish ==
    /\ teardown = "unpublish"
    /\ posted' = [posted EXCEPT ![leaving] = <<>>]
    /\ attached' = attached \ {leaving}
    /\ Goto("free")
    /\ UNCHANGED <<current, opened, mode, queued, stack, worker, glue, leaving,
                   callVars, imageVars>>

\* ...then the glue, then the host's hold on the image.
FreeInstance ==
    /\ teardown = "free"
    /\ glue' = [glue EXCEPT ![leaving] = "freed"]
    /\ RetainImage(refs)
    /\ leaving' = 0
    /\ Goto("idle")
    /\ UNCHANGED <<current, opened, mode, queued, posted, stack, worker, attached,
                   callVars>>

-----------------------------------------------------------------------------

WorkerStep(i) == WorkerRuns(i) \/ WorkerSkips(i) \/ WorkerExits(i)

TeardownStep ==
    \/ AboutToUnload \/ Retire \/ WaitStopped \/ WaitTimesOut \/ AnswerQueued
    \/ Abandon \/ Unpublish \/ FreeInstance

\* There is nothing left to launch or terminate.
Finished ==
    /\ opened = MaxInstances /\ current = 0 /\ teardown = "idle"
    /\ UNCHANGED vars

Next ==
    \/ Launch \/ LaunchRefused \/ LaunchNotAModule
    \/ TerminateBegins \/ TeardownStep
    \/ \E i \in Instances : WorkerStep(i) \/ WorkerCompletes(i)
    \/ \E i \in Instances, c \in Calls : CallDeferred(c, i) \/ CallRetired(c, i)
    \/ Finished

\* The threads run; nothing obliges a handler, or the image asked whether it is
\* ready, to return.
Fairness ==
    /\ WF_vars(TeardownStep /\ teardown # "ask")
    /\ \A i \in Instances : WF_vars(WorkerStep(i))

\* Every handler returns in the end: what PromiseKept supposes.
Returns == \A i \in Instances : WF_vars(WorkerCompletes(i))

\* The image returns from aboutToUnload() in the end: what TerminateReturns supposes.
Answers == WF_vars(AboutToUnload)

Spec == Init /\ [][Next]_vars
FairSpec == Spec /\ Fairness

-----------------------------------------------------------------------------
(* Properties.                                                             *)

\* Every variable holds a value of its type (Instance, Dispatch, QueuedCall).
TypeOK ==
    /\ current \in 0..opened /\ opened \in 0..MaxInstances
    /\ mode \in [Instances -> {"inline", "deferred", "retired"}]
    /\ queued \in [Instances -> SUBSET Calls]
    /\ posted \in [Instances -> Seq(Calls)] /\ stack \in [Instances -> Seq(Calls)]
    /\ worker \in [Instances -> {"none", "running", "quitting", "exited"}]
    /\ glue \in [Instances -> {"none", "live", "abandoned", "freed"}]
    /\ attached \subseteq {i \in Instances : glue[i] \in {"live", "abandoned"}}
    /\ teardown \in Teardown /\ leaving \in 0..MaxInstances
    /\ owner \in [Calls -> 0..MaxInstances]
    /\ answers \in [Calls -> Nat]
    /\ refs \in Nat /\ pinned \in BOOLEAN

\* The sentinel promises ONE completion: never two, whichever of the worker and
\* the stop reaches a call first (claimQueuedCall, takeQueuedCalls).
AnsweredOnce == \A c \in Calls : answers[c] <= 1

\* A glue is destroyed only when nothing can reach it: its worker has left the
\* image and ended, and every call it answered a sentinel to is settled
\* (stopDispatch before glue.reset()).
FreedWhenQuiet ==
    \A i \in Instances :
        glue[i] = "freed" =>
            /\ worker[i] \in {"none", "exited"} /\ stack[i] = <<>>
            /\ \A c \in Calls : owner[c] = i => answers[c] = 1

\* The image is mapped while anybody may still run in it, and a load/unload
\* cycle does not leak a reference: one pin, plus one per instance not freed
\* (closeBareModule, retainImage).
ImageAccounted ==
    /\ refs = Cardinality({i \in Instances : glue[i] \in {"live", "abandoned"}})
                 + (IF pinned THEN 1 ELSE 0)
    /\ (\E i \in Instances : glue[i] = "freed") => refs > 0

\* The promise is kept during teardown too: a caller that got a sentinel gets a
\* completion, even from an instance that is abandoned with its worker still
\* inside, provided handlers return.
PromiseKept == Returns => \A c \in Calls : owner[c] # 0 ~> answers[c] = 1

\* terminate() comes back although a handler may never return (kUnloadGraceMs),
\* provided the image returns from the one call that terminate() makes into it and
\* waits for without a bound, aboutToUnload().
TerminateReturns == Answers => (teardown # "idle" ~> teardown = "idle")
=============================================================================
