------------------------------ MODULE WebRouter ------------------------------
(***************************************************************************)
(* What a page asks of the host (web_call_router.cpp): WebCallRouter takes *)
(* the page's messages on the channel's delivery thread, posts the work to *)
(* the Qt main thread, and runs it there against LogosApiRoutes while the  *)
(* gate is open. Emissions arrive on the emitting module's thread. stop()  *)
(* is called by the teardown of WebContainer, on the main thread or on the *)
(* host thread that unloads the module.                                    *)
(***************************************************************************)
EXTENDS Naturals, Sequences, FiniteSets

CONSTANTS
    Keys,       \* the (object, event) pairs the page may subscribe to
    Calls,      \* the calls it may make
    Stoppers,   \* where stop() may run: a subset of {"main", "other"}
    MaxSubs     \* bound: Subscribe and Unsubscribe messages

ASSUME RouterAssumption ==
    /\ Stoppers \subseteq {"main", "other"}
    /\ MaxSubs \in Nat
    /\ Keys \cap Calls = {}

VARIABLES
    \* ---- WebCallRouter ----
    routes,     \* m_routes is not null
    sinks,      \* m_sinks: the pairs the page is subscribed to
    alive,      \* Gate::alive
    \* ---- LogosApiRoutes and the client behind it ----
    held,       \* m_subscriptions: pairs with a subscription id
    armed,      \* pair -> subscriptions live in the client
    \* ---- threads ----
    delivery,   \* the message the delivery thread is handling, and how far
    queue,      \* work posted to the main thread
    frames,     \* calls of the page on the main thread's stack, innermost last
    work,       \* the (un)subscription the main thread is inside
    emission,   \* the event the emitting thread is handing over
    stopPc,     \* how far stop() is
    stopper,    \* the thread it runs on
    taken,      \* the pairs it took out of m_sinks and has yet to withdraw
    \* ---- the page ----
    closed,     \* its connection is closed
    call,       \* what became of each call
    sent,       \* messages so far, for MaxSubs
    \* ---- history ----
    failed,     \* pairs whose subscription the client refused
    late,       \* pairs whose subscription was recorded after stop() began
    underway    \* pairs whose withdrawal was accepted, not made, by then

routerVars == <<routes, sinks, alive>>
clientVars == <<held, armed>>
mainVars == <<queue, frames, work>>
stopVars == <<stopPc, stopper, taken>>
pageVars == <<closed, call, sent>>
history == <<failed, late, underway>>
vars == <<routerVars, clientVars, delivery, mainVars, emission, stopVars,
          pageVars, history>>

Idle == [at |-> "idle"]

\* A container without a LogosAPI builds its router without routes.
Init ==
    /\ routes \in BOOLEAN /\ sinks = {} /\ alive = TRUE
    /\ held = {} /\ armed = [k \in Keys |-> 0]
    /\ delivery = Idle /\ queue = <<>> /\ frames = <<>> /\ work = Idle
    /\ emission = Idle
    /\ stopPc = "running" /\ stopper = "other" /\ taken = {}
    /\ closed = FALSE /\ call = [c \in Calls |-> "unsent"] /\ sent = 0
    /\ failed = {} /\ late = {} /\ underway = {}

-----------------------------------------------------------------------------
(* The delivery thread: a handler reads m_routes, updates m_sinks under    *)
(* m_mutex, and posts.                                                     *)

Post(kind, key, r) == Append(queue, [kind |-> kind, key |-> key, routes |-> r])

Message(kind, key) ==
    /\ delivery = Idle /\ ~closed
    /\ delivery' = [at |-> kind, key |-> key, routes |-> routes]

Subscribe(k) ==
    /\ sent < MaxSubs
    /\ sent' = sent + 1
    /\ Message("subscribe", k)
    /\ UNCHANGED <<routerVars, clientVars, mainVars, emission, stopVars, closed,
                   call, history>>

Unsubscribe(k) ==
    /\ sent < MaxSubs
    /\ sent' = sent + 1
    /\ Message("unsubscribe", k)
    /\ UNCHANGED <<routerVars, clientVars, mainVars, emission, stopVars, closed,
                   call, history>>

\* onCall and onMethods keep nothing: they read m_routes and post.
OnCall(c) ==
    /\ delivery = Idle /\ ~closed /\ call[c] = "unsent"
    /\ queue' = Post("call", c, routes)
    /\ call' = [call EXCEPT ![c] = "posted"]
    /\ UNCHANGED <<routerVars, clientVars, delivery, frames, work, emission,
                   stopVars, closed, sent, history>>

\* Mutant of OnSubscribe: a repeated Subscribe is posted again.
OnSubscribeAgain ==
    /\ delivery.at = "subscribe"
    /\ sinks' = sinks \cup {delivery.key}
    /\ delivery' = [delivery EXCEPT !.at = "postSubscribe"]
    /\ UNCHANGED <<routes, alive, clientVars, mainVars, emission, stopVars,
                   pageVars, history>>

\* onSubscribe under m_mutex: the sink is recorded; a pair that has one already
\* is not subscribed a second time.
OnSubscribe ==
    /\ delivery.at = "subscribe"
    /\ sinks' = sinks \cup {delivery.key}
    /\ delivery' = IF delivery.key \in sinks THEN Idle
                   ELSE [delivery EXCEPT !.at = "postSubscribe"]
    /\ UNCHANGED <<routes, alive, clientVars, mainVars, emission, stopVars,
                   pageVars, history>>

OnUnsubscribe ==
    /\ delivery.at = "unsubscribe"
    /\ sinks' = sinks \ {delivery.key}
    /\ delivery' = IF delivery.key \notin sinks THEN Idle
                   ELSE [delivery EXCEPT !.at = "postUnsubscribe"]
    /\ UNCHANGED <<routes, alive, clientVars, mainVars, emission, stopVars,
                   pageVars, history>>

DeliveryPosts ==
    /\ delivery.at \in {"postSubscribe", "postUnsubscribe"}
    /\ queue' = Post(IF delivery.at = "postSubscribe" THEN "subscribe"
                     ELSE "unsubscribe", delivery.key, delivery.routes)
    /\ delivery' = Idle
    /\ UNCHANGED <<routerVars, clientVars, frames, work, emission, stopVars,
                   pageVars, history>>

\* onConnectionClosed: the sinks are swapped out and one withdrawal is posted
\* for each of them. The channel delivers nothing after it.
OnConnectionClosed ==
    /\ delivery = Idle /\ ~closed
    /\ closed' = TRUE
    /\ delivery' = [at |-> "closing", keys |-> sinks, routes |-> routes]
    /\ sinks' = {}
    /\ UNCHANGED <<routes, alive, clientVars, mainVars, emission, stopVars, call,
                   sent, history>>

CloseWithdraws(k) ==
    /\ delivery.at = "closing" /\ k \in delivery.keys
    /\ queue' = Post("unsubscribe", k, delivery.routes)
    /\ delivery' = [delivery EXCEPT !.keys = @ \ {k}]
    /\ UNCHANGED <<routerVars, clientVars, frames, work, emission, stopVars,
                   pageVars, history>>

CloseEnds ==
    /\ delivery.at = "closing" /\ delivery.keys = {}
    /\ delivery' = Idle
    /\ UNCHANGED <<routerVars, clientVars, mainVars, emission, stopVars, pageVars,
                   history>>

-----------------------------------------------------------------------------
(* The main thread takes posted work in order, also from the event loop a  *)
(* call spins while it waits; runUnderGate drops it once the gate is shut. *)

\* Where the main thread's event loop may run the next thing.
MainFree == work = Idle /\ (stopper = "main" => stopPc \in {"running", "done"})

MainDrops ==
    /\ MainFree /\ queue # <<>> /\ ~alive
    /\ queue' = Tail(queue)
    /\ call' = IF Head(queue).kind = "call"
               THEN [call EXCEPT ![Head(queue).key] = "dropped"] ELSE call
    /\ UNCHANGED <<routerVars, clientVars, delivery, frames, work, emission,
                   stopVars, closed, sent, history>>

\* Mutant of CallEnters: a router without routes drops the call.
CallEntersSilently ==
    /\ MainFree /\ queue # <<>> /\ alive
    /\ Head(queue).kind = "call"
    /\ queue' = Tail(queue)
    /\ frames' = IF Head(queue).routes THEN Append(frames, Head(queue).key) ELSE frames
    /\ UNCHANGED <<routerVars, clientVars, delivery, work, emission, stopVars,
                   pageVars, history>>

\* A call enters the gate and waits for its target in a nested event loop;
\* without routes it is answered at once.
CallEnters ==
    /\ MainFree /\ queue # <<>> /\ alive
    /\ Head(queue).kind = "call"
    /\ queue' = Tail(queue)
    /\ IF Head(queue).routes
       THEN frames' = Append(frames, Head(queue).key) /\ UNCHANGED call
       ELSE call' = [call EXCEPT ![Head(queue).key] = "answered"] /\ UNCHANGED frames
    /\ UNCHANGED <<routerVars, clientVars, delivery, work, emission, stopVars,
                   closed, sent, history>>

\* The target answers or times out; refused or not, the page gets a reply.
CallReplies ==
    /\ MainFree /\ frames # <<>>
    /\ call' = [call EXCEPT ![frames[Len(frames)]] = "answered"]
    /\ frames' = SubSeq(frames, 1, Len(frames) - 1)
    /\ UNCHANGED <<routerVars, clientVars, delivery, queue, work, emission,
                   stopVars, closed, sent, history>>

WorkEnters ==
    /\ MainFree /\ queue # <<>> /\ alive
    /\ Head(queue).kind \in {"subscribe", "unsubscribe"}
    /\ queue' = Tail(queue)
    /\ work' = IF Head(queue).routes
               THEN [at |-> Head(queue).kind, key |-> Head(queue).key] ELSE Idle
    /\ UNCHANGED <<routerVars, clientVars, delivery, frames, emission, stopVars,
                   pageVars, history>>

\* LogosApiRoutes::subscribe: onEventWhenAvailable first, the id afterwards
\* under m_mutex.
SubscribeArms ==
    /\ work.at = "subscribe"
    /\ armed' = [armed EXCEPT ![work.key] = @ + 1]
    /\ work' = [work EXCEPT !.at = "hold"]
    /\ UNCHANGED <<routerVars, held, delivery, queue, frames, emission, stopVars,
                   pageVars, history>>

\* No client for the target, or no id: the sink stays where it is.
SubscribeFails ==
    /\ work.at = "subscribe"
    /\ work' = Idle
    /\ failed' = failed \cup {work.key}
    /\ UNCHANGED <<routerVars, clientVars, delivery, queue, frames, emission,
                   stopVars, pageVars, late, underway>>

SubscribeHolds ==
    /\ work.at = "hold"
    /\ held' = held \cup {work.key}
    /\ failed' = failed \ {work.key}
    /\ late' = IF stopPc = "running" THEN late ELSE late \cup {work.key}
    /\ work' = Idle
    /\ UNCHANGED <<routerVars, armed, delivery, queue, frames, emission, stopVars,
                   pageVars, underway>>

\* LogosApiRoutes::unsubscribe: the id leaves the table, then the client
\* cancels it.
UnsubscribeTakes ==
    /\ work.at = "unsubscribe"
    /\ held' = held \ {work.key}
    /\ work' = IF work.key \in held THEN [work EXCEPT !.at = "cancel"] ELSE Idle
    /\ UNCHANGED <<routerVars, armed, delivery, queue, frames, emission, stopVars,
                   pageVars, history>>

UnsubscribeCancels ==
    /\ work.at = "cancel"
    /\ armed' = [armed EXCEPT ![work.key] = @ - 1]
    /\ work' = Idle
    /\ UNCHANGED <<routerVars, held, delivery, queue, frames, emission, stopVars,
                   pageVars, history>>

-----------------------------------------------------------------------------
(* An emission, on the emitting module's thread: enter the gate, look the  *)
(* sink up, write, leave.                                                  *)

Emits(k) ==
    /\ emission = Idle /\ armed[k] > 0 /\ alive
    /\ emission' = [at |-> "lookup", key |-> k]
    /\ UNCHANGED <<routerVars, clientVars, delivery, mainVars, stopVars, pageVars,
                   history>>

EmissionFinds ==
    /\ emission.at = "lookup"
    /\ emission' = IF emission.key \in sinks THEN [emission EXCEPT !.at = "write"]
                   ELSE Idle
    /\ UNCHANGED <<routerVars, clientVars, delivery, mainVars, stopVars, pageVars,
                   history>>

EmissionWrites ==
    /\ emission.at = "write"
    /\ emission' = Idle
    /\ UNCHANGED <<routerVars, clientVars, delivery, mainVars, stopVars, pageVars,
                   history>>

-----------------------------------------------------------------------------
(* stop().                                                                 *)

\* Gate::noOtherThreadInside: frames of the stopping thread do not count.
NoOtherThreadInside ==
    /\ emission = Idle
    /\ stopper = "other" => work = Idle /\ frames = <<>>

\* A withdrawal the page asked for is on its way to the main thread.
Withdrawing(k) ==
    \/ delivery.at = "postUnsubscribe" /\ delivery.key = k
    \/ delivery.at = "closing" /\ k \in delivery.keys
    \/ \E i \in DOMAIN queue : queue[i].kind = "unsubscribe" /\ queue[i].key = k

StopBegins(s) ==
    /\ stopPc = "running"
    /\ s = "main" => work = Idle
    /\ stopper' = s
    /\ taken' = sinks
    /\ sinks' = {}
    /\ stopPc' = "withdraw"
    /\ underway' = {k \in Keys : Withdrawing(k)}
    /\ UNCHANGED <<routes, alive, clientVars, delivery, mainVars, emission,
                   pageVars, failed, late>>

\* Mutant of StopWithdraws: the withdrawal is posted like every other one.
StopPostsWithdrawal(k) ==
    /\ stopPc = "withdraw" /\ k \in taken
    /\ taken' = taken \ {k}
    /\ queue' = Post("unsubscribe", k, routes)
    /\ UNCHANGED <<routerVars, clientVars, delivery, frames, work, emission,
                   stopPc, stopper, pageVars, history>>

\* Directly, not posted: routes->unsubscribe on the stopping thread.
StopWithdraws(k) ==
    /\ stopPc = "withdraw" /\ k \in taken
    /\ taken' = taken \ {k}
    /\ IF routes /\ k \in held
       THEN held' = held \ {k} /\ armed' = [armed EXCEPT ![k] = @ - 1]
       ELSE UNCHANGED clientVars
    /\ UNCHANGED <<routerVars, delivery, mainVars, emission, stopPc, stopper,
                   pageVars, history>>

StopClosesGate ==
    /\ stopPc = "withdraw" /\ taken = {}
    /\ alive' = FALSE
    /\ stopPc' = "wait"
    /\ UNCHANGED <<routes, sinks, clientVars, delivery, mainVars, emission,
                   stopper, taken, pageVars, history>>

\* Mutant of StopReturns: the lock stands in for the wait.
StopReturnsAtOnce ==
    /\ stopPc = "wait"
    /\ routes' = FALSE
    /\ stopPc' = "done"
    /\ UNCHANGED <<sinks, alive, clientVars, delivery, mainVars, emission,
                   stopper, taken, pageVars, history>>

StopReturns ==
    /\ stopPc = "wait" /\ NoOtherThreadInside
    /\ routes' = FALSE
    /\ stopPc' = "done"
    /\ UNCHANGED <<sinks, alive, clientVars, delivery, mainVars, emission,
                   stopper, taken, pageVars, history>>

-----------------------------------------------------------------------------

DeliveryStep ==
    \/ OnSubscribe \/ OnUnsubscribe \/ DeliveryPosts
    \/ (\E k \in Keys : CloseWithdraws(k)) \/ CloseEnds

MainStep ==
    \/ MainDrops \/ CallEnters \/ WorkEnters
    \/ SubscribeArms \/ SubscribeFails \/ SubscribeHolds
    \/ UnsubscribeTakes \/ UnsubscribeCancels

EmitterStep == EmissionFinds \/ EmissionWrites

StopStep == (\E k \in Keys : StopWithdraws(k)) \/ StopClosesGate \/ StopReturns

\* The router is gone and nothing of it is left to run.
Finished ==
    /\ stopPc = "done" /\ closed /\ delivery = Idle /\ queue = <<>>
    /\ frames = <<>> /\ emission = Idle
    /\ UNCHANGED vars

Next ==
    \/ \E k \in Keys : Subscribe(k) \/ Unsubscribe(k) \/ Emits(k)
    \/ \E c \in Calls : OnCall(c)
    \/ OnConnectionClosed
    \/ DeliveryStep \/ MainStep \/ CallReplies \/ EmitterStep
    \/ \E s \in Stoppers : StopBegins(s)
    \/ StopStep
    \/ Finished

\* The threads keep running and a call out ends, at the latest with its timeout.
Fairness ==
    /\ WF_vars(DeliveryStep) /\ WF_vars(MainStep) /\ WF_vars(CallReplies)
    /\ WF_vars(EmitterStep) /\ WF_vars(StopStep)

Spec == Init /\ [][Next]_vars /\ Fairness

-----------------------------------------------------------------------------
(* Properties.                                                             *)

\* Nothing the page said about its subscriptions is still on its way.
Settled ==
    delivery = Idle /\ work = Idle /\ stopPc = "running"
    /\ \A i \in DOMAIN queue : queue[i].kind = "call"

\* Once the page's messages have been handled, exactly the pairs it is
\* subscribed to are armed in the core, each once and with its id at hand
\* (onSubscribe, onUnsubscribe, onConnectionClosed, LogosApiRoutes): however
\* repeats and withdrawals were interleaved with posted work, no subscription
\* is doubled, lost or left over. The exception is a subscription the client
\* refused, whose sink stays and keeps a repeat from trying again.
SubscriptionsAgree ==
    Settled /\ routes =>
        /\ held = sinks \ failed
        /\ \A k \in Keys : armed[k] = IF k \in held THEN 1 ELSE 0

\* stop() takes back what was armed on the page's behalf: when it has returned,
\* no subscription is live and no id is left for ~LogosApiRoutes, which runs
\* when the LogosAPI is gone. Two exceptions: one that the main thread armed
\* between the withdrawal and the closed gate, possible only when stop() runs
\* on another thread, and one whose own withdrawal was posted before stop() and
\* is dropped at the gate.
NothingLeftArmed ==
    stopPc = "done" =>
        \A k \in Keys :
            k \in held \/ armed[k] > 0 =>
                k \in underway \/ (stopper = "other" /\ k \in late)

\* Nothing reaches the page or the routes once stop() has returned: no emission
\* is between its sink's lookup and the write, and no work of another thread is
\* inside the routes that the teardown destroys next.
NoLateWork ==
    stopPc = "done" => emission = Idle /\ (stopper = "other" => work = Idle /\ frames = <<>>)

\* A page is not left to time out: every call it made is answered, with an
\* error if there is no host, unless the router was stopped first (onCall,
\* runUnderGate), nested event loops and refused work notwithstanding.
CallsAnswered ==
    \A c \in Calls :
        call[c] = "posted" ~> call[c] = "answered" \/ (call[c] = "dropped" /\ ~alive)
=============================================================================
