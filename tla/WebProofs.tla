------------------------------- MODULE WebProofs -------------------------------
(***************************************************************************)
(* Safety of WebRouter, for any keys, calls and bounds, and of the web     *)
(* container around it, for any number of launches, calls and frames.      *)
(*                                                                         *)
(* The router. A subscription is in four places at once: m_sinks on the    *)
(* delivery thread, work posted to the main thread, the work being done    *)
(* there, and the client. The invariant follows each pair through the      *)
(* queue: posted subscriptions and withdrawals of a pair alternate, the    *)
(* first of them undoes what the client holds, and the last leaves what    *)
(* the page wants. What stop() must find follows from it at the moment     *)
(* stop() begins.                                                          *)
(*                                                                         *)
(* The container (last part, ContainerSpec). That a lost page is not       *)
(* destroyed under its calls is not inductive: between a sweep's look at   *)
(* the parked instances and their destruction the main thread takes new    *)
(* calls. The invariant says more: while a call that came in before the    *)
(* loss is unwinding, its instance is parked, so no sweep has lifted it    *)
(* out. It needs to know which instances are in the map, being opened, or  *)
(* in a tearDown's hands: none of them is parked.                          *)
(***************************************************************************)
EXTENDS WebRouter, WebContainer, Integers, SequenceTheorems, WellFoundedInduction, TLAPS

\* What the threads have in hand, and what is posted.
Deliveries ==
    {Idle}
    \cup [at : {"subscribe", "unsubscribe", "postSubscribe", "postUnsubscribe"},
          key : Keys, routes : BOOLEAN]
    \cup [at : {"closing"}, keys : SUBSET Keys, routes : BOOLEAN]
Posts ==
    [kind : {"subscribe", "unsubscribe"}, key : Keys, routes : BOOLEAN]
    \cup [kind : {"call"}, key : Calls, routes : BOOLEAN]
Works == {Idle} \cup [at : {"subscribe", "hold", "unsubscribe", "cancel"}, key : Keys]
Emissions == {Idle} \cup [at : {"lookup", "write"}, key : Keys]

\* The router, the client, the threads and the page hold values of their types.
Typed ==
    /\ routes \in BOOLEAN /\ alive \in BOOLEAN /\ sinks \subseteq Keys
    /\ held \subseteq Keys /\ armed \in [Keys -> Int]
    /\ delivery \in Deliveries /\ queue \in Seq(Posts) /\ frames \in Seq(Calls)
    /\ work \in Works /\ emission \in Emissions
    /\ stopPc \in {"running", "withdraw", "wait", "done"}
    /\ stopper \in {"main", "other"} /\ taken \subseteq Keys
    /\ failed \subseteq Keys /\ late \subseteq Keys /\ underway \subseteq Keys

Running == stopPc = "running"
WorkOn(k) == work # Idle /\ work.key = k

\* The gate is open until stop() has withdrawn what it took, and work of the main
\* thread does not run under a stop() that runs there itself.
Gate ==
    /\ alive <=> stopPc \in {"running", "withdraw"}
    /\ stopPc \in {"wait", "done"} => taken = {}
    /\ stopper = "main" /\ ~Running => work = Idle /\ late = {}
    /\ Running => late = {}

\* Work carries the routes it was posted with, which stop() resets last; without
\* routes nothing is ever armed.
Routed ==
    stopPc # "done" =>
        /\ delivery # Idle => delivery.routes = routes
        /\ \A i \in DOMAIN queue : queue[i].routes = routes
        /\ ~routes => held = {} /\ work = Idle /\ \A k \in Keys : armed[k] = 0

\* What the page's messages that are posted by now leave the pair k in.
Wanted(k) ==
    \/ k \in sinks /\ ~(delivery.at = "postSubscribe" /\ delivery.key = k)
    \/ delivery.at = "postUnsubscribe" /\ delivery.key = k
    \/ delivery.at = "closing" /\ k \in delivery.keys

\* What the client is left in by the work at hand; a refused pair is in neither.
Present(k) ==
    \/ work.at \in {"subscribe", "hold"} /\ WorkOn(k)
    \/ k \in held /\ ~WorkOn(k)
Refusal(k) == k \in failed /\ ~WorkOn(k)

\* The delivery thread has done to m_sinks what it is about to post.
Recorded ==
    /\ delivery.at = "postSubscribe" => delivery.key \in sinks
    /\ delivery.at = "postUnsubscribe" => delivery.key \notin sinks
    /\ delivery.at = "closing" => sinks = {}

\* The posted work of a pair, oldest first: it starts by undoing what is there,
\* alternates, and ends in what the page wants.
Starts ==
    \A k \in Keys, i \in DOMAIN queue :
        /\ queue[i].key = k
        /\ \A l \in DOMAIN queue : l < i => queue[l].key # k
        => Refusal(k) \/ (queue[i].kind = "subscribe" <=> ~Present(k))
Alternates ==
    \A i, j \in DOMAIN queue :
        /\ i < j /\ queue[i].key = queue[j].key /\ queue[i].key \in Keys
        /\ \A l \in DOMAIN queue : i < l /\ l < j => queue[l].key # queue[i].key
        => (queue[i].kind = "subscribe" <=> queue[j].kind # "subscribe")
Ends ==
    \A k \in Keys, i \in DOMAIN queue :
        /\ queue[i].key = k
        /\ \A l \in DOMAIN queue : i < l => queue[l].key # k
        => (queue[i].kind = "subscribe" <=> Wanted(k))
Quiet ==
    \A k \in Keys :
        (\A i \in DOMAIN queue : queue[i].key # k) => Refusal(k) \/ (Present(k) <=> Wanted(k))

\* No id is held while a subscription is being made or cancelled, or was refused.
Exclusive ==
    /\ work.at \in {"subscribe", "hold", "cancel"} => work.key \notin held
    /\ failed \cap held = {}

Pipeline == Recorded /\ Starts /\ Alternates /\ Ends /\ Quiet /\ Exclusive

\* A pair is armed once for its id and once for work between client and table.
Armed ==
    \A k \in Keys \ late :
        armed[k] = (IF k \in held THEN 1 ELSE 0)
                   + (IF WorkOn(k) /\ work.at \in {"hold", "cancel"} THEN 1 ELSE 0)

\* Once stop() has begun, an id it will not find is being withdrawn already, or
\* was recorded since, or its withdrawal was posted.
Taken ==
    ~Running =>
        \A k \in held \ (underway \cup late) :
            k \in taken \/ (work.at = "unsubscribe" /\ WorkOn(k))

IInv == /\ Typed /\ Gate /\ Routed /\ (Running /\ routes => Pipeline)
        /\ Armed /\ Taken /\ NoLateWork

\* A set of positions in a sequence has a last one.
LEMMA LastIndex ==
    ASSUME NEW n \in Nat, NEW S, S \subseteq 0 .. n, S # {}
    PROVE  \E i \in S : \A l \in S : l <= i
<1> DEFINE R == OpToRel(<, Nat)
           T == {n - i : i \in S}
<1>1. T \subseteq Nat /\ T # {}
  <2>1. \A i \in S : n - i \in Nat
    OBVIOUS
  <2>2. PICK i \in S : TRUE
    OBVIOUS
  <2>3. n - i \in T
    BY <2>2
  <2> QED
    BY <2>1, <2>3
<1>2. IsWellFoundedOn(R, Nat)
  BY NatLessThanWellFounded
<1>3. \A x, y \in Nat : y < x => <<y, x>> \in R
  BY DEF OpToRel
<1> HIDE DEF R
<1>4. PICK x \in T : \A y \in T : ~(<<y, x>> \in R)
  BY <1>1, <1>2, WFMin
<1>5. \A y \in T : ~(y < x)
  BY <1>1, <1>3, <1>4
<1>6. PICK i \in S : x = n - i
  BY <1>4
<1>7. \A l \in S : n - l \in T
  OBVIOUS
<1>8. \A l \in S : ~(n - l < n - i)
  BY <1>5, <1>6, <1>7
<1> QED
  BY <1>6, <1>8

\* What a thread has in hand has the fields its stage has.
LEMMA Fields ==
    ASSUME Typed
    PROVE  /\ work = Idle <=> work.at = "idle"
           /\ work # Idle => work \in [at : {"subscribe", "hold", "unsubscribe", "cancel"},
                                       key : Keys]
           /\ delivery = Idle <=> delivery.at = "idle"
           /\ delivery.at \in {"subscribe", "unsubscribe", "postSubscribe", "postUnsubscribe"} =>
                 delivery \in [at : {"subscribe", "unsubscribe", "postSubscribe",
                                     "postUnsubscribe"}, key : Keys, routes : BOOLEAN]
           /\ delivery.at = "closing" =>
                 delivery \in [at : {"closing"}, keys : SUBSET Keys, routes : BOOLEAN]
           /\ delivery.at \in {"idle", "subscribe", "unsubscribe", "postSubscribe",
                               "postUnsubscribe", "closing"}
  BY DEF Typed, Works, Deliveries, Idle

\* The next piece of posted work.
LEMMA HeadPost ==
    ASSUME Typed, queue # <<>>
    PROVE  /\ Head(queue) \in Posts /\ Head(queue) = queue[1] /\ 1 \in DOMAIN queue
           /\ Tail(queue) \in Seq(Posts)
           /\ DOMAIN Tail(queue) = {i \in Nat : i + 1 \in DOMAIN queue /\ i # 0}
           /\ \A i \in DOMAIN Tail(queue) : Tail(queue)[i] = queue[i + 1]
<1>1. queue \in Seq(Posts)
  BY DEF Typed
<1> QED
  BY <1>1

\* Posting appends.
LEMMA Posted ==
    ASSUME Typed, NEW x \in Posts
    PROVE  /\ Append(queue, x) \in Seq(Posts)
           /\ DOMAIN Append(queue, x) = DOMAIN queue \cup {Len(queue) + 1}
           /\ Append(queue, x)[Len(queue) + 1] = x
           /\ \A i \in DOMAIN queue : Append(queue, x)[i] = queue[i] /\ i < Len(queue) + 1
<1>1. queue \in Seq(Posts)
  BY DEF Typed
<1> QED
  BY <1>1

\* Every step keeps the types.
LEMMA TypeStep == Typed /\ [Next]_vars => Typed'
<1> SUFFICES ASSUME Typed, [Next]_vars
             PROVE  Typed'
  OBVIOUS
<1> USE RouterAssumption
<1> USE DEF routerVars, clientVars, mainVars, stopVars, pageVars, history
<1>1. ASSUME NEW k \in Keys, Subscribe(k) PROVE Typed'
  BY <1>1
  DEF Subscribe, Typed, Message, Deliveries
<1>2. ASSUME NEW k \in Keys, Unsubscribe(k) PROVE Typed'
  BY <1>2
  DEF Unsubscribe, Typed, Message, Deliveries
<1>3. ASSUME NEW k \in Keys, Emits(k) PROVE Typed'
  BY <1>3
  DEF Emits, Typed, Emissions
<1>4. ASSUME NEW c \in Calls, OnCall(c) PROVE Typed'
  BY <1>4, Posted, Fields
  DEF OnCall, Typed, Posts, Post
<1>5. ASSUME OnConnectionClosed PROVE Typed'
  BY <1>5
  DEF OnConnectionClosed, Typed, Deliveries
<1>6. ASSUME OnSubscribe PROVE Typed'
  BY <1>6, Fields
  DEF OnSubscribe, Typed, Deliveries
<1>7. ASSUME OnUnsubscribe PROVE Typed'
  BY <1>7, Fields
  DEF OnUnsubscribe, Typed, Deliveries
<1>8. ASSUME DeliveryPosts PROVE Typed'
  BY <1>8, Posted, Fields
  DEF DeliveryPosts, Typed, Posts, Post, Deliveries
<1>9. ASSUME NEW k \in Keys, CloseWithdraws(k) PROVE Typed'
  BY <1>9, Posted, Fields
  DEF CloseWithdraws, Typed, Posts, Post, Deliveries
<1>10. ASSUME CloseEnds PROVE Typed'
  BY <1>10
  DEF CloseEnds, Typed, Deliveries
<1>11. ASSUME MainDrops PROVE Typed'
  BY <1>11, HeadPost
  DEF MainDrops, Typed, Posts
<1>12. ASSUME CallEnters PROVE Typed'
  <2>1. Head(queue) \in Posts /\ Tail(queue) \in Seq(Posts) /\ Head(queue).kind = "call"
    BY <1>12, HeadPost DEF CallEnters
  <2>2. Head(queue).key \in Calls
    BY <2>1 DEF Posts
  <2>3. frames' \in Seq(Calls)
    <3>1. frames \in Seq(Calls) /\ Append(frames, Head(queue).key) \in Seq(Calls)
      BY <2>2 DEF Typed
    <3>2. frames' = Append(frames, Head(queue).key) \/ frames' = frames
      BY <1>12 DEF CallEnters
    <3> QED
      BY <3>1, <3>2
  <2> QED
    BY <1>12, <2>1, <2>3 DEF CallEnters, Typed
<1>13. ASSUME WorkEnters PROVE Typed'
  BY <1>13, HeadPost
  DEF WorkEnters, Typed, Posts, Works
<1>14. ASSUME SubscribeArms PROVE Typed'
  BY <1>14, Fields
  DEF SubscribeArms, Typed, Works
<1>15. ASSUME SubscribeFails PROVE Typed'
  BY <1>15, Fields
  DEF SubscribeFails, Typed, Works
<1>16. ASSUME SubscribeHolds PROVE Typed'
  BY <1>16, Fields
  DEF SubscribeHolds, Typed, Works
<1>17. ASSUME UnsubscribeTakes PROVE Typed'
  BY <1>17, Fields
  DEF UnsubscribeTakes, Typed, Works
<1>18. ASSUME UnsubscribeCancels PROVE Typed'
  BY <1>18, Fields
  DEF UnsubscribeCancels, Typed, Works
<1>19. ASSUME CallReplies PROVE Typed'
  BY <1>19
  DEF CallReplies, Typed
<1>20. ASSUME EmissionFinds PROVE Typed'
  <2>1. emission \in [at : {"lookup", "write"}, key : Keys]
    BY <1>20 DEF EmissionFinds, Typed, Emissions, Idle
  <2>2. emission' \in Emissions
    BY <1>20, <2>1 DEF EmissionFinds, Emissions
  <2> QED
    BY <1>20, <2>2 DEF EmissionFinds, Typed
<1>21. ASSUME EmissionWrites PROVE Typed'
  BY <1>21
  DEF EmissionWrites, Typed, Emissions
<1>22. ASSUME NEW s \in Stoppers, StopBegins(s) PROVE Typed'
  BY <1>22
  DEF StopBegins, Typed
<1>23. ASSUME NEW k \in Keys, StopWithdraws(k) PROVE Typed'
  BY <1>23
  DEF StopWithdraws, Typed
<1>24. ASSUME StopClosesGate PROVE Typed'
  BY <1>24
  DEF StopClosesGate, Typed
<1>25. ASSUME StopReturns PROVE Typed'
  BY <1>25
  DEF StopReturns, Typed
<1>26. ASSUME Finished PROVE Typed'
  BY <1>26
  DEF Finished, Typed, vars
<1>27. CASE UNCHANGED vars
  BY <1>27 DEF vars, Typed
<1> QED
  BY <1>1, <1>2, <1>3, <1>4, <1>5, <1>6, <1>7, <1>8, <1>9, <1>10, <1>11,
     <1>12, <1>13, <1>14, <1>15, <1>16, <1>17, <1>18, <1>19, <1>20, <1>21,
     <1>22, <1>23, <1>24, <1>25, <1>26, <1>27
  DEF Next, DeliveryStep, MainStep, EmitterStep, StopStep

\* The gate shuts once and for all.
LEMMA GateStep == Typed /\ Gate /\ [Next]_vars => Gate'
<1> SUFFICES ASSUME Typed, Gate, [Next]_vars
             PROVE  Gate'
  OBVIOUS
<1> USE RouterAssumption
<1> USE DEF routerVars, clientVars, mainVars, stopVars, pageVars, history,
            Gate, Running, MainFree
<1>1. ASSUME NEW k \in Keys, Subscribe(k) PROVE Gate'
  BY <1>1 DEF Subscribe, Message
<1>2. ASSUME NEW k \in Keys, Unsubscribe(k) PROVE Gate'
  BY <1>2 DEF Unsubscribe, Message
<1>3. ASSUME NEW k \in Keys, Emits(k) PROVE Gate'
  BY <1>3, Fields DEF Emits, Typed
<1>4. ASSUME NEW c \in Calls, OnCall(c) PROVE Gate'
  BY <1>4, Fields DEF OnCall, Typed
<1>5. ASSUME OnConnectionClosed PROVE Gate'
  BY <1>5, Fields DEF OnConnectionClosed, Typed
<1>6. ASSUME OnSubscribe PROVE Gate'
  BY <1>6, Fields DEF OnSubscribe, Typed
<1>7. ASSUME OnUnsubscribe PROVE Gate'
  BY <1>7, Fields DEF OnUnsubscribe, Typed
<1>8. ASSUME DeliveryPosts PROVE Gate'
  BY <1>8, Fields DEF DeliveryPosts, Typed
<1>9. ASSUME NEW k \in Keys, CloseWithdraws(k) PROVE Gate'
  BY <1>9, Fields DEF CloseWithdraws, Typed
<1>10. ASSUME CloseEnds PROVE Gate'
  BY <1>10, Fields DEF CloseEnds, Typed
<1>11. ASSUME MainDrops PROVE Gate'
  BY <1>11, Fields DEF MainDrops, Typed
<1>12. ASSUME CallEnters PROVE Gate'
  BY <1>12, Fields DEF CallEnters, Typed
<1>13. ASSUME WorkEnters PROVE Gate'
  BY <1>13, Fields DEF WorkEnters, Typed
<1>14. ASSUME SubscribeArms PROVE Gate'
  BY <1>14, Fields DEF SubscribeArms, Typed
<1>15. ASSUME SubscribeFails PROVE Gate'
  BY <1>15, Fields DEF SubscribeFails, Typed
<1>16. ASSUME SubscribeHolds PROVE Gate'
  BY <1>16, Fields DEF SubscribeHolds, Typed
<1>17. ASSUME UnsubscribeTakes PROVE Gate'
  BY <1>17, Fields DEF UnsubscribeTakes, Typed
<1>18. ASSUME UnsubscribeCancels PROVE Gate'
  BY <1>18, Fields DEF UnsubscribeCancels, Typed
<1>19. ASSUME CallReplies PROVE Gate'
  BY <1>19, Fields DEF CallReplies, Typed
<1>20. ASSUME EmissionFinds PROVE Gate'
  BY <1>20, Fields DEF EmissionFinds, Typed
<1>21. ASSUME EmissionWrites PROVE Gate'
  BY <1>21, Fields DEF EmissionWrites, Typed
<1>22. ASSUME NEW s \in Stoppers, StopBegins(s) PROVE Gate'
  BY <1>22, Fields DEF StopBegins, Typed
<1>23. ASSUME NEW k \in Keys, StopWithdraws(k) PROVE Gate'
  BY <1>23, Fields DEF StopWithdraws, Typed
<1>24. ASSUME StopClosesGate PROVE Gate'
  BY <1>24, Fields DEF StopClosesGate, Typed
<1>25. ASSUME StopReturns PROVE Gate'
  BY <1>25, Fields DEF StopReturns, Typed
<1>26. ASSUME Finished PROVE Gate'
  BY <1>26, Fields DEF Finished, Typed, vars
<1>27. CASE UNCHANGED vars
  BY <1>27 DEF vars
<1> QED
  BY <1>1, <1>2, <1>3, <1>4, <1>5, <1>6, <1>7, <1>8, <1>9, <1>10, <1>11,
     <1>12, <1>13, <1>14, <1>15, <1>16, <1>17, <1>18, <1>19, <1>20, <1>21,
     <1>22, <1>23, <1>24, <1>25, <1>26, <1>27
  DEF Next, DeliveryStep, MainStep, EmitterStep, StopStep

\* Nothing enters a shut gate, and stop() waits for what is inside.
LEMMA NoLateStep == Gate /\ NoLateWork /\ [Next]_vars => NoLateWork'
<1> SUFFICES ASSUME Gate, NoLateWork, [Next]_vars
             PROVE  NoLateWork'
  OBVIOUS
<1> USE RouterAssumption
<1> USE DEF routerVars, clientVars, mainVars, stopVars, pageVars, history,
            Gate, NoLateWork, NoOtherThreadInside, MainFree
<1>1. ASSUME NEW k \in Keys, Subscribe(k) PROVE NoLateWork'
  BY <1>1 DEF Subscribe
<1>2. ASSUME NEW k \in Keys, Unsubscribe(k) PROVE NoLateWork'
  BY <1>2 DEF Unsubscribe
<1>3. ASSUME NEW k \in Keys, Emits(k) PROVE NoLateWork'
  BY <1>3 DEF Emits
<1>4. ASSUME NEW c \in Calls, OnCall(c) PROVE NoLateWork'
  BY <1>4 DEF OnCall
<1>5. ASSUME OnConnectionClosed PROVE NoLateWork'
  BY <1>5 DEF OnConnectionClosed
<1>6. ASSUME OnSubscribe PROVE NoLateWork'
  BY <1>6 DEF OnSubscribe
<1>7. ASSUME OnUnsubscribe PROVE NoLateWork'
  BY <1>7 DEF OnUnsubscribe
<1>8. ASSUME DeliveryPosts PROVE NoLateWork'
  BY <1>8 DEF DeliveryPosts
<1>9. ASSUME NEW k \in Keys, CloseWithdraws(k) PROVE NoLateWork'
  BY <1>9 DEF CloseWithdraws
<1>10. ASSUME CloseEnds PROVE NoLateWork'
  BY <1>10 DEF CloseEnds
<1>11. ASSUME MainDrops PROVE NoLateWork'
  BY <1>11 DEF MainDrops
<1>12. ASSUME CallEnters PROVE NoLateWork'
  BY <1>12 DEF CallEnters
<1>13. ASSUME WorkEnters PROVE NoLateWork'
  BY <1>13 DEF WorkEnters
<1>14. ASSUME SubscribeArms PROVE NoLateWork'
  BY <1>14 DEF SubscribeArms, Idle
<1>15. ASSUME SubscribeFails PROVE NoLateWork'
  BY <1>15 DEF SubscribeFails
<1>16. ASSUME SubscribeHolds PROVE NoLateWork'
  BY <1>16 DEF SubscribeHolds
<1>17. ASSUME UnsubscribeTakes PROVE NoLateWork'
  BY <1>17 DEF UnsubscribeTakes, Idle
<1>18. ASSUME UnsubscribeCancels PROVE NoLateWork'
  BY <1>18 DEF UnsubscribeCancels
<1>19. ASSUME CallReplies PROVE NoLateWork'
  BY <1>19 DEF CallReplies
<1>20. ASSUME EmissionFinds PROVE NoLateWork'
  BY <1>20 DEF EmissionFinds, Idle
<1>21. ASSUME EmissionWrites PROVE NoLateWork'
  BY <1>21 DEF EmissionWrites
<1>22. ASSUME NEW s \in Stoppers, StopBegins(s) PROVE NoLateWork'
  BY <1>22 DEF StopBegins
<1>23. ASSUME NEW k \in Keys, StopWithdraws(k) PROVE NoLateWork'
  BY <1>23 DEF StopWithdraws
<1>24. ASSUME StopClosesGate PROVE NoLateWork'
  BY <1>24 DEF StopClosesGate
<1>25. ASSUME StopReturns PROVE NoLateWork'
  BY <1>25 DEF StopReturns
<1>26. ASSUME Finished PROVE NoLateWork'
  BY <1>26 DEF Finished, vars
<1>27. CASE UNCHANGED vars
  BY <1>27 DEF vars
<1> QED
  BY <1>1, <1>2, <1>3, <1>4, <1>5, <1>6, <1>7, <1>8, <1>9, <1>10, <1>11,
     <1>12, <1>13, <1>14, <1>15, <1>16, <1>17, <1>18, <1>19, <1>20, <1>21,
     <1>22, <1>23, <1>24, <1>25, <1>26, <1>27
  DEF Next, DeliveryStep, MainStep, EmitterStep, StopStep

\* Work runs with the routes of the router that posted it.
LEMMA RoutedStep == Typed /\ Gate /\ Routed /\ [Next]_vars => Routed'
<1> SUFFICES ASSUME Typed, Gate, Routed, [Next]_vars
             PROVE  Routed'
  OBVIOUS
<1> USE RouterAssumption
<1> USE DEF routerVars, clientVars, mainVars, stopVars, pageVars, history,
            Gate, Routed
<1>1. ASSUME NEW k \in Keys, Subscribe(k) PROVE Routed'
  BY <1>1
  DEF Subscribe, Message
<1>2. ASSUME NEW k \in Keys, Unsubscribe(k) PROVE Routed'
  BY <1>2
  DEF Unsubscribe, Message
<1>3. ASSUME NEW k \in Keys, Emits(k) PROVE Routed'
  BY <1>3
  DEF Emits
<1>4. ASSUME NEW c \in Calls, OnCall(c) PROVE Routed'
  BY <1>4, Posted, Fields
  DEF OnCall, Posts, Post, Typed
<1>5. ASSUME OnConnectionClosed PROVE Routed'
  BY <1>5
  DEF OnConnectionClosed
<1>6. ASSUME OnSubscribe PROVE Routed'
  BY <1>6, Fields
  DEF OnSubscribe
<1>7. ASSUME OnUnsubscribe PROVE Routed'
  BY <1>7, Fields
  DEF OnUnsubscribe
<1>8. ASSUME DeliveryPosts PROVE Routed'
  BY <1>8, Posted, Fields
  DEF DeliveryPosts, Posts, Post, Typed
<1>9. ASSUME NEW k \in Keys, CloseWithdraws(k) PROVE Routed'
  BY <1>9, Posted, Fields
  DEF CloseWithdraws, Posts, Post, Typed
<1>10. ASSUME CloseEnds PROVE Routed'
  BY <1>10
  DEF CloseEnds
<1>11. ASSUME MainDrops PROVE Routed'
  BY <1>11, HeadPost
  DEF MainDrops
<1>12. ASSUME CallEnters PROVE Routed'
  BY <1>12, HeadPost
  DEF CallEnters
<1>13. ASSUME WorkEnters PROVE Routed'
  BY <1>13, HeadPost
  DEF WorkEnters
<1>14. ASSUME SubscribeArms PROVE Routed'
  BY <1>14, Fields
  DEF SubscribeArms
<1>15. ASSUME SubscribeFails PROVE Routed'
  BY <1>15, Fields
  DEF SubscribeFails
<1>16. ASSUME SubscribeHolds PROVE Routed'
  BY <1>16, Fields
  DEF SubscribeHolds
<1>17. ASSUME UnsubscribeTakes PROVE Routed'
  BY <1>17, Fields
  DEF UnsubscribeTakes
<1>18. ASSUME UnsubscribeCancels PROVE Routed'
  BY <1>18, Fields
  DEF UnsubscribeCancels
<1>19. ASSUME CallReplies PROVE Routed'
  BY <1>19
  DEF CallReplies
<1>20. ASSUME EmissionFinds PROVE Routed'
  BY <1>20
  DEF EmissionFinds
<1>21. ASSUME EmissionWrites PROVE Routed'
  BY <1>21
  DEF EmissionWrites
<1>22. ASSUME NEW s \in Stoppers, StopBegins(s) PROVE Routed'
  BY <1>22
  DEF StopBegins
<1>23. ASSUME NEW k \in Keys, StopWithdraws(k) PROVE Routed'
  BY <1>23
  DEF StopWithdraws
<1>24. ASSUME StopClosesGate PROVE Routed'
  BY <1>24
  DEF StopClosesGate
<1>25. ASSUME StopReturns PROVE Routed'
  BY <1>25
  DEF StopReturns
<1>26. ASSUME Finished PROVE Routed'
  BY <1>26
  DEF Finished, vars
<1>27. CASE UNCHANGED vars
  BY <1>27 DEF vars
<1> QED
  BY <1>1, <1>2, <1>3, <1>4, <1>5, <1>6, <1>7, <1>8, <1>9, <1>10, <1>11,
     <1>12, <1>13, <1>14, <1>15, <1>16, <1>17, <1>18, <1>19, <1>20, <1>21,
     <1>22, <1>23, <1>24, <1>25, <1>26, <1>27
  DEF Next, DeliveryStep, MainStep, EmitterStep, StopStep

-----------------------------------------------------------------------------
(* The queue of one pair.                                                  *)

\* The order of the posted work of every pair.
Ordered == Starts /\ Alternates /\ Ends /\ Quiet

\* Work in hand that leaves a pair where it was, or refused, and messages that
\* change nothing the page wants, keep the order.
LEMMA QueueKept ==
    ASSUME Ordered, queue' = queue,
           \A k \in Keys : /\ Wanted(k)' <=> Wanted(k)
                           /\ \/ Refusal(k)'
                              \/ (Present(k)' <=> Present(k)) /\ ~Refusal(k)
    PROVE  Ordered'
<1>1. Starts'
  BY DEF Ordered, Starts
<1>2. Alternates'
  BY DEF Ordered, Alternates
<1>3. Ends'
  BY DEF Ordered, Ends
<1>4. Quiet'
  BY DEF Ordered, Quiet
<1> QED
  BY <1>1, <1>2, <1>3, <1>4 DEF Ordered

\* Work posted for a pair that changes what the page wants of it, or for no pair
\* at all (a call), keeps the order.
LEMMA QueueGrows ==
    ASSUME Typed, Ordered, NEW x \in Posts, queue' = Append(queue, x),
           \A k \in Keys : (Present(k)' <=> Present(k)) /\ (Refusal(k)' <=> Refusal(k)),
           \A k \in Keys : k # x.key => (Wanted(k)' <=> Wanted(k)),
           x.key \in Keys => /\ Wanted(x.key) <=> x.kind # "subscribe"
                             /\ Wanted(x.key)' <=> x.kind = "subscribe"
    PROVE  Ordered'
<1> DEFINE n == Len(queue) + 1
<1>1. /\ DOMAIN queue' = DOMAIN queue \cup {n} /\ queue'[n] = x
      /\ \A i \in DOMAIN queue : queue'[i] = queue[i] /\ i < n
      /\ DOMAIN queue \subseteq Nat /\ n \in Nat
  <2>1. DOMAIN queue \subseteq Nat /\ n \in Nat
    BY DEF Typed
  <2> QED
    BY <2>1, Posted
<1> HIDE DEF n
<1>2. Starts'
  <2> SUFFICES ASSUME NEW k \in Keys, NEW i \in DOMAIN queue', queue'[i].key = k,
                      \A l \in DOMAIN queue' : l < i => queue'[l].key # k
               PROVE  Refusal(k)' \/ (queue'[i].kind = "subscribe" <=> ~Present(k)')
    BY DEF Starts
  <2>1. CASE i \in DOMAIN queue
    BY <1>1, <2>1 DEF Ordered, Starts
  <2>2. CASE i = n
    BY <1>1, <2>2 DEF Ordered, Quiet
  <2> QED
    BY <1>1, <2>1, <2>2
<1>3. Alternates'
  <2> SUFFICES ASSUME NEW i \in DOMAIN queue', NEW j \in DOMAIN queue', i < j,
                      queue'[i].key = queue'[j].key, queue'[i].key \in Keys,
                      \A l \in DOMAIN queue' : i < l /\ l < j => queue'[l].key # queue'[i].key
               PROVE  queue'[i].kind = "subscribe" <=> queue'[j].kind # "subscribe"
    BY DEF Alternates
  <2>1. CASE j \in DOMAIN queue
    BY <1>1, <2>1 DEF Ordered, Alternates
  <2>2. CASE j = n
    <3>1. i \in DOMAIN queue /\ queue[i].key = x.key /\ x.key \in Keys
      BY <1>1, <2>2
    <3>2. \A l \in DOMAIN queue : i < l => queue[l].key # x.key
      BY <1>1, <2>2, <3>1
    <3> QED
      BY <1>1, <2>2, <3>1, <3>2 DEF Ordered, Ends
  <2> QED
    BY <1>1, <2>1, <2>2
<1>4. Ends'
  <2> SUFFICES ASSUME NEW k \in Keys, NEW i \in DOMAIN queue', queue'[i].key = k,
                      \A l \in DOMAIN queue' : i < l => queue'[l].key # k
               PROVE  queue'[i].kind = "subscribe" <=> Wanted(k)'
    BY DEF Ends
  <2>1. CASE i \in DOMAIN queue
    BY <1>1, <2>1 DEF Ordered, Ends
  <2>2. CASE i = n
    BY <1>1, <2>2
  <2> QED
    BY <1>1, <2>1, <2>2
<1>5. Quiet'
  BY <1>1 DEF Ordered, Quiet
<1> QED
  BY <1>2, <1>3, <1>4, <1>5 DEF Ordered

\* Taking the next piece of work keeps the order when its effect on the pair is
\* now the work at hand.
LEMMA QueueShrinks ==
    ASSUME Typed, Ordered, queue # <<>>, queue' = Tail(queue), NEW x, x = Head(queue),
           \A k \in Keys : Wanted(k)' <=> Wanted(k),
           \A k \in Keys : k # x.key =>
               (Present(k)' <=> Present(k)) /\ (Refusal(k)' <=> Refusal(k)),
           x.key \in Keys => (Present(x.key)' <=> x.kind = "subscribe")
    PROVE  Ordered'
<1>1. /\ x = queue[1] /\ 1 \in DOMAIN queue
      /\ \A i \in DOMAIN queue' : /\ i \in Nat /\ i # 0 /\ i + 1 \in DOMAIN queue
                                  /\ queue'[i] = queue[i + 1]
      /\ \A i \in DOMAIN queue : i = 1 \/ (i - 1 \in DOMAIN queue' /\ i \in Nat /\ 1 < i)
  <2>1. \A i \in DOMAIN queue : i \in Nat /\ i # 0
    BY DEF Typed
  <2> QED
    BY <2>1, HeadPost
<1>2. Starts'
  <2> SUFFICES ASSUME NEW k \in Keys, NEW i \in DOMAIN queue', queue'[i].key = k,
                      \A l \in DOMAIN queue' : l < i => queue'[l].key # k
               PROVE  Refusal(k)' \/ (queue'[i].kind = "subscribe" <=> ~Present(k)')
    BY DEF Starts
  <2>1. /\ i + 1 \in DOMAIN queue /\ queue[i + 1] = queue'[i] /\ 1 < i + 1
    BY <1>1
  <2>2. \A l \in DOMAIN queue : 1 < l /\ l < i + 1 => queue[l].key # k
    <3> SUFFICES ASSUME NEW l \in DOMAIN queue, 1 < l, l < i + 1 PROVE queue[l].key # k
      OBVIOUS
    <3>1. l - 1 \in DOMAIN queue' /\ l \in Nat /\ queue'[l - 1] = queue[l] /\ l - 1 < i
      BY <1>1
    <3> QED
      BY <3>1
  <2>3. CASE x.key = k
    <3>1. queue[1].kind = "subscribe" <=> queue[i + 1].kind # "subscribe"
      BY <1>1, <2>1, <2>2, <2>3 DEF Ordered, Alternates
    <3> QED
      BY <1>1, <2>1, <2>3, <3>1
  <2>4. CASE x.key # k
    <3>1. \A l \in DOMAIN queue : l < i + 1 => queue[l].key # k
      BY <1>1, <2>2, <2>4
    <3> QED
      BY <2>1, <2>4, <3>1 DEF Ordered, Starts
  <2> QED
    BY <2>3, <2>4
<1>3. Alternates'
  <2> SUFFICES ASSUME NEW i \in DOMAIN queue', NEW j \in DOMAIN queue', i < j,
                      queue'[i].key = queue'[j].key, queue'[i].key \in Keys,
                      \A l \in DOMAIN queue' : i < l /\ l < j => queue'[l].key # queue'[i].key
               PROVE  queue'[i].kind = "subscribe" <=> queue'[j].kind # "subscribe"
    BY DEF Alternates
  <2>1. /\ i + 1 \in DOMAIN queue /\ queue[i + 1] = queue'[i] /\ i \in Nat
        /\ j + 1 \in DOMAIN queue /\ queue[j + 1] = queue'[j] /\ j \in Nat
        /\ i + 1 < j + 1
    BY <1>1
  <2>2. \A l \in DOMAIN queue : i + 1 < l /\ l < j + 1 => queue[l].key # queue'[i].key
    <3> SUFFICES ASSUME NEW l \in DOMAIN queue, i + 1 < l, l < j + 1
                 PROVE  queue[l].key # queue'[i].key
      OBVIOUS
    <3>1. l - 1 \in DOMAIN queue' /\ queue'[l - 1] = queue[l] /\ i < l - 1 /\ l - 1 < j
      BY <1>1, <2>1
    <3> QED
      BY <3>1
  <2> QED
    BY <2>1, <2>2 DEF Ordered, Alternates
<1>4. Ends'
  <2> SUFFICES ASSUME NEW k \in Keys, NEW i \in DOMAIN queue', queue'[i].key = k,
                      \A l \in DOMAIN queue' : i < l => queue'[l].key # k
               PROVE  queue'[i].kind = "subscribe" <=> Wanted(k)'
    BY DEF Ends
  <2>1. i + 1 \in DOMAIN queue /\ queue[i + 1] = queue'[i] /\ i \in Nat
    BY <1>1
  <2>2. \A l \in DOMAIN queue : i + 1 < l => queue[l].key # k
    <3> SUFFICES ASSUME NEW l \in DOMAIN queue, i + 1 < l PROVE queue[l].key # k
      OBVIOUS
    <3>1. l - 1 \in DOMAIN queue' /\ queue'[l - 1] = queue[l] /\ i < l - 1
      BY <1>1, <2>1
    <3> QED
      BY <3>1
  <2> QED
    BY <2>1, <2>2 DEF Ordered, Ends
<1>5. Quiet'
  <2> SUFFICES ASSUME NEW k \in Keys, \A i \in DOMAIN queue' : queue'[i].key # k
               PROVE  Refusal(k)' \/ (Present(k)' <=> Wanted(k)')
    BY DEF Quiet
  <2>1. \A l \in DOMAIN queue : 1 < l => queue[l].key # k
    <3> SUFFICES ASSUME NEW l \in DOMAIN queue, 1 < l PROVE queue[l].key # k
      OBVIOUS
    <3>1. l - 1 \in DOMAIN queue' /\ queue'[l - 1] = queue[l]
      BY <1>1
    <3> QED
      BY <3>1
  <2>2. CASE x.key = k
    <3>1. queue[1].kind = "subscribe" <=> Wanted(k)
      BY <1>1, <2>1, <2>2 DEF Ordered, Ends
    <3> QED
      BY <1>1, <2>2, <3>1
  <2>3. CASE x.key # k
    <3>1. \A l \in DOMAIN queue : queue[l].key # k
      BY <1>1, <2>1, <2>3
    <3> QED
      BY <2>3, <3>1 DEF Ordered, Quiet
  <2> QED
    BY <2>2, <2>3
<1> QED
  BY <1>2, <1>3, <1>4, <1>5 DEF Ordered

\* What the delivery thread posts next is what it has recorded (onSubscribe,
\* onUnsubscribe, onConnectionClosed).
LEMMA RecordedStep ==
    ASSUME Typed, Gate, Running, Running', Recorded, Next
    PROVE  Recorded'
<1> USE RouterAssumption
<1> USE DEF routerVars, clientVars, mainVars, stopVars, pageVars, history,
            Recorded, Running, Idle
<1>1. ASSUME NEW k \in Keys, Subscribe(k) PROVE Recorded'
  BY <1>1 DEF Subscribe, Message
<1>2. ASSUME NEW k \in Keys, Unsubscribe(k) PROVE Recorded'
  BY <1>2 DEF Unsubscribe, Message
<1>3. ASSUME NEW k \in Keys, Emits(k) PROVE Recorded'
  BY <1>3 DEF Emits
<1>4. ASSUME NEW c \in Calls, OnCall(c) PROVE Recorded'
  BY <1>4 DEF OnCall
<1>5. ASSUME OnConnectionClosed PROVE Recorded'
  BY <1>5 DEF OnConnectionClosed
<1>6. ASSUME OnSubscribe PROVE Recorded'
  BY <1>6, Fields DEF OnSubscribe
<1>7. ASSUME OnUnsubscribe PROVE Recorded'
  BY <1>7, Fields DEF OnUnsubscribe
<1>8. ASSUME DeliveryPosts PROVE Recorded'
  BY <1>8, Fields DEF DeliveryPosts
<1>9. ASSUME NEW k \in Keys, CloseWithdraws(k) PROVE Recorded'
  BY <1>9, Fields DEF CloseWithdraws
<1>10. ASSUME CloseEnds PROVE Recorded'
  BY <1>10 DEF CloseEnds
<1>11. ASSUME CallEnters PROVE Recorded'
  BY <1>11 DEF CallEnters
<1>12. ASSUME WorkEnters PROVE Recorded'
  BY <1>12 DEF WorkEnters
<1>13. ASSUME SubscribeArms PROVE Recorded'
  BY <1>13 DEF SubscribeArms
<1>14. ASSUME SubscribeFails PROVE Recorded'
  BY <1>14 DEF SubscribeFails
<1>15. ASSUME SubscribeHolds PROVE Recorded'
  BY <1>15 DEF SubscribeHolds
<1>16. ASSUME UnsubscribeTakes PROVE Recorded'
  BY <1>16 DEF UnsubscribeTakes
<1>17. ASSUME UnsubscribeCancels PROVE Recorded'
  BY <1>17 DEF UnsubscribeCancels
<1>18. ASSUME CallReplies PROVE Recorded'
  BY <1>18 DEF CallReplies
<1>19. ASSUME EmissionFinds PROVE Recorded'
  BY <1>19 DEF EmissionFinds
<1>20. ASSUME EmissionWrites PROVE Recorded'
  BY <1>20 DEF EmissionWrites
<1>21. ASSUME MainDrops PROVE Recorded'
  BY <1>21 DEF MainDrops, Gate
<1>22. ASSUME StopStep \/ Finished PROVE Recorded'
  BY <1>22 DEF StopStep, StopWithdraws, StopClosesGate, StopReturns, Finished
<1>23. ASSUME NEW s \in Stoppers, StopBegins(s) PROVE Recorded'
  BY <1>23 DEF StopBegins
<1> QED
  BY <1>1, <1>2, <1>3, <1>4, <1>5, <1>6, <1>7, <1>8, <1>9, <1>10, <1>11,
     <1>12, <1>13, <1>14, <1>15, <1>16, <1>17, <1>18, <1>19, <1>20, <1>21,
     <1>22, <1>23
  DEF Next, DeliveryStep, MainStep, EmitterStep

\* A subscription is made only for a pair that has none (LogosApiRoutes).
LEMMA ExclusiveStep ==
    ASSUME Typed, Gate, Running, Running', Ordered, Exclusive, Next
    PROVE  Exclusive'
<1> USE RouterAssumption
<1> USE DEF routerVars, clientVars, mainVars, stopVars, pageVars, history,
            Exclusive, Running, Idle
<1>1. ASSUME NEW k \in Keys, Subscribe(k) PROVE Exclusive'
  BY <1>1 DEF Subscribe, Message
<1>2. ASSUME NEW k \in Keys, Unsubscribe(k) PROVE Exclusive'
  BY <1>2 DEF Unsubscribe, Message
<1>3. ASSUME NEW k \in Keys, Emits(k) PROVE Exclusive'
  BY <1>3 DEF Emits
<1>4. ASSUME NEW c \in Calls, OnCall(c) PROVE Exclusive'
  BY <1>4 DEF OnCall
<1>5. ASSUME OnConnectionClosed PROVE Exclusive'
  BY <1>5 DEF OnConnectionClosed
<1>6. ASSUME OnSubscribe PROVE Exclusive'
  BY <1>6 DEF OnSubscribe
<1>7. ASSUME OnUnsubscribe PROVE Exclusive'
  BY <1>7 DEF OnUnsubscribe
<1>8. ASSUME DeliveryPosts PROVE Exclusive'
  BY <1>8 DEF DeliveryPosts
<1>9. ASSUME NEW k \in Keys, CloseWithdraws(k) PROVE Exclusive'
  BY <1>9 DEF CloseWithdraws
<1>10. ASSUME CloseEnds PROVE Exclusive'
  BY <1>10 DEF CloseEnds
<1>11. ASSUME CallEnters PROVE Exclusive'
  BY <1>11 DEF CallEnters
<1>12. ASSUME WorkEnters PROVE Exclusive'
  <2> DEFINE x == Head(queue)
  <2>1. /\ work' = [at |-> x.kind, key |-> x.key] \/ work' = Idle
        /\ UNCHANGED <<held, failed>> /\ work = Idle /\ queue # <<>>
    BY <1>12 DEF WorkEnters, MainFree
  <2>2. x = queue[1] /\ x \in Posts /\ 1 \in DOMAIN queue /\ \A l \in DOMAIN queue : ~(l < 1)
    <3>1. \A l \in DOMAIN queue : l \in Nat /\ l # 0
      BY DEF Typed
    <3> QED
      BY <2>1, <3>1, HeadPost
  <2>3. x.kind = "subscribe" => x.key \in Keys
    BY <2>2 DEF Posts
  <2>4. x.kind = "subscribe" => x.key \notin held
    BY <2>1, <2>2, <2>3 DEF Ordered, Starts, Present, Refusal, WorkOn
  <2>5. x.kind \notin {"hold", "cancel"}
    BY <2>2 DEF Posts
  <2> QED
    BY <2>1, <2>4, <2>5
<1>13. ASSUME SubscribeArms PROVE Exclusive'
  BY <1>13, Fields DEF SubscribeArms
<1>14. ASSUME SubscribeFails PROVE Exclusive'
  BY <1>14, Fields DEF SubscribeFails
<1>15. ASSUME SubscribeHolds PROVE Exclusive'
  BY <1>15, Fields DEF SubscribeHolds
<1>16. ASSUME UnsubscribeTakes PROVE Exclusive'
  BY <1>16, Fields DEF UnsubscribeTakes
<1>17. ASSUME UnsubscribeCancels PROVE Exclusive'
  BY <1>17, Fields DEF UnsubscribeCancels
<1>18. ASSUME CallReplies PROVE Exclusive'
  BY <1>18 DEF CallReplies
<1>19. ASSUME EmissionFinds PROVE Exclusive'
  BY <1>19 DEF EmissionFinds
<1>20. ASSUME EmissionWrites PROVE Exclusive'
  BY <1>20 DEF EmissionWrites
<1>21. ASSUME MainDrops PROVE Exclusive'
  BY <1>21 DEF MainDrops, Gate
<1>22. ASSUME StopStep \/ Finished PROVE Exclusive'
  BY <1>22 DEF StopStep, StopWithdraws, StopClosesGate, StopReturns, Finished
<1>23. ASSUME NEW s \in Stoppers, StopBegins(s) PROVE Exclusive'
  BY <1>23 DEF StopBegins
<1> QED
  BY <1>1, <1>2, <1>3, <1>4, <1>5, <1>6, <1>7, <1>8, <1>9, <1>10, <1>11,
     <1>12, <1>13, <1>14, <1>15, <1>16, <1>17, <1>18, <1>19, <1>20, <1>21,
     <1>22, <1>23
  DEF Next, DeliveryStep, MainStep, EmitterStep

\* However messages and posted work interleave, the work of a pair stays in order.
LEMMA OrderedStep ==
    ASSUME Typed, Gate, Routed, Running, Running', routes, Recorded, Ordered, Exclusive, Next
    PROVE  Ordered'
<1> USE RouterAssumption
<1> USE DEF routerVars, clientVars, mainVars, stopVars, pageVars, history,
            Running, Idle
<1>1. ASSUME NEW k \in Keys, Subscribe(k) PROVE Ordered'
  <2>1. UNCHANGED <<queue, held, failed, work>>
    BY <1>1 DEF Subscribe
  <2>2. \A j \in Keys : Wanted(j)' <=> Wanted(j)
    BY <1>1, Fields DEF Subscribe, Wanted, Recorded, Message
  <2> QED
    BY <2>1, <2>2, QueueKept DEF Present, Refusal, WorkOn
<1>2. ASSUME NEW k \in Keys, Unsubscribe(k) PROVE Ordered'
  <2>1. UNCHANGED <<queue, held, failed, work>>
    BY <1>2 DEF Unsubscribe
  <2>2. \A j \in Keys : Wanted(j)' <=> Wanted(j)
    BY <1>2, Fields DEF Unsubscribe, Wanted, Recorded, Message
  <2> QED
    BY <2>1, <2>2, QueueKept DEF Present, Refusal, WorkOn
<1>3. ASSUME NEW k \in Keys, Emits(k) PROVE Ordered'
  <2>1. UNCHANGED <<queue, sinks, held, failed, work, delivery>>
    BY <1>3 DEF Emits
  <2> QED
    BY <2>1, QueueKept DEF Wanted, Present, Refusal, WorkOn
<1>4. ASSUME NEW c \in Calls, OnCall(c) PROVE Ordered'
  <2> DEFINE x == [kind |-> "call", key |-> c, routes |-> routes]
  <2>1. queue' = Append(queue, x) /\ UNCHANGED <<sinks, held, failed, work, delivery>>
    BY <1>4 DEF OnCall, Post
  <2>2. x \in Posts /\ x.key \notin Keys
    BY DEF Posts, Typed
  <2> HIDE DEF x
  <2> QED
    BY <2>1, <2>2, QueueGrows DEF Wanted, Present, Refusal, WorkOn
<1>5. ASSUME OnConnectionClosed PROVE Ordered'
  <2>1. UNCHANGED <<queue, held, failed, work>>
    BY <1>5 DEF OnConnectionClosed
  <2>2. \A j \in Keys : Wanted(j)' <=> Wanted(j)
    BY <1>5, Fields DEF OnConnectionClosed, Wanted, Recorded
  <2> QED
    BY <2>1, <2>2, QueueKept DEF Present, Refusal, WorkOn
<1>6. ASSUME OnSubscribe PROVE Ordered'
  <2>1. UNCHANGED <<queue, held, failed, work>>
    BY <1>6 DEF OnSubscribe
  <2>2. \A j \in Keys : Wanted(j)' <=> Wanted(j)
    BY <1>6, Fields DEF OnSubscribe, Wanted, Recorded
  <2> QED
    BY <2>1, <2>2, QueueKept DEF Present, Refusal, WorkOn
<1>7. ASSUME OnUnsubscribe PROVE Ordered'
  <2>1. UNCHANGED <<queue, held, failed, work>>
    BY <1>7 DEF OnUnsubscribe
  <2>2. \A j \in Keys : Wanted(j)' <=> Wanted(j)
    BY <1>7, Fields DEF OnUnsubscribe, Wanted, Recorded
  <2> QED
    BY <2>1, <2>2, QueueKept DEF Present, Refusal, WorkOn
<1>8. ASSUME DeliveryPosts PROVE Ordered'
  <2> DEFINE x == [kind |-> IF delivery.at = "postSubscribe" THEN "subscribe" ELSE "unsubscribe",
                   key |-> delivery.key, routes |-> delivery.routes]
  <2>1. /\ queue' = Append(queue, x) /\ delivery' = Idle
        /\ UNCHANGED <<sinks, held, failed, work>>
        /\ delivery.at \in {"postSubscribe", "postUnsubscribe"}
    BY <1>8 DEF DeliveryPosts, Post
  <2>2. x \in Posts
    BY <2>1, Fields DEF Posts
  <2>3. /\ x.key = delivery.key
        /\ x.kind = "subscribe" <=> delivery.at = "postSubscribe"
    BY <2>1
  <2> HIDE DEF x
  <2>0. PICK y \in Posts : y = x
    BY <2>2
  <2>4. \A j \in Keys : j # y.key => (Wanted(j)' <=> Wanted(j))
    BY <2>0, <2>1, <2>3 DEF Wanted
  <2>5. /\ Wanted(y.key) <=> y.kind # "subscribe"
        /\ Wanted(y.key)' <=> y.kind = "subscribe"
    BY <2>0, <2>1, <2>3 DEF Wanted, Recorded
  <2>6. \A j \in Keys : (Present(j)' <=> Present(j)) /\ (Refusal(j)' <=> Refusal(j))
    BY <2>1 DEF Present, Refusal, WorkOn
  <2> QED
    BY <2>0, <2>1, <2>4, <2>5, <2>6, QueueGrows
<1>9. ASSUME NEW k \in Keys, CloseWithdraws(k) PROVE Ordered'
  <2> DEFINE x == [kind |-> "unsubscribe", key |-> k, routes |-> delivery.routes]
  <2>1. /\ queue' = Append(queue, x) /\ delivery' = [delivery EXCEPT !.keys = @ \ {k}]
        /\ UNCHANGED <<sinks, held, failed, work>>
        /\ delivery.at = "closing" /\ k \in delivery.keys
    BY <1>9 DEF CloseWithdraws, Post
  <2>2. x \in Posts /\ x.key = k /\ x.kind = "unsubscribe"
    BY <2>1, Fields DEF Posts
  <2>3. delivery'.at = "closing" /\ delivery'.keys = delivery.keys \ {k}
    BY <2>1, Fields
  <2> HIDE DEF x
  <2>4. \A j \in Keys : j # k => (Wanted(j)' <=> Wanted(j))
    BY <2>1, <2>3 DEF Wanted
  <2>5. Wanted(k) /\ ~Wanted(k)'
    BY <2>1, <2>3 DEF Wanted, Recorded
  <2>6. \A j \in Keys : (Present(j)' <=> Present(j)) /\ (Refusal(j)' <=> Refusal(j))
    BY <2>1 DEF Present, Refusal, WorkOn
  <2> QED
    BY <2>1, <2>2, <2>4, <2>5, <2>6, QueueGrows
<1>10. ASSUME CloseEnds PROVE Ordered'
  <2>1. UNCHANGED <<queue, held, failed, work>>
    BY <1>10 DEF CloseEnds
  <2>2. \A j \in Keys : Wanted(j)' <=> Wanted(j)
    BY <1>10, Fields DEF CloseEnds, Wanted, Recorded
  <2> QED
    BY <2>1, <2>2, QueueKept DEF Present, Refusal, WorkOn
<1>11. ASSUME CallEnters PROVE Ordered'
  <2>1. /\ queue # <<>> /\ queue' = Tail(queue) /\ Head(queue).kind = "call"
        /\ UNCHANGED <<sinks, held, failed, work, delivery>>
    BY <1>11 DEF CallEnters
  <2>2. Head(queue).key \notin Keys
    BY <2>1, HeadPost DEF Posts
  <2> QED
    BY <2>1, <2>2, QueueShrinks DEF Wanted, Present, Refusal, WorkOn
<1>12. ASSUME WorkEnters PROVE Ordered'
  <2> DEFINE x == Head(queue)
  <2>1. /\ queue # <<>> /\ queue' = Tail(queue) /\ work = Idle
        /\ x.kind \in {"subscribe", "unsubscribe"}
        /\ work' = IF x.routes THEN [at |-> x.kind, key |-> x.key] ELSE Idle
        /\ UNCHANGED <<sinks, held, failed, delivery>>
    BY <1>12 DEF WorkEnters, MainFree
  <2>2. x.routes
    BY <2>1, HeadPost DEF Routed
  <2>3. x.key \in Keys
    BY <2>1, HeadPost DEF Posts
  <2> HIDE DEF x
  <2>0. PICK y : y = x
    OBVIOUS
  <2>4. work' # Idle /\ work'.at = y.kind /\ work'.key = y.key
    BY <2>0, <2>1, <2>2
  <2>5. \A j \in Keys : j # y.key =>
            (Present(j)' <=> Present(j)) /\ (Refusal(j)' <=> Refusal(j))
    BY <2>1, <2>4 DEF Present, Refusal, WorkOn
  <2>6. Present(y.key)' <=> y.kind = "subscribe"
    BY <2>0, <2>1, <2>4 DEF Present, WorkOn
  <2>7. \A j \in Keys : Wanted(j)' <=> Wanted(j)
    BY <2>1 DEF Wanted
  <2>8. y = Head(queue)
    BY <2>0 DEF x
  <2> QED
    BY <2>1, <2>5, <2>6, <2>7, <2>8, QueueShrinks
<1>13. ASSUME SubscribeArms PROVE Ordered'
  <2>1. UNCHANGED <<queue, sinks, delivery>> /\ work # Idle /\ work.key \in Keys
    BY <1>13, Fields DEF SubscribeArms
  <2>2. /\ work'.at = "hold" /\ work'.key = work.key /\ work' # Idle
        /\ work.at = "subscribe" /\ UNCHANGED <<held, failed>>
    BY <1>13, Fields DEF SubscribeArms, Exclusive
  <2>3. ASSUME NEW j \in Keys
        PROVE  Refusal(j)' \/ ((Present(j)' <=> Present(j)) /\ ~Refusal(j))
    <3>1. CASE j = work.key
      BY <2>1, <2>2, <3>1 DEF Present, Refusal, WorkOn
    <3>2. CASE j # work.key
      BY <2>1, <2>2, <3>2 DEF Present, Refusal, WorkOn
    <3> QED
      BY <3>1, <3>2
  <2>4. \A j \in Keys : Wanted(j)' <=> Wanted(j)
    BY <2>1 DEF Wanted
  <2> QED
    BY <2>1, <2>3, <2>4, QueueKept
<1>14. ASSUME SubscribeFails PROVE Ordered'
  <2>1. UNCHANGED <<queue, sinks, delivery>> /\ work # Idle /\ work.key \in Keys
    BY <1>14, Fields DEF SubscribeFails
  <2>2. /\ work' = Idle /\ failed' = failed \cup {work.key} /\ held' = held
    BY <1>14, Fields DEF SubscribeFails, Exclusive
  <2>3. ASSUME NEW j \in Keys
        PROVE  Refusal(j)' \/ ((Present(j)' <=> Present(j)) /\ ~Refusal(j))
    <3>1. CASE j = work.key
      BY <2>1, <2>2, <3>1 DEF Present, Refusal, WorkOn
    <3>2. CASE j # work.key
      BY <2>1, <2>2, <3>2 DEF Present, Refusal, WorkOn
    <3> QED
      BY <3>1, <3>2
  <2>4. \A j \in Keys : Wanted(j)' <=> Wanted(j)
    BY <2>1 DEF Wanted
  <2> QED
    BY <2>1, <2>3, <2>4, QueueKept
<1>15. ASSUME SubscribeHolds PROVE Ordered'
  <2>1. UNCHANGED <<queue, sinks, delivery>> /\ work # Idle /\ work.key \in Keys
    BY <1>15, Fields DEF SubscribeHolds
  <2>2. /\ work' = Idle /\ failed' = failed \ {work.key} /\ held' = held \cup {work.key}
        /\ work.at = "hold"
    BY <1>15, Fields DEF SubscribeHolds, Exclusive
  <2>3. ASSUME NEW j \in Keys
        PROVE  Refusal(j)' \/ ((Present(j)' <=> Present(j)) /\ ~Refusal(j))
    <3>1. CASE j = work.key
      BY <2>1, <2>2, <3>1 DEF Present, Refusal, WorkOn
    <3>2. CASE j # work.key
      BY <2>1, <2>2, <3>2 DEF Present, Refusal, WorkOn
    <3> QED
      BY <3>1, <3>2
  <2>4. \A j \in Keys : Wanted(j)' <=> Wanted(j)
    BY <2>1 DEF Wanted
  <2> QED
    BY <2>1, <2>3, <2>4, QueueKept
<1>16. ASSUME UnsubscribeTakes PROVE Ordered'
  <2>1. UNCHANGED <<queue, sinks, delivery>> /\ work # Idle /\ work.key \in Keys
    BY <1>16, Fields DEF UnsubscribeTakes
  <2>2. /\ work.at = "unsubscribe" /\ held' = held \ {work.key} /\ failed' = failed
        /\ \/ work' = Idle
           \/ work'.at = "cancel" /\ work'.key = work.key /\ work' # Idle
    BY <1>16, Fields DEF UnsubscribeTakes, Exclusive
  <2>3. ASSUME NEW j \in Keys
        PROVE  Refusal(j)' \/ ((Present(j)' <=> Present(j)) /\ ~Refusal(j))
    <3>1. CASE j = work.key
      BY <2>1, <2>2, <3>1 DEF Present, Refusal, WorkOn
    <3>2. CASE j # work.key
      BY <2>1, <2>2, <3>2 DEF Present, Refusal, WorkOn
    <3> QED
      BY <3>1, <3>2
  <2>4. \A j \in Keys : Wanted(j)' <=> Wanted(j)
    BY <2>1 DEF Wanted
  <2> QED
    BY <2>1, <2>3, <2>4, QueueKept
<1>17. ASSUME UnsubscribeCancels PROVE Ordered'
  <2>1. UNCHANGED <<queue, sinks, delivery>> /\ work # Idle /\ work.key \in Keys
    BY <1>17, Fields DEF UnsubscribeCancels
  <2>2. /\ work' = Idle /\ work.at = "cancel" /\ UNCHANGED <<held, failed>>
        /\ work.key \notin held
    BY <1>17, Fields DEF UnsubscribeCancels, Exclusive
  <2>3. ASSUME NEW j \in Keys
        PROVE  Refusal(j)' \/ ((Present(j)' <=> Present(j)) /\ ~Refusal(j))
    <3>1. CASE j = work.key
      BY <2>1, <2>2, <3>1 DEF Present, Refusal, WorkOn
    <3>2. CASE j # work.key
      BY <2>1, <2>2, <3>2 DEF Present, Refusal, WorkOn
    <3> QED
      BY <3>1, <3>2
  <2>4. \A j \in Keys : Wanted(j)' <=> Wanted(j)
    BY <2>1 DEF Wanted
  <2> QED
    BY <2>1, <2>3, <2>4, QueueKept
<1>18. ASSUME CallReplies PROVE Ordered'
  <2>1. UNCHANGED <<queue, sinks, held, failed, work, delivery>>
    BY <1>18 DEF CallReplies
  <2> QED
    BY <2>1, QueueKept DEF Wanted, Present, Refusal, WorkOn
<1>19. ASSUME EmissionFinds PROVE Ordered'
  <2>1. UNCHANGED <<queue, sinks, held, failed, work, delivery>>
    BY <1>19 DEF EmissionFinds
  <2> QED
    BY <2>1, QueueKept DEF Wanted, Present, Refusal, WorkOn
<1>20. ASSUME EmissionWrites PROVE Ordered'
  <2>1. UNCHANGED <<queue, sinks, held, failed, work, delivery>>
    BY <1>20 DEF EmissionWrites
  <2> QED
    BY <2>1, QueueKept DEF Wanted, Present, Refusal, WorkOn
<1>21. ASSUME MainDrops PROVE Ordered'
  BY <1>21 DEF MainDrops, Gate
<1>22. ASSUME StopStep \/ Finished PROVE Ordered'
  BY <1>22 DEF StopStep, StopWithdraws, StopClosesGate, StopReturns, Finished
<1>23. ASSUME NEW s \in Stoppers, StopBegins(s) PROVE Ordered'
  BY <1>23 DEF StopBegins
<1> QED
  BY <1>1, <1>2, <1>3, <1>4, <1>5, <1>6, <1>7, <1>8, <1>9, <1>10, <1>11,
     <1>12, <1>13, <1>14, <1>15, <1>16, <1>17, <1>18, <1>19, <1>20, <1>21,
     <1>22, <1>23
  DEF Next, DeliveryStep, MainStep, EmitterStep

\* An id and its subscription in the client come and go together.
LEMMA ArmedStep ==
    Typed /\ Gate /\ Routed /\ (Running /\ routes => Pipeline) /\ Armed /\ [Next]_vars => Armed'
<1> SUFFICES ASSUME Typed, Gate, Routed, (Running /\ routes => Pipeline),
                    Armed, [Next]_vars
             PROVE  Armed'
  OBVIOUS
<1> USE RouterAssumption
<1> USE DEF routerVars, clientVars, mainVars, stopVars, pageVars, history,
            Armed, WorkOn, Running, Idle
<1>1. ASSUME NEW k \in Keys, Subscribe(k) PROVE Armed'
  BY <1>1 DEF Subscribe, Message
<1>2. ASSUME NEW k \in Keys, Unsubscribe(k) PROVE Armed'
  BY <1>2 DEF Unsubscribe, Message
<1>3. ASSUME NEW k \in Keys, Emits(k) PROVE Armed'
  BY <1>3 DEF Emits
<1>4. ASSUME NEW c \in Calls, OnCall(c) PROVE Armed'
  BY <1>4 DEF OnCall
<1>5. ASSUME OnConnectionClosed PROVE Armed'
  BY <1>5 DEF OnConnectionClosed
<1>6. ASSUME OnSubscribe PROVE Armed'
  BY <1>6 DEF OnSubscribe
<1>7. ASSUME OnUnsubscribe PROVE Armed'
  BY <1>7 DEF OnUnsubscribe
<1>8. ASSUME DeliveryPosts PROVE Armed'
  BY <1>8 DEF DeliveryPosts
<1>9. ASSUME NEW k \in Keys, CloseWithdraws(k) PROVE Armed'
  BY <1>9 DEF CloseWithdraws
<1>10. ASSUME CloseEnds PROVE Armed'
  BY <1>10 DEF CloseEnds
<1>11. ASSUME MainDrops PROVE Armed'
  BY <1>11 DEF MainDrops
<1>12. ASSUME CallEnters PROVE Armed'
  BY <1>12 DEF CallEnters
<1>13. ASSUME WorkEnters PROVE Armed'
  BY <1>13, HeadPost DEF WorkEnters, MainFree, Posts
<1>14. ASSUME SubscribeArms PROVE Armed'
  <2>1. work # Idle /\ work.key \in Keys /\ armed \in [Keys -> Int]
    BY <1>14, Fields DEF SubscribeArms, Typed
  <2>2. /\ work.at = "subscribe" /\ armed' = [armed EXCEPT ![work.key] = @ + 1]
        /\ work'.at = "hold" /\ work'.key = work.key /\ work' # Idle
        /\ UNCHANGED <<held, late>>
    BY <1>14, Fields DEF SubscribeArms
  <2>3. ASSUME NEW j \in Keys \ late'
        PROVE  armed'[j] = (IF j \in held' THEN 1 ELSE 0)
                   + (IF WorkOn(j)' /\ work'.at \in {"hold", "cancel"} THEN 1 ELSE 0)
    <3>1. CASE j = work.key
      BY <2>1, <2>2, <3>1
    <3>2. CASE j # work.key
      BY <2>1, <2>2, <3>2
    <3> QED
      BY <3>1, <3>2
  <2> QED
    BY <2>3
<1>15. ASSUME SubscribeFails PROVE Armed'
  BY <1>15, Fields DEF SubscribeFails
<1>16. ASSUME SubscribeHolds PROVE Armed'
  <2>1. work # Idle /\ work.key \in Keys /\ armed \in [Keys -> Int]
    BY <1>16, Fields DEF SubscribeHolds, Typed
  <2>2. /\ work.at = "hold" /\ work' = Idle /\ held' = held \cup {work.key}
        /\ armed' = armed /\ (work.key \in late' \/ work.key \notin held)
        /\ \A j : j # work.key => (j \in late' <=> j \in late)
        /\ late \subseteq late'
    BY <1>16, Fields
    DEF SubscribeHolds, Routed, Pipeline, Exclusive
  <2>3. ASSUME NEW j \in Keys \ late'
        PROVE  armed'[j] = (IF j \in held' THEN 1 ELSE 0)
                   + (IF WorkOn(j)' /\ work'.at \in {"hold", "cancel"} THEN 1 ELSE 0)
    <3>1. CASE j = work.key
      BY <2>1, <2>2, <3>1
    <3>2. CASE j # work.key
      BY <2>1, <2>2, <3>2
    <3> QED
      BY <3>1, <3>2
  <2> QED
    BY <2>3
<1>17. ASSUME UnsubscribeTakes PROVE Armed'
  <2>1. work # Idle /\ work.key \in Keys /\ armed \in [Keys -> Int]
    BY <1>17, Fields DEF UnsubscribeTakes, Typed
  <2>2. /\ work.at = "unsubscribe" /\ held' = held \ {work.key}
        /\ UNCHANGED <<armed, late>>
        /\ \/ work.key \notin held /\ work' = Idle
           \/ /\ work.key \in held /\ work'.at = "cancel" /\ work'.key = work.key
              /\ work' # Idle
    BY <1>17, Fields DEF UnsubscribeTakes
  <2>3. ASSUME NEW j \in Keys \ late'
        PROVE  armed'[j] = (IF j \in held' THEN 1 ELSE 0)
                   + (IF WorkOn(j)' /\ work'.at \in {"hold", "cancel"} THEN 1 ELSE 0)
    <3>1. CASE j = work.key
      BY <2>1, <2>2, <3>1
    <3>2. CASE j # work.key
      BY <2>1, <2>2, <3>2
    <3> QED
      BY <3>1, <3>2
  <2> QED
    BY <2>3
<1>18. ASSUME UnsubscribeCancels PROVE Armed'
  <2>1. work # Idle /\ work.key \in Keys /\ armed \in [Keys -> Int]
    BY <1>18, Fields DEF UnsubscribeCancels, Typed
  <2>2. /\ work.at = "cancel" /\ armed' = [armed EXCEPT ![work.key] = @ - 1]
        /\ work' = Idle /\ UNCHANGED <<held, late>>
    BY <1>18, Fields DEF UnsubscribeCancels
  <2>3. ASSUME NEW j \in Keys \ late'
        PROVE  armed'[j] = (IF j \in held' THEN 1 ELSE 0)
                   + (IF WorkOn(j)' /\ work'.at \in {"hold", "cancel"} THEN 1 ELSE 0)
    <3>1. CASE j = work.key
      BY <2>1, <2>2, <3>1
    <3>2. CASE j # work.key
      BY <2>1, <2>2, <3>2
    <3> QED
      BY <3>1, <3>2
  <2> QED
    BY <2>3
<1>19. ASSUME CallReplies PROVE Armed'
  BY <1>19 DEF CallReplies
<1>20. ASSUME EmissionFinds PROVE Armed'
  BY <1>20 DEF EmissionFinds
<1>21. ASSUME EmissionWrites PROVE Armed'
  BY <1>21 DEF EmissionWrites
<1>22. ASSUME NEW s \in Stoppers, StopBegins(s) PROVE Armed'
  BY <1>22 DEF StopBegins
<1>23. ASSUME NEW k \in Keys, StopWithdraws(k) PROVE Armed'
  BY <1>23 DEF StopWithdraws, Typed
<1>24. ASSUME StopClosesGate PROVE Armed'
  BY <1>24 DEF StopClosesGate
<1>25. ASSUME StopReturns PROVE Armed'
  BY <1>25 DEF StopReturns
<1>26. ASSUME Finished PROVE Armed'
  BY <1>26 DEF Finished, vars
<1>27. CASE UNCHANGED vars
  BY <1>27 DEF vars
<1> QED
  BY <1>1, <1>2, <1>3, <1>4, <1>5, <1>6, <1>7, <1>8, <1>9, <1>10, <1>11,
     <1>12, <1>13, <1>14, <1>15, <1>16, <1>17, <1>18, <1>19, <1>20, <1>21,
     <1>22, <1>23, <1>24, <1>25, <1>26, <1>27
  DEF Next, DeliveryStep, MainStep, EmitterStep, StopStep

\* stop() finds every id that is not being withdrawn already.
LEMMA TakenStep ==
    Typed /\ Gate /\ Routed /\ (Running /\ routes => Pipeline) /\ Taken /\ [Next]_vars => Taken'
<1> SUFFICES ASSUME Typed, Gate, Routed, (Running /\ routes => Pipeline),
                    Taken, [Next]_vars
             PROVE  Taken'
  OBVIOUS
<1> USE RouterAssumption
<1> USE DEF routerVars, clientVars, mainVars, stopVars, pageVars, history,
            Taken, WorkOn, Running, Idle
<1>1. ASSUME NEW k \in Keys, Subscribe(k) PROVE Taken'
  BY <1>1 DEF Subscribe, Message
<1>2. ASSUME NEW k \in Keys, Unsubscribe(k) PROVE Taken'
  BY <1>2 DEF Unsubscribe, Message
<1>3. ASSUME NEW k \in Keys, Emits(k) PROVE Taken'
  BY <1>3 DEF Emits
<1>4. ASSUME NEW c \in Calls, OnCall(c) PROVE Taken'
  BY <1>4 DEF OnCall
<1>5. ASSUME OnConnectionClosed PROVE Taken'
  BY <1>5 DEF OnConnectionClosed
<1>6. ASSUME OnSubscribe PROVE Taken'
  BY <1>6 DEF OnSubscribe
<1>7. ASSUME OnUnsubscribe PROVE Taken'
  BY <1>7 DEF OnUnsubscribe
<1>8. ASSUME DeliveryPosts PROVE Taken'
  BY <1>8 DEF DeliveryPosts
<1>9. ASSUME NEW k \in Keys, CloseWithdraws(k) PROVE Taken'
  BY <1>9 DEF CloseWithdraws
<1>10. ASSUME CloseEnds PROVE Taken'
  BY <1>10 DEF CloseEnds
<1>11. ASSUME MainDrops PROVE Taken'
  BY <1>11 DEF MainDrops
<1>12. ASSUME CallEnters PROVE Taken'
  BY <1>12 DEF CallEnters
<1>13. ASSUME WorkEnters PROVE Taken'
  BY <1>13 DEF WorkEnters, MainFree
<1>14. ASSUME SubscribeArms PROVE Taken'
  BY <1>14, Fields DEF SubscribeArms
<1>15. ASSUME SubscribeFails PROVE Taken'
  BY <1>15, Fields DEF SubscribeFails
<1>16. ASSUME SubscribeHolds PROVE Taken'
  BY <1>16, Fields DEF SubscribeHolds
<1>17. ASSUME UnsubscribeTakes PROVE Taken'
  BY <1>17, Fields DEF UnsubscribeTakes
<1>18. ASSUME UnsubscribeCancels PROVE Taken'
  BY <1>18, Fields DEF UnsubscribeCancels
<1>19. ASSUME CallReplies PROVE Taken'
  BY <1>19 DEF CallReplies
<1>20. ASSUME EmissionFinds PROVE Taken'
  BY <1>20 DEF EmissionFinds
<1>21. ASSUME EmissionWrites PROVE Taken'
  BY <1>21 DEF EmissionWrites
<1>22. ASSUME NEW s \in Stoppers, StopBegins(s) PROVE Taken'
  <2>1. /\ taken' = sinks /\ underway' = {k \in Keys : Withdrawing(k)}
        /\ UNCHANGED <<held, late, work>> /\ Running
    BY <1>22 DEF StopBegins
  <2> SUFFICES ASSUME NEW k \in held, ~Withdrawing(k), ~(work.at = "unsubscribe" /\ WorkOn(k))
               PROVE  k \in sinks
    BY <2>1 DEF Typed
  <2>2. routes /\ Pipeline /\ k \in Keys
    BY <2>1 DEF Routed, Typed
  <2>3. k \notin failed /\ Present(k)
    BY <2>2, Fields DEF Pipeline, Exclusive, Present
  <2>4. Wanted(k) => k \in sinks
    BY DEF Wanted, Withdrawing
  <2>5. ASSUME ~Wanted(k), NEW i \in DOMAIN queue, queue[i].key = k PROVE FALSE
    <3> DEFINE S == {l \in DOMAIN queue : queue[l].key = k}
    <3>1. Len(queue) \in Nat /\ S \subseteq 0 .. Len(queue) /\ S # {}
      BY <2>5 DEF Typed
    <3>2. PICK j \in S : \A l \in S : l <= j
      BY <3>1, LastIndex
    <3>3. j \in DOMAIN queue /\ queue[j].key = k /\ \A l \in DOMAIN queue : j < l => queue[l].key # k
      BY <3>1, <3>2
    <3>4. queue[j].kind # "subscribe"
      BY <2>2, <2>5, <3>3 DEF Pipeline, Ends
    <3>5. queue[j].kind = "unsubscribe"
      <4>1. queue[j] \in Posts
        BY <3>3 DEF Typed
      <4> QED
        BY <2>2, <3>3, <3>4, <4>1 DEF Posts
    <3> QED
      BY <3>3, <3>5 DEF Withdrawing
  <2> QED
    BY <2>2, <2>3, <2>4, <2>5 DEF Pipeline, Quiet, Refusal
<1>23. ASSUME NEW k \in Keys, StopWithdraws(k) PROVE Taken'
  BY <1>23 DEF StopWithdraws, Routed
<1>24. ASSUME StopClosesGate PROVE Taken'
  BY <1>24 DEF StopClosesGate
<1>25. ASSUME StopReturns PROVE Taken'
  BY <1>25 DEF StopReturns
<1>26. ASSUME Finished PROVE Taken'
  BY <1>26 DEF Finished, vars
<1>27. CASE UNCHANGED vars
  BY <1>27 DEF vars
<1> QED
  BY <1>1, <1>2, <1>3, <1>4, <1>5, <1>6, <1>7, <1>8, <1>9, <1>10, <1>11,
     <1>12, <1>13, <1>14, <1>15, <1>16, <1>17, <1>18, <1>19, <1>20, <1>21,
     <1>22, <1>23, <1>24, <1>25, <1>26, <1>27
  DEF Next, DeliveryStep, MainStep, EmitterStep, StopStep

\* A router that nobody has used.
LEMMA InitIInv == Init => IInv
<1> SUFFICES ASSUME Init PROVE IInv
  OBVIOUS
<1> USE RouterAssumption DEF Init
<1>1. Typed
  BY DEF Typed, Deliveries, Works, Emissions
<1>2. Gate /\ Routed /\ Armed /\ Taken /\ NoLateWork
  BY DEF Gate, Routed, Armed, Taken, NoLateWork, Running, WorkOn
<1>3. Recorded /\ Exclusive
  BY DEF Recorded, Exclusive, Idle
<1>4. Starts /\ Alternates /\ Ends /\ Quiet
  BY DEF Starts, Alternates, Ends, Quiet, Present, Wanted, WorkOn, Idle
<1> QED
  BY <1>1, <1>2, <1>3, <1>4 DEF IInv, Pipeline

\* stop() begins once, and takes the routes away after that.
LEMMA StillRunning == Next /\ Running' /\ routes' => Running /\ routes
  BY DEF Next, DeliveryStep, MainStep, EmitterStep, StopStep, Running,
         Subscribe, Unsubscribe, Emits, OnCall, OnConnectionClosed,
         OnSubscribe, OnUnsubscribe, DeliveryPosts, CloseWithdraws, CloseEnds,
         MainDrops, CallEnters, WorkEnters, SubscribeArms, SubscribeFails,
         SubscribeHolds, UnsubscribeTakes, UnsubscribeCancels, CallReplies,
         EmissionFinds, EmissionWrites, StopBegins, StopWithdraws,
         StopClosesGate, StopReturns, Finished, vars, routerVars, clientVars,
         mainVars, stopVars, pageVars, history

\* The router keeps the invariant in every behaviour.
THEOREM InductiveInvariant == Spec => []IInv
<1>1. IInv /\ [Next]_vars => IInv'
  <2> SUFFICES ASSUME IInv, [Next]_vars PROVE IInv'
    OBVIOUS
  <2>1. /\ Typed /\ Gate /\ Routed /\ (Running /\ routes => Pipeline)
        /\ Armed /\ Taken /\ NoLateWork
    BY DEF IInv
  <2>2. Running' /\ routes' => Pipeline'
    <3> SUFFICES ASSUME Running', routes' PROVE Pipeline'
      OBVIOUS
    <3>1. CASE Next
      <4>1. Running /\ routes
        BY <3>1, StillRunning
      <4> QED
        BY <2>1, <3>1, <4>1, RecordedStep, ExclusiveStep, OrderedStep DEF Pipeline, Ordered
    <3>2. CASE UNCHANGED vars
      <4>1. /\ UNCHANGED <<queue, sinks, held, failed, work, delivery>>
            /\ Running /\ routes
        BY <3>2 DEF vars, routerVars, clientVars, mainVars, stopVars, history, Running
      <4>2. Ordered'
        BY <2>1, <4>1, QueueKept
        DEF Ordered, Pipeline, Wanted, Present, Refusal, WorkOn
      <4> QED
        BY <2>1, <4>1, <4>2 DEF Pipeline, Ordered, Recorded, Exclusive
    <3> QED
      BY <3>1, <3>2
  <2> QED
    BY <2>1, <2>2, TypeStep, GateStep, RoutedStep, ArmedStep, TakenStep, NoLateStep
    DEF IInv
<1> QED
  BY InitIInv, <1>1, PTL DEF Spec

\* Nothing reaches the page or the routes once stop() has returned.
THEOREM StoppedMeansStopped == Spec => []NoLateWork
<1>1. IInv => NoLateWork
  BY DEF IInv
<1> QED
  BY InductiveInvariant, <1>1, PTL

\* With its messages handled, the page is subscribed in the core to exactly what
\* it asked for and the client did not refuse, once each.
THEOREM SubscriptionsMatch == Spec => []SubscriptionsAgree
<1>1. IInv => SubscriptionsAgree
  <2> SUFFICES ASSUME IInv, Settled, routes
               PROVE  /\ held = sinks \ failed
                      /\ \A k \in Keys : armed[k] = IF k \in held THEN 1 ELSE 0
    BY DEF SubscriptionsAgree
  <2>1. delivery = Idle /\ work = Idle /\ Running
    BY DEF Settled, Running
  <2>2. Typed /\ Pipeline /\ Gate /\ Armed
    BY <2>1 DEF IInv
  <2>3. \A k \in Keys, i \in DOMAIN queue : queue[i].key # k
    <3>1. ASSUME NEW i \in DOMAIN queue PROVE queue[i].key \notin Keys
      <4>1. queue[i] \in Posts /\ queue[i].kind = "call"
        BY <2>2 DEF Typed, Settled
      <4> QED
        BY <4>1, RouterAssumption DEF Posts
    <3> QED
      BY <3>1
  <2>4. \A k \in Keys : (Wanted(k) <=> k \in sinks) /\ (Present(k) <=> k \in held)
    BY <2>1 DEF Wanted, Present, WorkOn, Idle
  <2>5. \A k \in Keys : k \in failed \/ (k \in held <=> k \in sinks)
    BY <2>2, <2>3, <2>4 DEF Pipeline, Quiet, Refusal
  <2>6. held = sinks \ failed
    BY <2>2, <2>5 DEF Pipeline, Exclusive, Typed
  <2>7. \A k \in Keys : armed[k] = IF k \in held THEN 1 ELSE 0
    BY <2>1, <2>2 DEF Armed, Gate, WorkOn
  <2> QED
    BY <2>6, <2>7
<1> QED
  BY InductiveInvariant, <1>1, PTL

\* stop() leaves no subscription behind but the ones the exceptions name.
THEOREM StopWithdrawsAll == Spec => []NothingLeftArmed
<1>1. IInv => NothingLeftArmed
  <2> SUFFICES ASSUME IInv, stopPc = "done", NEW k \in Keys, k \in held \/ armed[k] > 0,
                      k \notin underway, ~(stopper = "other" /\ k \in late)
               PROVE  FALSE
    BY DEF NothingLeftArmed
  <2>1. Typed /\ Gate /\ Armed /\ Taken /\ NoLateWork
    BY DEF IInv
  <2>2. work = Idle /\ k \notin late /\ taken = {}
    BY <2>1 DEF Typed, Gate, NoLateWork, Running
  <2>3. k \notin held
    BY <2>1, <2>2 DEF Taken, Running, WorkOn
  <2>4. armed[k] = 0
    BY <2>1, <2>2, <2>3 DEF Armed, WorkOn
  <2> QED
    BY <2>3, <2>4
<1> QED
  BY InductiveInvariant, <1>1, PTL

-----------------------------------------------------------------------------
(* The container.                                                          *)

\* One frame of the main thread.
Frame == [kind : {"in", "out", "lock"}, on : 0..MaxLaunches, late : BOOLEAN]

\* Where the instances are that launch, retire and tearDown act on.
Whereabouts ==
    /\ current # 0 => inst[current] = "mapped"
    /\ tpc = "map" => opened \in Instances /\ inst[opened] = "building"
    /\ tpc = "open" \/ (tpc \in {"stop", "wait"} /\ after = "open") => opened < MaxLaunches
    /\ \A i \in victims : inst[i] = "taken"
    /\ \A i \in lost : inst[i] \in {"parked", "taken", "destroyed"}
    /\ \A i \in Instances : i > opened => inst[i] = "none"
    /\ \A i \in apis : inst[i] # "none"

\* A call that came in before its page was lost keeps the instance parked.
CallsPark ==
    \A k \in DOMAIN stack :
        /\ stack[k].kind = "in" /\ stack[k].on \in lost /\ ~stack[k].late
        => inst[stack[k].on] = "parked"

ContainerInv == TypeOK /\ Whereabouts /\ CallsPark

\* A frame pushed on the stack of the main thread is the only new one.
LEMMA PushProperties ==
    ASSUME NEW S, NEW s \in Seq(S), NEW f \in S
    PROVE  /\ Append(s, f) \in Seq(S)
           /\ \A k \in DOMAIN Append(s, f) :
                 Append(s, f)[k] = f \/ (k \in DOMAIN s /\ Append(s, f)[k] = s[k])
<1> DEFINE t == Append(s, f)
<1>1. /\ t \in Seq(S) /\ Len(t) = Len(s) + 1 /\ t[Len(s) + 1] = f
      /\ \A k \in 1..Len(s) : t[k] = s[k]
  BY AppendProperties
<1>2. DOMAIN t = 1..Len(t) /\ DOMAIN s = 1..Len(s) /\ Len(s) \in Nat
  BY <1>1
<1> QED
  BY <1>1, <1>2

\* The innermost frame leaves the stack, the others stay.
LEMMA PopProperties ==
    ASSUME NEW S, NEW s \in Seq(S), s # <<>>
    PROVE  /\ SubSeq(s, 1, Len(s) - 1) \in Seq(S)
           /\ \A k \in DOMAIN SubSeq(s, 1, Len(s) - 1) :
                 k \in DOMAIN s /\ SubSeq(s, 1, Len(s) - 1)[k] = s[k]
<1> DEFINE n == Len(s) - 1
           t == SubSeq(s, 1, n)
<1>1. n \in Nat /\ n < Len(s)
  BY EmptySeq
<1> HIDE DEF n
<1>2. t \in Seq(S) /\ Len(t) = n /\ \A k \in 1..n : t[k] = s[k]
  BY <1>1
<1>3. DOMAIN t = 1..n /\ DOMAIN s = 1..Len(s)
  BY <1>1, <1>2
<1> QED
  BY <1>1, <1>2, <1>3 DEF n

\* Push puts one frame on top.
LEMMA FramePushed ==
    ASSUME TypeOK, NEW i \in 0..MaxLaunches, NEW kind \in {"in", "out", "lock"},
           Push(kind, i)
    PROVE  /\ stack' \in Seq(Frame)
           /\ \A k \in DOMAIN stack' :
                 \/ stack'[k] = [kind |-> kind, on |-> i, late |-> i \in lost]
                 \/ k \in DOMAIN stack /\ stack'[k] = stack[k]
<1> DEFINE f == [kind |-> kind, on |-> i, late |-> i \in lost]
<1>1. f \in Frame
  BY DEF Frame
<1>2. stack \in Seq(Frame)
  BY DEF TypeOK, Frame
<1>3. stack' = Append(stack, f)
  BY DEF Push
<1> HIDE DEF f
<1>4. /\ stack' \in Seq(Frame)
      /\ \A k \in DOMAIN stack' :
            stack'[k] = f \/ (k \in DOMAIN stack /\ stack'[k] = stack[k])
  BY <1>1, <1>2, <1>3, PushProperties
<1> QED
  BY <1>4 DEF f

\* A call into a page that is already lost is marked as late.
LEMMA LateFrame ==
    ASSUME NEW i, NEW S, NEW f,
           f = [kind |-> "in", on |-> i, late |-> i \in S], f.on \in S
    PROVE  f.late
  OBVIOUS

\* A frame that ends takes only itself off.
LEMMA FramePopped ==
    ASSUME TypeOK, stack # <<>>, stack' = Popped
    PROVE  /\ stack' \in Seq(Frame)
           /\ \A k \in DOMAIN stack' : k \in DOMAIN stack /\ stack'[k] = stack[k]
<1>1. stack \in Seq(Frame)
  BY DEF TypeOK, Frame
<1> QED
  BY <1>1, PopProperties, Zenon DEF Popped

\* The initial state: nothing opened, an empty stack.
LEMMA ContainerInitially ==
    ContainerInit => ContainerInv
<1> SUFFICES ASSUME ContainerInit PROVE ContainerInv
  OBVIOUS
<1> USE WebAssumption DEF ContainerInit, Instances
<1>1. sweep \in BOOLEAN
  BY Zenon
<1>2. stack \in Seq(Frame) /\ DOMAIN stack = {}
  OBVIOUS
<1>3. TypeOK
  BY <1>1, <1>2 DEF TypeOK, Frame
<1>4. Whereabouts
  BY DEF Whereabouts
<1>5. CallsPark
  BY <1>2 DEF CallsPark
<1> QED
  BY <1>3, <1>4, <1>5 DEF ContainerInv

\* Every step keeps the container's tables and the two threads in their types.
LEMMA ContainerTypeStep ==
    TypeOK /\ Whereabouts /\ [ContainerNext]_containerVars => TypeOK'
<1> SUFFICES ASSUME TypeOK, Whereabouts, [ContainerNext]_containerVars
             PROVE  TypeOK'
  OBVIOUS
<1> USE WebAssumption DEF TypeOK, Instances, GotoT, instVars, threadVars,
            postVars
<1>1. ASSUME LoadBegins PROVE TypeOK'
  BY <1>1 DEF LoadBegins, Ready
<1>2. ASSUME UnloadBegins PROVE TypeOK'
  BY <1>2 DEF UnloadBegins
<1>3. ASSUME LaunchOpens PROVE TypeOK'
  BY <1>3 DEF LaunchOpens, Whereabouts
<1>4. ASSUME LaunchFails PROVE TypeOK'
  BY <1>4 DEF LaunchFails, Whereabouts
<1>5. ASSUME LaunchMaps PROVE TypeOK'
  BY <1>5 DEF LaunchMaps, Whereabouts
<1>6. ASSUME ProbeServes PROVE TypeOK'
  BY <1>6 DEF ProbeServes
<1>7. ASSUME ProbeFails PROVE TypeOK'
  BY <1>7 DEF ProbeFails
<1>8. ASSUME RetireTakes PROVE TypeOK'
  BY <1>8 DEF RetireTakes, Take
<1>9. ASSUME RetireFindsNothing PROVE TypeOK'
  BY <1>9 DEF RetireFindsNothing
<1>10. ASSUME StopCloses PROVE TypeOK'
  BY <1>10 DEF StopCloses
<1>11. ASSUME TearDown PROVE TypeOK'
  BY <1>11 DEF TearDown, Destroy, Tell
<1>12. ASSUME TerminateSweeps PROVE TypeOK'
  BY <1>12 DEF TerminateSweeps, Ready
<1>13. ASSUME UnloadReturns PROVE TypeOK'
  BY <1>13 DEF UnloadReturns
<1>14. ASSUME NEW i \in Instances, PageDies(i) PROVE TypeOK'
  BY <1>14 DEF PageDies
<1>15. ASSUME NEW i \in Instances, CallIn(i) PROVE TypeOK'
  <2>1. Push("in", i) /\ i \in 0..MaxLaunches
    BY <1>15 DEF CallIn
  <2>2. stack' \in Seq(Frame)
    BY <2>1, FramePushed
  <2>3. calls' \in 0..MaxCalls
    BY <1>15 DEF CallIn
  <2> QED
    BY <1>15, <2>2, <2>3 DEF CallIn, Frame
<1>16. ASSUME NEW i \in Instances, CallOut(i) PROVE TypeOK'
  <2>1. Push("out", i) /\ i \in 0..MaxLaunches
    BY <1>16 DEF CallOut
  <2>2. stack' \in Seq(Frame)
    BY <2>1, FramePushed
  <2>3. calls' \in 0..MaxCalls
    BY <1>16 DEF CallOut
  <2> QED
    BY <1>16, <2>2, <2>3 DEF CallOut, Frame
<1>17. ASSUME CallReturns PROVE TypeOK'
  <2>1. stack' \in Seq(Frame)
    BY <1>17, FramePopped DEF CallReturns
  <2> QED
    BY <1>17, <2>1 DEF CallReturns, Frame
<1>18. ASSUME DeathFindsNothing PROVE TypeOK'
  BY <1>18 DEF DeathFindsNothing
<1>19. ASSUME DeathParks PROVE TypeOK'
  BY <1>19 DEF DeathParks, Tell
<1>20. ASSUME DeathTearsDown PROVE TypeOK'
  BY <1>20 DEF DeathTearsDown, Destroy, Tell
<1>21. ASSUME Sweeps PROVE TypeOK'
  BY <1>21 DEF Sweeps, Destroy, Ready
<1>22. ASSUME MainUnloadsNow PROVE TypeOK'
  <2>1. stack' \in Seq(Frame)
    BY <1>22 DEF MainUnloadsNow, MainUnload, Frame
  <2>2. current' \in 0..opened /\ opened' = opened
    BY <1>22 DEF MainUnloadsNow, MainUnload
  <2>3. told' \in [Instances -> Nat]
    BY <1>22, SMTT(30) DEF MainUnloadsNow, MainUnload, Tell
  <2>4. inst' \in [Instances -> {"none", "building", "mapped", "taken", "parked",
                              "destroyed"}]
    BY <1>22 DEF MainUnloadsNow, MainUnload, Destroy
  <2>5. apis' \subseteq Instances /\ gates' \subseteq apis'
    BY <1>22 DEF MainUnloadsNow, MainUnload, Destroy
  <2> QED
    BY <1>22, <2>1, <2>2, <2>3, <2>4, <2>5 DEF MainUnloadsNow, MainUnload, Frame
<1>23. ASSUME MainBlocks PROVE TypeOK'
  <2>1. Push("lock", 0) /\ 0 \in 0..MaxLaunches
    BY <1>23 DEF MainBlocks
  <2>2. stack' \in Seq(Frame)
    BY <2>1, FramePushed
  <2> QED
    BY <1>23, <2>2 DEF MainBlocks, Frame
<1>24. ASSUME MainUnblocks PROVE TypeOK'
  <2>1. stack' \in Seq(Frame)
    BY <1>24, FramePopped DEF MainUnblocks, MainUnload, MainTurns
  <2>2. current' \in 0..opened /\ opened' = opened
    BY <1>24 DEF MainUnblocks, MainUnload
  <2>3. told' \in [Instances -> Nat]
    BY <1>24 DEF MainUnblocks, MainUnload, Tell
  <2>4. inst' \in [Instances -> {"none", "building", "mapped", "taken", "parked",
                              "destroyed"}]
    BY <1>24 DEF MainUnblocks, MainUnload, Destroy
  <2>5. apis' \subseteq Instances /\ gates' \subseteq apis'
    BY <1>24 DEF MainUnblocks, MainUnload, Destroy
  <2> QED
    BY <1>24, <2>1, <2>2, <2>3, <2>4, <2>5 DEF MainUnblocks, MainUnload, Frame
<1>25. CASE UNCHANGED containerVars
  BY <1>25 DEF containerVars
<1> QED
  BY <1>1, <1>2, <1>3, <1>4, <1>5, <1>6, <1>7, <1>8, <1>9, <1>10, <1>11,
     <1>12, <1>13, <1>14, <1>15, <1>16, <1>17, <1>18, <1>19, <1>20, <1>21,
     <1>22, <1>23, <1>24, <1>25
  DEF ContainerNext, ApiStep, PostedStep

\* The map, the launch in progress and the tearDown in progress keep hold of
\* their instances.
LEMMA WhereStep ==
    TypeOK /\ Whereabouts /\ [ContainerNext]_containerVars => Whereabouts'
<1> SUFFICES ASSUME TypeOK, Whereabouts, [ContainerNext]_containerVars
             PROVE  Whereabouts'
  OBVIOUS
<1> USE WebAssumption DEF TypeOK, Whereabouts, Instances, GotoT, instVars,
            threadVars,
            postVars
<1>1. ASSUME LoadBegins PROVE Whereabouts'
  BY <1>1 DEF LoadBegins, Ready
<1>2. ASSUME UnloadBegins PROVE Whereabouts'
  BY <1>2 DEF UnloadBegins
<1>3. ASSUME LaunchOpens PROVE Whereabouts'
  BY <1>3 DEF LaunchOpens, Whereabouts
<1>4. ASSUME LaunchFails PROVE Whereabouts'
  BY <1>4 DEF LaunchFails, Whereabouts
<1>5. ASSUME LaunchMaps PROVE Whereabouts'
  BY <1>5 DEF LaunchMaps, Whereabouts
<1>6. ASSUME ProbeServes PROVE Whereabouts'
  BY <1>6 DEF ProbeServes
<1>7. ASSUME ProbeFails PROVE Whereabouts'
  BY <1>7 DEF ProbeFails
<1>8. ASSUME RetireTakes PROVE Whereabouts'
  BY <1>8 DEF RetireTakes, Take
<1>9. ASSUME RetireFindsNothing PROVE Whereabouts'
  BY <1>9 DEF RetireFindsNothing
<1>10. ASSUME StopCloses PROVE Whereabouts'
  BY <1>10 DEF StopCloses
<1>11. ASSUME TearDown PROVE Whereabouts'
  BY <1>11 DEF TearDown, Destroy, Tell
<1>12. ASSUME TerminateSweeps PROVE Whereabouts'
  BY <1>12 DEF TerminateSweeps, Ready
<1>13. ASSUME UnloadReturns PROVE Whereabouts'
  BY <1>13 DEF UnloadReturns
<1>14. ASSUME NEW i \in Instances, PageDies(i) PROVE Whereabouts'
  BY <1>14 DEF PageDies
<1>15. ASSUME NEW i \in Instances, CallIn(i) PROVE Whereabouts'
  BY <1>15 DEF CallIn
<1>16. ASSUME NEW i \in Instances, CallOut(i) PROVE Whereabouts'
  BY <1>16 DEF CallOut
<1>17. ASSUME CallReturns PROVE Whereabouts'
  BY <1>17 DEF CallReturns
<1>18. ASSUME DeathFindsNothing PROVE Whereabouts'
  BY <1>18 DEF DeathFindsNothing
<1>19. ASSUME DeathParks PROVE Whereabouts'
  BY <1>19 DEF DeathParks, Tell
<1>20. ASSUME DeathTearsDown PROVE Whereabouts'
  BY <1>20 DEF DeathTearsDown, Destroy, Tell
<1>21. ASSUME Sweeps PROVE Whereabouts'
  BY <1>21 DEF Sweeps, Destroy, Ready
<1>22. ASSUME MainUnloadsNow PROVE Whereabouts'
  BY <1>22 DEF MainUnloadsNow, MainUnload, Destroy, Tell, Ready
<1>23. ASSUME MainBlocks PROVE Whereabouts'
  BY <1>23 DEF MainBlocks
<1>24. ASSUME MainUnblocks PROVE Whereabouts'
  BY <1>24 DEF MainUnblocks, MainUnload, Destroy, Tell, Ready
<1>25. CASE UNCHANGED containerVars
  BY <1>25 DEF containerVars
<1> QED
  BY <1>1, <1>2, <1>3, <1>4, <1>5, <1>6, <1>7, <1>8, <1>9, <1>10, <1>11,
     <1>12, <1>13, <1>14, <1>15, <1>16, <1>17, <1>18, <1>19, <1>20, <1>21,
     <1>22, <1>23, <1>24, <1>25
  DEF ContainerNext, ApiStep, PostedStep

\* No step takes a parked instance away from a call that is unwinding.
LEMMA ParkStep ==
    TypeOK /\ Whereabouts /\ CallsPark /\ [ContainerNext]_containerVars => CallsPark'
<1> SUFFICES ASSUME TypeOK, Whereabouts, CallsPark, [ContainerNext]_containerVars
             PROVE  CallsPark'
  OBVIOUS
<1> USE WebAssumption DEF TypeOK, CallsPark, Whereabouts, Instances, GotoT,
            Awaiting, Inside, instVars, threadVars, postVars
<1>1. ASSUME LoadBegins PROVE CallsPark'
  BY <1>1 DEF LoadBegins, Ready
<1>2. ASSUME UnloadBegins PROVE CallsPark'
  BY <1>2 DEF UnloadBegins
<1>3. ASSUME LaunchOpens PROVE CallsPark'
  BY <1>3 DEF LaunchOpens, Whereabouts
<1>4. ASSUME LaunchFails PROVE CallsPark'
  BY <1>4 DEF LaunchFails, Whereabouts
<1>5. ASSUME LaunchMaps PROVE CallsPark'
  BY <1>5 DEF LaunchMaps, Whereabouts
<1>6. ASSUME ProbeServes PROVE CallsPark'
  BY <1>6 DEF ProbeServes
<1>7. ASSUME ProbeFails PROVE CallsPark'
  BY <1>7 DEF ProbeFails
<1>8. ASSUME RetireTakes PROVE CallsPark'
  BY <1>8 DEF RetireTakes, Take
<1>9. ASSUME RetireFindsNothing PROVE CallsPark'
  BY <1>9 DEF RetireFindsNothing
<1>10. ASSUME StopCloses PROVE CallsPark'
  BY <1>10 DEF StopCloses
<1>11. ASSUME TearDown PROVE CallsPark'
  BY <1>11 DEF TearDown, Destroy, Tell
<1>12. ASSUME TerminateSweeps PROVE CallsPark'
  BY <1>12 DEF TerminateSweeps, Ready
<1>13. ASSUME UnloadReturns PROVE CallsPark'
  BY <1>13 DEF UnloadReturns
<1>14. ASSUME NEW i \in Instances, PageDies(i) PROVE CallsPark'
  BY <1>14 DEF PageDies
<1>15. ASSUME NEW i \in Instances, CallIn(i) PROVE CallsPark'
  <2>1. Push("in", i) /\ i \in 0..MaxLaunches
    BY <1>15 DEF CallIn
  <2>2. \A k \in DOMAIN stack' :
            \/ stack'[k] = [kind |-> "in", on |-> i, late |-> i \in lost]
            \/ k \in DOMAIN stack /\ stack'[k] = stack[k]
    BY <2>1, FramePushed
  <2>3. lost' = lost /\ inst' = inst
    BY <1>15 DEF CallIn
  <2> SUFFICES ASSUME NEW k \in DOMAIN stack', stack'[k].kind = "in",
                      stack'[k].on \in lost, ~stack'[k].late
               PROVE  inst[stack'[k].on] = "parked"
    BY <2>3
  <2>4. stack'[k] # [kind |-> "in", on |-> i, late |-> i \in lost]
    BY LateFrame, Zenon
  <2> QED
    BY <2>2, <2>4
<1>16. ASSUME NEW i \in Instances, CallOut(i) PROVE CallsPark'
  <2>1. Push("out", i) /\ i \in 0..MaxLaunches
    BY <1>16 DEF CallOut
  <2>2. \A k \in DOMAIN stack' :
            \/ stack'[k] = [kind |-> "out", on |-> i, late |-> i \in lost]
            \/ k \in DOMAIN stack /\ stack'[k] = stack[k]
    BY <2>1, FramePushed
  <2>3. lost' = lost /\ inst' = inst
    BY <1>16 DEF CallOut
  <2> QED
    BY <2>2, <2>3
<1>17. ASSUME CallReturns PROVE CallsPark'
  <2>1. \A k \in DOMAIN stack' : k \in DOMAIN stack /\ stack'[k] = stack[k]
    BY <1>17, FramePopped DEF CallReturns
  <2> QED
    BY <1>17, <2>1 DEF CallReturns
<1>18. ASSUME DeathFindsNothing PROVE CallsPark'
  BY <1>18 DEF DeathFindsNothing
<1>19. ASSUME DeathParks PROVE CallsPark'
  BY <1>19, SMTT(30) DEF DeathParks, Tell
<1>20. ASSUME DeathTearsDown PROVE CallsPark'
  BY <1>20 DEF DeathTearsDown, Destroy, Tell
<1>21. ASSUME Sweeps PROVE CallsPark'
  BY <1>21 DEF Sweeps, Destroy, Ready
<1>22. ASSUME MainUnloadsNow PROVE CallsPark'
  BY <1>22 DEF MainUnloadsNow, MainUnload, Destroy, Tell, Ready
<1>23. ASSUME MainBlocks PROVE CallsPark'
  <2>1. Push("lock", 0) /\ 0 \in 0..MaxLaunches
    BY <1>23 DEF MainBlocks
  <2>2. \A k \in DOMAIN stack' :
            \/ stack'[k] = [kind |-> "lock", on |-> 0, late |-> 0 \in lost]
            \/ k \in DOMAIN stack /\ stack'[k] = stack[k]
    BY <2>1, FramePushed
  <2>3. lost' = lost /\ inst' = inst
    BY <1>23 DEF MainBlocks
  <2> QED
    BY <2>2, <2>3
<1>24. ASSUME MainUnblocks PROVE CallsPark'
  <2>1. \A k \in DOMAIN stack' : k \in DOMAIN stack /\ stack'[k] = stack[k]
    BY <1>24, FramePopped DEF MainUnblocks, MainUnload, MainTurns
  <2> QED
    BY <1>24, <2>1, SMTT(30) DEF MainUnblocks, MainUnload, Destroy, Ready
<1>25. CASE UNCHANGED containerVars
  BY <1>25 DEF containerVars
<1> QED
  BY <1>1, <1>2, <1>3, <1>4, <1>5, <1>6, <1>7, <1>8, <1>9, <1>10, <1>11,
     <1>12, <1>13, <1>14, <1>15, <1>16, <1>17, <1>18, <1>19, <1>20, <1>21,
     <1>22, <1>23, <1>24, <1>25
  DEF ContainerNext, ApiStep, PostedStep

\* The container keeps the invariant in every behaviour.
THEOREM ContainerInvariant ==
    ContainerSpec => []ContainerInv
<1>1. ContainerInv /\ [ContainerNext]_containerVars => ContainerInv'
  BY ContainerTypeStep, WhereStep, ParkStep DEF ContainerInv
<1> QED
  BY ContainerInitially, <1>1, PTL DEF ContainerSpec

\* Every table of the container and both threads keep their types.
THEOREM ContainerTypeCorrect ==
    ContainerSpec => []TypeOK
<1>1. ContainerInv => TypeOK
  BY DEF ContainerInv
<1> QED
  BY ContainerInvariant, <1>1, PTL

\* A page lost in the middle of a call into it is not destroyed under that call,
\* whichever of the sweep, a load and an unload comes by (deferTearDown,
\* sweepRetired).
THEOREM CallsOutlived ==
    ContainerSpec => []LostPageOutlivesItsCalls
<1>1. ContainerInv => LostPageOutlivesItsCalls
  BY DEF ContainerInv, CallsPark, LostPageOutlivesItsCalls
<1> QED
  BY ContainerInvariant, <1>1, PTL
=============================================================================
