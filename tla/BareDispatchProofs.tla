-------------------------- MODULE BareDispatchProofs --------------------------
(***************************************************************************)
(* Safety of BareDispatch for any calls and any number of launches.        *)
(*                                                                         *)
(* AnsweredOnce is not inductive: a completion adds one answer, and        *)
(* nothing in it says that the call had none. The invariant says where a   *)
(* call is: taken by an instance it is queued there, or running on its     *)
(* worker once, or answered, and only one of these. That a freed glue is   *)
(* quiet then follows from how far terminate() has come.                   *)
(***************************************************************************)
EXTENDS BareDispatch, SequenceTheorems, FiniteSetTheorems, TLAPS

\* c is an element of s; no element of s comes twice.
On(s, c) == \E k \in 1..Len(s) : s[k] = c
Distinct(s) == \A k, l \in 1..Len(s) : s[k] = s[l] => k = l

\* The worker of i is inside call c.
Running(i, c) == On(stack[i], c)

\* What launch() and the steps of terminate() have established about the
\* instance in the map and the one that is leaving.
TerminateStages ==
    /\ current # 0 =>
          /\ teardown = "idle" /\ current \in attached
          /\ glue[current] = "live" /\ mode[current] = "deferred"
    /\ teardown # "idle" =>
          /\ current = 0 /\ leaving \in 1..opened /\ glue[leaving] = "live"
          /\ teardown # "free" => leaving \in attached
    /\ teardown \in {"wait", "answer", "abandon", "answered", "unpublish", "free"} =>
          mode[leaving] = "retired"
    /\ teardown \in {"answer", "unpublish", "free"} => worker[leaving] = "exited"
    /\ teardown \in {"unpublish", "free"} => queued[leaving] = {}
    /\ teardown = "free" => leaving \notin attached

\* What holds of any instance, by how far it has come.
InstanceStages ==
    \A i \in Instances :
        /\ i > opened => glue[i] = "none" /\ worker[i] = "none"
        /\ glue[i] = "freed" => worker[i] = "exited"
        /\ worker[i] \in {"none", "exited"} => stack[i] = <<>>
        /\ i \notin attached => queued[i] = {} /\ stack[i] = <<>>

LifeStages == TerminateStages /\ InstanceStages

\* A call is in one place: queued and unanswered, running once and unanswered,
\* or answered once.
CallsPlaced ==
    \A c \in Calls :
        /\ answers[c] \in {0, 1}
        /\ owner[c] = 0 => answers[c] = 0
        /\ owner[c] # 0 => \/ answers[c] = 1 \/ c \in queued[owner[c]]
                           \/ Running(owner[c], c)
        /\ \A i \in Instances :
              /\ c \in queued[i] => owner[c] = i /\ answers[c] = 0 /\ ~Running(i, c)
              /\ Running(i, c) => owner[c] = i /\ answers[c] = 0

\* No call is on a worker's stack twice.
StackDistinct == \A i \in Instances : Distinct(stack[i])

\* The instances that hold a reference to the image.
Mapped == {i \in Instances : glue[i] \in {"live", "abandoned"}}

\* References: one per mapped instance, and the pin once anything was closed.
RefsCounted ==
    /\ refs = Cardinality(Mapped) + (IF pinned THEN 1 ELSE 0)
    /\ (\E i \in Instances : glue[i] = "freed") => pinned

IInv == TypeOK /\ LifeStages /\ CallsPlaced /\ StackDistinct /\ RefsCounted

\* Delivering an invocation pushes a call that is not on the stack.
LEMMA Push ==
    ASSUME NEW S, NEW s \in Seq(S), NEW c \in S
    PROVE  /\ Append(s, c) \in Seq(S) /\ Append(s, c) # <<>>
           /\ \A d : On(Append(s, c), d) <=> On(s, d) \/ d = c
           /\ Distinct(s) /\ ~On(s, c) => Distinct(Append(s, c))
<1> DEFINE t == Append(s, c)
<1>1. /\ t \in Seq(S) /\ t # <<>> /\ Len(t) = Len(s) + 1 /\ t[Len(t)] = c
      /\ \A k \in 1..Len(s) : t[k] = s[k]
  BY AppendProperties
<1>2. Len(s) \in Nat
  OBVIOUS
<1>3. \A d : On(t, d) <=> On(s, d) \/ d = c
  BY <1>1, <1>2 DEF On
<1>4. Distinct(s) /\ ~On(s, c) => Distinct(t)
  BY <1>1, <1>2 DEF On, Distinct
<1> QED
  BY <1>1, <1>3, <1>4

\* A dispatch that returns pops its own call and nothing else.
LEMMA Pop ==
    ASSUME NEW S, NEW s \in Seq(S), s # <<>>
    PROVE  /\ SubSeq(s, 1, Len(s) - 1) \in Seq(S) /\ s[Len(s)] \in S
           /\ On(s, s[Len(s)])
           /\ \A d : On(SubSeq(s, 1, Len(s) - 1), d) => On(s, d)
           /\ \A d : On(s, d) =>
                  d = s[Len(s)] \/ On(SubSeq(s, 1, Len(s) - 1), d)
           /\ Distinct(s) => /\ Distinct(SubSeq(s, 1, Len(s) - 1))
                             /\ ~On(SubSeq(s, 1, Len(s) - 1), s[Len(s)])
<1> DEFINE n == Len(s) - 1
           t == SubSeq(s, 1, n)
<1>1. Len(s) \in Nat /\ Len(s) > 0 /\ n \in Nat
  BY EmptySeq
<1>2. t \in Seq(S) /\ Len(t) = n /\ \A k \in 1..n : t[k] = s[k]
  <2> HIDE DEF n
  <2>1. n \in Nat /\ n <= Len(s)
    BY <1>1 DEF n
  <2> QED
    BY <2>1
<1>3. s[Len(s)] \in S /\ On(s, s[Len(s)])
  BY <1>1, ElementOfSeq DEF On
<1>4. \A d : On(t, d) => On(s, d)
  BY <1>1, <1>2 DEF On
<1>5. \A d : On(s, d) => d = s[Len(s)] \/ On(t, d)
  BY <1>1, <1>2 DEF On
<1>6. Distinct(s) => Distinct(t) /\ ~On(t, s[Len(s)])
  BY <1>1, <1>2 DEF On, Distinct
<1> QED
  BY <1>2, <1>3, <1>4, <1>5, <1>6

\* Nothing is on an empty stack.
LEMMA Empty == Distinct(<<>>) /\ \A d : ~On(<<>>, d)
  BY DEF On, Distinct

\* The initial state: nothing launched, no call made.
LEMMA InitIInv == Init => IInv
<1> SUFFICES ASSUME Init PROVE IInv
  OBVIOUS
<1> USE BareAssumption DEF Init, Instances
<1>1. TypeOK
  <2>1. <<>> \in Seq(Calls)
    OBVIOUS
  <2>2. current \in 0..opened /\ opened \in 0..MaxInstances
    OBVIOUS
  <2>3. pinned \in BOOLEAN
    BY Zenon
  <2>4. attached \subseteq {i \in Instances : glue[i] \in {"live", "abandoned"}}
    OBVIOUS
  <2> QED
    BY <2>1, <2>2, <2>3, <2>4 DEF TypeOK, Teardown
<1>2. LifeStages
  BY DEF LifeStages, TerminateStages, InstanceStages
<1>3. CallsPlaced /\ StackDistinct
  BY Empty DEF CallsPlaced, StackDistinct, Running
<1>4. RefsCounted
  <2>1. Mapped = {}
    BY DEF Mapped
  <2> QED
    BY <2>1, FS_EmptySet DEF RefsCounted
<1> QED
  BY <1>1, <1>2, <1>3, <1>4 DEF IInv

\* The instances that hold the image are finitely many; the one terminate() is
\* about to free is among them, so the count is not zero.
LEMMA MappedFinite ==
    /\ IsFiniteSet(Mapped) /\ Cardinality(Mapped) \in Nat
    /\ (\E i \in Instances : i \in Mapped) => Cardinality(Mapped) # 0
<1>1. IsFiniteSet(Instances)
  BY BareAssumption, FS_Interval DEF Instances
<1>2. Mapped \subseteq Instances
  BY DEF Mapped
<1>3. IsFiniteSet(Mapped)
  BY <1>1, <1>2, FS_Subset
<1> QED
  BY <1>3, FS_CardinalityType, FS_EmptySet

\* Every step keeps the tables of the container and its glue in their types.
LEMMA TypeStep == TypeOK /\ LifeStages /\ RefsCounted /\ [Next]_vars => TypeOK'
<1> SUFFICES ASSUME TypeOK, LifeStages, RefsCounted, [Next]_vars
             PROVE  TypeOK'
  OBVIOUS
<1> USE BareAssumption
<1> USE DEF TypeOK, Instances, Teardown, Goto, glueVars, imageVars, callVars
<1>1. ASSUME Launch PROVE TypeOK'
  BY <1>1 DEF Launch, MayLaunch
<1>2. ASSUME LaunchRefused PROVE TypeOK'
  BY <1>2 DEF LaunchRefused, MayLaunch, RetainImage
<1>3. ASSUME LaunchNotAModule PROVE TypeOK'
  BY <1>3 DEF LaunchNotAModule, MayLaunch
<1>4. ASSUME TerminateBegins PROVE TypeOK'
  BY <1>4 DEF TerminateBegins
<1>5. ASSUME AboutToUnload PROVE TypeOK'
  BY <1>5 DEF AboutToUnload
<1>6. ASSUME Retire PROVE TypeOK'
  BY <1>6 DEF Retire
<1>7. ASSUME WaitStopped PROVE TypeOK'
  BY <1>7 DEF WaitStopped
<1>8. ASSUME WaitTimesOut PROVE TypeOK'
  BY <1>8 DEF WaitTimesOut
<1>9. ASSUME AnswerQueued PROVE TypeOK'
  <2>1. queued' \in [Instances -> SUBSET Calls]
    BY <1>9 DEF AnswerQueued, LifeStages, TerminateStages
  <2>2. answers' \in [Calls -> Nat]
    BY <1>9 DEF AnswerQueued, Completed
  <2>3. teardown' \in Teardown
    BY <1>9 DEF AnswerQueued
  <2> QED
    BY <1>9, <2>1, <2>2, <2>3 DEF AnswerQueued
<1>10. ASSUME Abandon PROVE TypeOK'
  <2>1. leaving \in Instances /\ leaving' = 0
    BY <1>10 DEF Abandon, LifeStages, TerminateStages
  <2>2. attached' \subseteq {j \in Instances : glue'[j] \in {"live", "abandoned"}}
    BY <1>10, <2>1 DEF Abandon
  <2> QED
    BY <1>10, <2>1, <2>2 DEF Abandon
<1>11. ASSUME Unpublish PROVE TypeOK'
  <2>1. leaving \in Instances
    BY <1>11 DEF Unpublish, LifeStages, TerminateStages
  <2>2. posted' \in [Instances -> Seq(Calls)]
    BY <1>11, <2>1 DEF Unpublish
  <2>3. attached' \subseteq {j \in Instances : glue'[j] \in {"live", "abandoned"}}
    BY <1>11 DEF Unpublish
  <2> QED
    BY <1>11, <2>1, <2>2, <2>3 DEF Unpublish
<1>12. ASSUME FreeInstance PROVE TypeOK'
  <2>1. leaving \in Instances /\ leaving \notin attached
    BY <1>12 DEF FreeInstance, LifeStages, TerminateStages
  <2>2. attached' \subseteq {j \in Instances : glue'[j] \in {"live", "abandoned"}}
    BY <1>12, <2>1 DEF FreeInstance
  <2>3. leaving \in Mapped
    BY <1>12 DEF FreeInstance, LifeStages, TerminateStages, Mapped
  <2>4. refs \in Nat \ {0}
    BY <2>3, <2>1, MappedFinite DEF RefsCounted
  <2>5. refs' \in Nat
    BY <1>12, <2>4 DEF FreeInstance, RetainImage
  <2>6. pinned' \in BOOLEAN
    BY <1>12, Zenon DEF FreeInstance, RetainImage
  <2> QED
    BY <1>12, <2>1, <2>2, <2>3, <2>4, <2>5, <2>6 DEF FreeInstance, RetainImage
<1>13. ASSUME NEW i \in Instances, WorkerRuns(i) PROVE TypeOK'
  <2>1. posted[i] \in Seq(Calls) /\ posted[i] # <<>>
    BY <1>13 DEF WorkerRuns, MayDeliver
  <2>2. Head(posted[i]) \in Calls /\ Tail(posted[i]) \in Seq(Calls)
    BY <2>1
  <2>3. stack' \in [Instances -> Seq(Calls)]
    BY <1>13, <2>2, Push DEF WorkerRuns
  <2>4. posted' \in [Instances -> Seq(Calls)]
    BY <1>13, <2>2 DEF WorkerRuns
  <2> QED
    BY <1>13, <2>1, <2>2, <2>3, <2>4 DEF WorkerRuns
<1>14. ASSUME NEW i \in Instances, WorkerSkips(i) PROVE TypeOK'
  BY <1>14, SMTT(30) DEF WorkerSkips, MayDeliver
<1>15. ASSUME NEW i \in Instances, WorkerExits(i) PROVE TypeOK'
  BY <1>15 DEF WorkerExits
<1>16. ASSUME NEW i \in Instances, WorkerCompletes(i) PROVE TypeOK'
  <2>1. stack' \in [Instances -> Seq(Calls)]
    BY <1>16, Pop DEF WorkerCompletes
  <2>2. answers' \in [Calls -> Nat]
    BY <1>16, SMTT(30) DEF WorkerCompletes, Completed
  <2> QED
    BY <1>16, <2>1, <2>2 DEF WorkerCompletes
<1>17. ASSUME NEW i \in Instances, NEW c \in Calls, CallDeferred(c, i) PROVE TypeOK'
  BY <1>17 DEF CallDeferred
<1>18. ASSUME NEW i \in Instances, NEW c \in Calls, CallRetired(c, i) PROVE TypeOK'
  BY <1>18, SMTT(30) DEF CallRetired
<1>19. CASE UNCHANGED vars
  BY <1>19 DEF vars
<1> QED
  BY <1>1, <1>2, <1>3, <1>4, <1>5, <1>6, <1>7, <1>8, <1>9, <1>10, <1>11,
     <1>12, <1>13, <1>14, <1>15, <1>16, <1>17, <1>18, <1>19
  DEF Next, TeardownStep, WorkerStep, Finished

\* launch() and terminate() establish their stages in order, and neither the
\* worker nor a call undoes one.
LEMMA StageStep == TypeOK /\ LifeStages /\ [Next]_vars => LifeStages'
<1> SUFFICES ASSUME TypeOK, LifeStages, [Next]_vars
             PROVE  LifeStages'
  OBVIOUS
<1> USE BareAssumption
<1> USE DEF TypeOK, LifeStages, TerminateStages, InstanceStages, Instances,
            Teardown, Goto, glueVars, imageVars, callVars
<1>1. ASSUME Launch PROVE LifeStages'
  <2> DEFINE n == opened + 1
  <2>1. opened \in Nat /\ n \in Instances /\ teardown = "idle"
    BY <1>1 DEF Launch, MayLaunch
  <2>2. glue[n] = "none" /\ stack[n] = <<>>
    BY <2>1
  <2> HIDE DEF n
  <2>3. TerminateStages'
    BY <1>1, <2>1 DEF Launch, n
  <2>4. \A j \in Instances : (j > n => j > opened /\ j # n)
    BY <2>1 DEF n
  <2>5. /\ opened' = n /\ glue' = [glue EXCEPT ![n] = "live"]
        /\ worker' = [worker EXCEPT ![n] = "running"]
        /\ attached' = attached \cup {n} /\ queued' = queued /\ stack' = stack
    BY <1>1 DEF Launch, n
  <2>6. InstanceStages'
    BY <2>1, <2>2, <2>4, <2>5
  <2> QED
    BY <2>3, <2>6
<1>2. ASSUME LaunchRefused PROVE LifeStages'
  BY <1>2 DEF LaunchRefused, MayLaunch, RetainImage
<1>3. ASSUME LaunchNotAModule PROVE LifeStages'
  BY <1>3 DEF LaunchNotAModule, MayLaunch
<1>4. ASSUME TerminateBegins PROVE LifeStages'
  BY <1>4 DEF TerminateBegins
<1>5. ASSUME AboutToUnload PROVE LifeStages'
  BY <1>5 DEF AboutToUnload
<1>6. ASSUME Retire PROVE LifeStages'
  BY <1>6 DEF Retire
<1>7. ASSUME WaitStopped PROVE LifeStages'
  BY <1>7 DEF WaitStopped
<1>8. ASSUME WaitTimesOut PROVE LifeStages'
  BY <1>8 DEF WaitTimesOut
<1>9. ASSUME AnswerQueued PROVE LifeStages'
  BY <1>9 DEF AnswerQueued, Completed
<1>10. ASSUME Abandon PROVE LifeStages'
  BY <1>10 DEF Abandon
<1>11. ASSUME Unpublish PROVE LifeStages'
  BY <1>11 DEF Unpublish
<1>12. ASSUME FreeInstance PROVE LifeStages'
  BY <1>12 DEF FreeInstance, RetainImage
<1>13. ASSUME NEW i \in Instances, WorkerRuns(i) PROVE LifeStages'
  <2>1. worker[i] \notin {"none", "exited"} /\ i \in attached
    BY <1>13 DEF WorkerRuns, MayDeliver
  <2>2. teardown \in {"unpublish", "free"} => leaving # i
    BY <2>1
  <2>3. \A j \in Instances : j # i => stack'[j] = stack[j] /\ queued'[j] = queued[j]
    BY <1>13 DEF WorkerRuns
  <2>4. TerminateStages'
    BY <1>13, <2>1, <2>2 DEF WorkerRuns
  <2>5. InstanceStages'
    BY <1>13, <2>1, <2>3, ZenonT(60) DEF WorkerRuns
  <2> QED
    BY <2>4, <2>5
<1>14. ASSUME NEW i \in Instances, WorkerSkips(i) PROVE LifeStages'
  BY <1>14 DEF WorkerSkips, MayDeliver
<1>15. ASSUME NEW i \in Instances, WorkerExits(i) PROVE LifeStages'
  <2>1. worker'[i] = "exited" /\ \A j \in Instances : j # i => worker'[j] = worker[j]
    BY <1>15 DEF WorkerExits
  <2>2. teardown # "idle" => leaving \in Instances
    OBVIOUS
  <2>3. teardown \in {"answer", "unpublish", "free"} => worker'[leaving] = "exited"
    BY <2>1, <2>2
  <2>4. TerminateStages'
    BY <1>15, <2>3 DEF WorkerExits
  <2>5. worker[i] = "quitting" /\ stack[i] = <<>> /\ (i > opened => worker[i] = "none")
    BY <1>15 DEF WorkerExits
  <2>6. InstanceStages'
    BY <1>15, <2>1, <2>5 DEF WorkerExits
  <2> QED
    BY <2>4, <2>6
<1>16. ASSUME NEW i \in Instances, WorkerCompletes(i) PROVE LifeStages'
  BY <1>16 DEF WorkerCompletes, Completed
<1>17. ASSUME NEW i \in Instances, NEW c \in Calls, CallDeferred(c, i) PROVE LifeStages'
  <2>1. TerminateStages'
    BY <1>17 DEF CallDeferred
  <2>2. InstanceStages'
    BY <1>17 DEF CallDeferred
  <2> QED
    BY <2>1, <2>2
<1>18. ASSUME NEW i \in Instances, NEW c \in Calls, CallRetired(c, i) PROVE LifeStages'
  BY <1>18 DEF CallRetired
<1>19. CASE UNCHANGED vars
  BY <1>19 DEF vars
<1> QED
  BY <1>1, <1>2, <1>3, <1>4, <1>5, <1>6, <1>7, <1>8, <1>9, <1>10, <1>11,
     <1>12, <1>13, <1>14, <1>15, <1>16, <1>17, <1>18, <1>19
  DEF Next, TeardownStep, WorkerStep, Finished

\* A stack grows by a call that was still queued, so by one that is not on it.
LEMMA DistinctStep ==
    TypeOK /\ CallsPlaced /\ StackDistinct /\ [Next]_vars => StackDistinct'
<1> SUFFICES ASSUME TypeOK, CallsPlaced, StackDistinct, [Next]_vars
             PROVE  StackDistinct'
  OBVIOUS
<1> USE BareAssumption
<1> USE DEF TypeOK, StackDistinct, Instances, Goto, glueVars, imageVars,
            callVars
<1>1. ASSUME Launch PROVE StackDistinct'
  BY <1>1 DEF Launch, MayLaunch
<1>2. ASSUME LaunchRefused PROVE StackDistinct'
  BY <1>2 DEF LaunchRefused, MayLaunch, RetainImage
<1>3. ASSUME LaunchNotAModule PROVE StackDistinct'
  BY <1>3 DEF LaunchNotAModule, MayLaunch
<1>4. ASSUME TerminateBegins PROVE StackDistinct'
  BY <1>4 DEF TerminateBegins
<1>5. ASSUME AboutToUnload PROVE StackDistinct'
  BY <1>5 DEF AboutToUnload
<1>6. ASSUME Retire PROVE StackDistinct'
  BY <1>6 DEF Retire
<1>7. ASSUME WaitStopped PROVE StackDistinct'
  BY <1>7 DEF WaitStopped
<1>8. ASSUME WaitTimesOut PROVE StackDistinct'
  BY <1>8 DEF WaitTimesOut
<1>9. ASSUME AnswerQueued PROVE StackDistinct'
  BY <1>9 DEF AnswerQueued, Completed
<1>10. ASSUME Abandon PROVE StackDistinct'
  BY <1>10 DEF Abandon
<1>11. ASSUME Unpublish PROVE StackDistinct'
  BY <1>11 DEF Unpublish
<1>12. ASSUME FreeInstance PROVE StackDistinct'
  BY <1>12 DEF FreeInstance, RetainImage
<1>13. ASSUME NEW i \in Instances, WorkerRuns(i) PROVE StackDistinct'
  <2>1. posted[i] \in Seq(Calls) /\ posted[i] # <<>> /\ Head(posted[i]) \in Calls
    BY <1>13 DEF WorkerRuns, MayDeliver
  <2>2. Distinct(stack[i]) /\ ~On(stack[i], Head(posted[i]))
    BY <1>13, <2>1 DEF WorkerRuns, CallsPlaced, Running
  <2>3. Distinct(Append(stack[i], Head(posted[i])))
    BY <2>1, <2>2, Push
  <2> QED
    BY <1>13, <2>3 DEF WorkerRuns
<1>14. ASSUME NEW i \in Instances, WorkerSkips(i) PROVE StackDistinct'
  BY <1>14 DEF WorkerSkips, MayDeliver
<1>15. ASSUME NEW i \in Instances, WorkerExits(i) PROVE StackDistinct'
  BY <1>15 DEF WorkerExits
<1>16. ASSUME NEW i \in Instances, WorkerCompletes(i) PROVE StackDistinct'
  <2>1. Distinct(SubSeq(stack[i], 1, Len(stack[i]) - 1))
    BY <1>16, Pop DEF WorkerCompletes
  <2> QED
    BY <1>16, <2>1 DEF WorkerCompletes
<1>17. ASSUME NEW i \in Instances, NEW c \in Calls, CallDeferred(c, i) PROVE StackDistinct'
  BY <1>17 DEF CallDeferred
<1>18. ASSUME NEW i \in Instances, NEW c \in Calls, CallRetired(c, i) PROVE StackDistinct'
  BY <1>18 DEF CallRetired
<1>19. CASE UNCHANGED vars
  BY <1>19 DEF vars
<1> QED
  BY <1>1, <1>2, <1>3, <1>4, <1>5, <1>6, <1>7, <1>8, <1>9, <1>10, <1>11,
     <1>12, <1>13, <1>14, <1>15, <1>16, <1>17, <1>18, <1>19
  DEF Next, TeardownStep, WorkerStep, Finished

\* Registering, claiming, completing and answering move a call from one place
\* to the next.
LEMMA PlaceStep ==
    TypeOK /\ LifeStages /\ StackDistinct /\ CallsPlaced /\ [Next]_vars => CallsPlaced'
<1> SUFFICES ASSUME TypeOK, LifeStages, StackDistinct, CallsPlaced,
                    [Next]_vars
             PROVE  CallsPlaced'
  OBVIOUS
<1> USE BareAssumption
<1> USE DEF TypeOK, CallsPlaced, Running, Instances, Goto, glueVars,
            imageVars, callVars
<1>1. ASSUME Launch PROVE CallsPlaced'
  BY <1>1 DEF Launch, MayLaunch
<1>2. ASSUME LaunchRefused PROVE CallsPlaced'
  BY <1>2 DEF LaunchRefused, MayLaunch, RetainImage
<1>3. ASSUME LaunchNotAModule PROVE CallsPlaced'
  BY <1>3 DEF LaunchNotAModule, MayLaunch
<1>4. ASSUME TerminateBegins PROVE CallsPlaced'
  BY <1>4 DEF TerminateBegins
<1>5. ASSUME AboutToUnload PROVE CallsPlaced'
  BY <1>5 DEF AboutToUnload
<1>6. ASSUME Retire PROVE CallsPlaced'
  BY <1>6 DEF Retire
<1>7. ASSUME WaitStopped PROVE CallsPlaced'
  BY <1>7 DEF WaitStopped
<1>8. ASSUME WaitTimesOut PROVE CallsPlaced'
  BY <1>8 DEF WaitTimesOut
<1>9. ASSUME AnswerQueued PROVE CallsPlaced'
  <2>1. leaving \in Instances /\ leaving \in attached
    BY <1>9 DEF AnswerQueued, LifeStages, TerminateStages
  <2>2. /\ queued' = [queued EXCEPT ![leaving] = {}]
        /\ answers' = [d \in Calls |-> IF d \in queued[leaving] THEN answers[d] + 1
                                       ELSE answers[d]]
        /\ owner' = owner /\ stack' = stack
    BY <1>9, <2>1 DEF AnswerQueued, Completed
  <2> QED
    BY <2>1, <2>2
<1>10. ASSUME Abandon PROVE CallsPlaced'
  BY <1>10 DEF Abandon
<1>11. ASSUME Unpublish PROVE CallsPlaced'
  BY <1>11 DEF Unpublish
<1>12. ASSUME FreeInstance PROVE CallsPlaced'
  BY <1>12 DEF FreeInstance, RetainImage
<1>13. ASSUME NEW i \in Instances, WorkerRuns(i) PROVE CallsPlaced'
  <2> DEFINE h == Head(posted[i])
  <2>1. posted[i] \in Seq(Calls) /\ posted[i] # <<>> /\ h \in Calls
    BY <1>13 DEF WorkerRuns, MayDeliver
  <2>2. h \in queued[i]
    BY <1>13 DEF WorkerRuns
  <2>3. \A d : On(Append(stack[i], h), d) <=> On(stack[i], d) \/ d = h
    BY <2>1, Push
  <2> HIDE DEF h
  <2>4. /\ stack' = [stack EXCEPT ![i] = Append(@, h)]
        /\ queued' = [queued EXCEPT ![i] = @ \ {h}]
        /\ owner' = owner /\ answers' = answers
    BY <1>13 DEF WorkerRuns, h
  <2> QED
    BY <2>1, <2>2, <2>3, <2>4, SMTT(30)
<1>14. ASSUME NEW i \in Instances, WorkerSkips(i) PROVE CallsPlaced'
  <2>1. owner' = owner /\ answers' = answers /\ queued' = queued /\ stack' = stack
    BY <1>14 DEF WorkerSkips
  <2> QED
    BY <2>1
<1>15. ASSUME NEW i \in Instances, WorkerExits(i) PROVE CallsPlaced'
  <2>1. owner' = owner /\ answers' = answers /\ queued' = queued /\ stack' = stack
    BY <1>15 DEF WorkerExits
  <2> QED
    BY <2>1
<1>16. ASSUME NEW i \in Instances, WorkerCompletes(i) PROVE CallsPlaced'
  <2> DEFINE last == stack[i][Len(stack[i])]
             rest == SubSeq(stack[i], 1, Len(stack[i]) - 1)
  <2>1. stack[i] \in Seq(Calls) /\ stack[i] # <<>> /\ Distinct(stack[i])
    BY <1>16 DEF WorkerCompletes, StackDistinct
  <2>2. last \in Calls /\ On(stack[i], last) /\ ~On(rest, last)
    BY <2>1, Pop
  <2>3. \A d : On(rest, d) => On(stack[i], d)
    BY <2>1, Pop
  <2>4. \A d : On(stack[i], d) => d = last \/ On(rest, d)
    BY <2>1, Pop
  <2>5. i \in attached
    BY <2>1 DEF LifeStages, TerminateStages, InstanceStages
  <2> HIDE DEF last, rest
  <2>6. /\ stack' = [stack EXCEPT ![i] = rest]
        /\ answers' = [d \in Calls |-> IF d = last THEN answers[d] + 1 ELSE answers[d]]
        /\ owner' = owner /\ queued' = queued
    BY <1>16, <2>5 DEF WorkerCompletes, Completed, last, rest
  <2>7. \A d \in Calls : /\ answers[d] \in {0, 1}
                         /\ answers'[d] = IF d = last THEN answers[d] + 1 ELSE answers[d]
    BY <2>6
  <2>8. \A j \in Instances : \A d \in Calls :
            On(stack'[j], d) <=> On(stack[j], d) /\ ~(j = i /\ d = last)
    BY <2>2, <2>3, <2>4, <2>6
  <2>9. owner[last] = i /\ answers[last] = 0 /\ i # 0
    BY <2>2
  <2> QED
    BY <2>2, <2>6, <2>7, <2>8, <2>9, SMTT(30)
<1>17. ASSUME NEW i \in Instances, NEW c \in Calls, CallDeferred(c, i) PROVE CallsPlaced'
  BY <1>17 DEF CallDeferred
<1>18. ASSUME NEW i \in Instances, NEW c \in Calls, CallRetired(c, i) PROVE CallsPlaced'
  BY <1>18 DEF CallRetired
<1>19. CASE UNCHANGED vars
  BY <1>19 DEF vars
<1> QED
  BY <1>1, <1>2, <1>3, <1>4, <1>5, <1>6, <1>7, <1>8, <1>9, <1>10, <1>11,
     <1>12, <1>13, <1>14, <1>15, <1>16, <1>17, <1>18, <1>19
  DEF Next, TeardownStep, WorkerStep, Finished

\* A launch adds a reference, a close gives one back or keeps it as the pin.
LEMMA RefsStep == TypeOK /\ LifeStages /\ RefsCounted /\ [Next]_vars => RefsCounted'
<1> SUFFICES ASSUME TypeOK, LifeStages, RefsCounted, [Next]_vars
             PROVE  RefsCounted'
  OBVIOUS
<1> USE BareAssumption
<1> USE DEF TypeOK, RefsCounted, Instances, Goto, glueVars, imageVars,
            callVars
<1>1. ASSUME Launch PROVE RefsCounted'
  <2>1. opened + 1 \in Instances /\ opened + 1 \notin Mapped
    <3>1. opened + 1 \in Instances /\ opened + 1 > opened
      BY <1>1 DEF Launch, MayLaunch
    <3>2. glue[opened + 1] = "none"
      BY <3>1 DEF LifeStages, InstanceStages
    <3> QED
      BY <3>1, <3>2 DEF Mapped
  <2>2. Mapped' = Mapped \cup {opened + 1}
    BY <1>1, <2>1 DEF Launch, Mapped
  <2>3. Cardinality(Mapped') = Cardinality(Mapped) + 1
    BY <2>1, <2>2, MappedFinite, FS_AddElement
  <2>4. Cardinality(Mapped) \in Nat
    BY MappedFinite
  <2>5. pinned' = pinned /\ refs' = refs + 1
    BY <1>1 DEF Launch
  <2>6. \A j \in Instances : glue'[j] = "freed" => glue[j] = "freed"
    BY <1>1 DEF Launch
  <2> QED
    BY <2>3, <2>4, <2>5, <2>6
<1>2. ASSUME LaunchRefused PROVE RefsCounted'
  <2>1. Mapped' = Mapped /\ glue' = glue
    BY <1>2 DEF LaunchRefused, Mapped
  <2>2. Cardinality(Mapped) \in Nat
    BY MappedFinite
  <2> QED
    BY <1>2, <2>1, <2>2 DEF LaunchRefused, RetainImage
<1>3. ASSUME LaunchNotAModule PROVE RefsCounted'
  BY <1>3 DEF LaunchNotAModule, MayLaunch, Mapped
<1>4. ASSUME TerminateBegins PROVE RefsCounted'
  BY <1>4 DEF TerminateBegins, Mapped
<1>5. ASSUME AboutToUnload PROVE RefsCounted'
  BY <1>5 DEF AboutToUnload, Mapped
<1>6. ASSUME Retire PROVE RefsCounted'
  BY <1>6 DEF Retire, Mapped
<1>7. ASSUME WaitStopped PROVE RefsCounted'
  BY <1>7 DEF WaitStopped, Mapped
<1>8. ASSUME WaitTimesOut PROVE RefsCounted'
  BY <1>8 DEF WaitTimesOut, Mapped
<1>9. ASSUME AnswerQueued PROVE RefsCounted'
  BY <1>9 DEF AnswerQueued, Completed, Mapped
<1>10. ASSUME Abandon PROVE RefsCounted'
  <2>1. leaving \in Instances /\ glue[leaving] = "live"
    BY <1>10 DEF Abandon, LifeStages, TerminateStages
  <2>2. Mapped' = Mapped
    BY <1>10, <2>1 DEF Abandon, Mapped
  <2> QED
    BY <1>10, <2>1, <2>2 DEF Abandon
<1>11. ASSUME Unpublish PROVE RefsCounted'
  BY <1>11 DEF Unpublish, Mapped
<1>12. ASSUME FreeInstance PROVE RefsCounted'
  <2>1. leaving \in Mapped
    BY <1>12 DEF FreeInstance, Mapped, LifeStages, TerminateStages
  <2>2. Mapped' = Mapped \ {leaving}
    BY <1>12, <2>1 DEF FreeInstance, Mapped
  <2>3. Cardinality(Mapped') = Cardinality(Mapped) - 1
    BY <2>1, <2>2, MappedFinite, FS_RemoveElement
  <2>4. Cardinality(Mapped) \in Nat
    BY MappedFinite
  <2>5. pinned' = TRUE /\ refs' = IF pinned THEN refs - 1 ELSE refs
    BY <1>12 DEF FreeInstance, RetainImage
  <2> QED
    BY <2>3, <2>4, <2>5
<1>13. ASSUME NEW i \in Instances, WorkerRuns(i) PROVE RefsCounted'
  BY <1>13 DEF WorkerRuns, MayDeliver, Mapped
<1>14. ASSUME NEW i \in Instances, WorkerSkips(i) PROVE RefsCounted'
  BY <1>14 DEF WorkerSkips, MayDeliver, Mapped
<1>15. ASSUME NEW i \in Instances, WorkerExits(i) PROVE RefsCounted'
  BY <1>15 DEF WorkerExits, Mapped
<1>16. ASSUME NEW i \in Instances, WorkerCompletes(i) PROVE RefsCounted'
  BY <1>16 DEF WorkerCompletes, Completed, Mapped
<1>17. ASSUME NEW i \in Instances, NEW c \in Calls, CallDeferred(c, i) PROVE RefsCounted'
  BY <1>17 DEF CallDeferred, Mapped
<1>18. ASSUME NEW i \in Instances, NEW c \in Calls, CallRetired(c, i) PROVE RefsCounted'
  BY <1>18 DEF CallRetired, Mapped
<1>19. CASE UNCHANGED vars
  BY <1>19 DEF vars, Mapped
<1> QED
  BY <1>1, <1>2, <1>3, <1>4, <1>5, <1>6, <1>7, <1>8, <1>9, <1>10, <1>11,
     <1>12, <1>13, <1>14, <1>15, <1>16, <1>17, <1>18, <1>19
  DEF Next, TeardownStep, WorkerStep, Finished

\* The container and its glues keep the invariant in every behaviour.
THEOREM InductiveInvariant == Spec => []IInv
<1>1. IInv /\ [Next]_vars => IInv'
  BY TypeStep, StageStep, DistinctStep, PlaceStep, RefsStep DEF IInv
<1> QED
  BY InitIInv, <1>1, PTL DEF Spec

\* Every table of the container, the glues and the image keeps its type.
THEOREM TypeCorrect == Spec => []TypeOK
<1>1. IInv => TypeOK
  BY DEF IInv
<1> QED
  BY InductiveInvariant, <1>1, PTL

\* Whichever of the worker and the stop reaches a call first, its sentinel is
\* honoured with one completion at most (claimQueuedCall, takeQueuedCalls).
THEOREM OneCompletion == Spec => []AnsweredOnce
<1>1. IInv => AnsweredOnce
  BY DEF IInv, CallsPlaced, AnsweredOnce
<1> QED
  BY InductiveInvariant, <1>1, PTL

\* A destroyed glue has no worker inside it and owes no completion: terminate()
\* frees it after the worker exited and the queue was answered, and keeps the
\* glue of a worker that did not stop (stopDispatch before glue.reset()).
THEOREM FreedIsQuiet == Spec => []FreedWhenQuiet
<1>1. IInv => FreedWhenQuiet
  <2> SUFFICES ASSUME IInv, NEW i \in Instances, glue[i] = "freed"
               PROVE  /\ worker[i] \in {"none", "exited"} /\ stack[i] = <<>>
                      /\ \A c \in Calls : owner[c] = i => answers[c] = 1
    BY DEF FreedWhenQuiet
  <2>1. worker[i] = "exited" /\ stack[i] = <<>>
    BY DEF IInv, LifeStages, InstanceStages
  <2>2. i \notin attached /\ i # 0
    <3>1. TypeOK
      BY DEF IInv
    <3>2. i \notin attached
      BY <3>1 DEF TypeOK
    <3> QED
      BY <3>2, BareAssumption DEF Instances
  <2>3. queued[i] = {}
    BY <2>2 DEF IInv, LifeStages, InstanceStages
  <2>4. \A c \in Calls : owner[c] = i => answers[c] = 1
    BY <2>1, <2>2, <2>3, Empty DEF IInv, CallsPlaced, Running
  <2> QED
    BY <2>1, <2>4
<1> QED
  BY InductiveInvariant, <1>1, PTL

\* The image is referenced once per instance that may still run in it and once
\* by the pin, so it stays mapped and no load/unload cycle leaks a reference
\* (openBareModule, closeBareModule, retainImage).
THEOREM ImageStaysMapped == Spec => []ImageAccounted
<1>1. IInv => ImageAccounted
  <2> SUFFICES ASSUME IInv PROVE ImageAccounted
    OBVIOUS
  <2>1. refs = Cardinality(Mapped) + (IF pinned THEN 1 ELSE 0)
    BY DEF IInv, RefsCounted
  <2>2. (\E i \in Instances : glue[i] = "freed") => pinned
    BY DEF IInv, RefsCounted
  <2>3. Cardinality(Mapped) \in Nat
    BY MappedFinite
  <2>4. (\E i \in Instances : glue[i] = "freed") => refs > 0
    BY <2>1, <2>2, <2>3
  <2> QED
    BY <2>1, <2>4 DEF ImageAccounted, Mapped
<1> QED
  BY InductiveInvariant, <1>1, PTL
=============================================================================
