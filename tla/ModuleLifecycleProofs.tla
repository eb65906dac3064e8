------------------------ MODULE ModuleLifecycleProofs ------------------------
(***************************************************************************)
(* Safety of ModuleLifecycle for every set of modules, threads and         *)
(* operations, every dependency order and every bound.                     *)
(*                                                                         *)
(* The properties quantify over witnesses ("some thread is at ..."), which *)
(* is not inductive: a step of that thread may take the witness away. The  *)
(* inductive invariant names the witness, the holder of the lock the step  *)
(* runs under, and adds who holds which lock and what an attempt in flight *)
(* knows about its module. One lemma per conjunct, one step per action.    *)
(***************************************************************************)
EXTENDS ModuleLifecycle, SequenceTheorems, TLAPS

IInv ==
    /\ TypeOK
    /\ NamesBound
    /\ LocksHeld
    /\ AttemptTracked
    /\ AttemptsOwned
    /\ MarksOwned
    /\ DeathsOwned

\* The initial state: nothing held, nothing loaded, nobody inside a call.
LEMMA InitIInv == Init => IInv
<1> SUFFICES ASSUME Init PROVE IInv
  OBVIOUS
<1> USE LifecycleAssumption
<1> USE DEF Init
<1>1. TypeOK
  BY DEF TypeOK, Steps, States, AllOps
<1>2. NamesBound
  BY DEF NamesBound, SpanSteps, LoadSteps, UnloadSteps
<1>3. LocksHeld
  BY DEF LocksHeld, InsideFleet, SpanSteps, LoadSteps, UnloadSteps, FleetSteps
<1>4. AttemptTracked
  BY DEF AttemptTracked, AttemptSteps
<1>5. AttemptsOwned /\ MarksOwned /\ DeathsOwned
  BY DEF AttemptsOwned, MarksOwned, DeathsOwned
<1> QED
  BY <1>1, <1>2, <1>3, <1>4, <1>5 DEF IInv

\* Every step of module_manager.cpp keeps every table in its type.
LEMMA TypeStep == TypeOK /\ NamesBound /\ [Next]_vars => TypeOK'
<1> SUFFICES ASSUME TypeOK, NamesBound, [Next]_vars
             PROVE  TypeOK'
  OBVIOUS
<1> USE LifecycleAssumption
<1> USE DEF TypeOK, NamesBound, Steps, States, AllOps, LoadOps, SpanSteps,
            LoadSteps, UnloadSteps, FleetSteps, At, Goto, Record, Fail,
            Tolerated, callVars, threadVars, lockVars, tableVars, asioVars,
            boundVars, envVars
<1>1. ASSUME NEW t \in Threads, NEW o \in Ops, NEW m \in Modules, Call(t, o, m) PROVE TypeOK'
  <2>1. pc' \in [Threads -> Steps]
    BY <1>1 DEF Call
  <2>2. op' \in [Threads -> AllOps]
    BY <1>1 DEF Call
  <2>3. ok' \in [Threads -> BOOLEAN]
    BY <1>1 DEF Call
  <2>4. target' \in [Threads -> Modules \cup {None}]
    BY <1>1 DEF Call
  <2>5. calls' \in Nat
    BY <1>1 DEF Call
  <2> QED
    BY <1>1, <2>1, <2>2, <2>3, <2>4, <2>5 DEF Call
<1>2. ASSUME NEW m \in Modules, RestartFires(m) PROVE TypeOK'
  BY <1>2 DEF RestartFires
<1>3. ASSUME NEW m \in Modules, RestartUnknown(m) PROVE TypeOK'
  BY <1>3 DEF RestartUnknown
<1>4. ASSUME NEW m \in Modules, RestartRefused(m) PROVE TypeOK'
  BY <1>4 DEF RestartRefused
<1>5. ASSUME NEW t \in Threads, FleetShared(t) PROVE TypeOK'
  BY <1>5 DEF FleetShared
<1>6. ASSUME NEW t \in Threads, ResolveFails(t) PROVE TypeOK'
  BY <1>6 DEF ResolveFails
<1>7. ASSUME NEW t \in Threads, FleetExclusive(t) PROVE TypeOK'
  BY <1>7 DEF FleetExclusive, LockFleet
<1>8. ASSUME NEW t \in Threads, CascadeBegins(t) PROVE TypeOK'
  BY <1>8 DEF CascadeBegins, LockFleet
<1>9. ASSUME NEW t \in Threads, CascadeRefused(t) PROVE TypeOK'
  BY <1>9 DEF CascadeRefused, LockFleet
<1>10. ASSUME NEW t \in Threads, LoopEnds(t) PROVE TypeOK'
  BY <1>10 DEF LoopEnds
<1>11. ASSUME NEW t \in Threads, SkipModule(t) PROVE TypeOK'
  <2>1. todo[t] \in Seq(Modules) /\ todo[t] # <<>>
    BY <1>11 DEF SkipModule
  <2>2. Head(todo[t]) \in Modules /\ Tail(todo[t]) \in Seq(Modules)
    BY <2>1, HeadTailProperties
  <2> QED
    BY <1>11, <2>2 DEF SkipModule
<1>12. ASSUME NEW t \in Threads, UnknownModule(t) PROVE TypeOK'
  <2>1. todo[t] \in Seq(Modules) /\ todo[t] # <<>>
    BY <1>12 DEF UnknownModule
  <2>2. Head(todo[t]) \in Modules /\ Tail(todo[t]) \in Seq(Modules)
    BY <2>1, HeadTailProperties
  <2> QED
    BY <1>12, <2>2 DEF UnknownModule
<1>13. ASSUME NEW t \in Threads, NextModule(t) PROVE TypeOK'
  <2>1. todo[t] \in Seq(Modules) /\ todo[t] # <<>>
    BY <1>13 DEF NextModule
  <2>2. Head(todo[t]) \in Modules /\ Tail(todo[t]) \in Seq(Modules)
    BY <2>1, HeadTailProperties
  <2> QED
    BY <1>13, <2>2 DEF NextModule
<1>14. ASSUME NEW t \in Threads, LockModule(t) PROVE TypeOK'
  BY <1>14 DEF LockModule
<1>15. ASSUME NEW t \in Threads, UnlockModule(t) PROVE TypeOK'
  BY <1>15 DEF UnlockModule
<1>16. ASSUME NEW t \in Threads, ReleaseFleet(t) PROVE TypeOK'
  BY <1>16 DEF ReleaseFleet
<1>17. ASSUME NEW t \in Threads, DispatchBatch(t) PROVE TypeOK'
  BY <1>17 DEF DispatchBatch
<1>18. ASSUME NEW t \in Threads, AlreadyLoaded(t) PROVE TypeOK'
  BY <1>18 DEF AlreadyLoaded
<1>19. ASSUME NEW t \in Threads, GateRefuses(t) PROVE TypeOK'
  BY <1>19 DEF GateRefuses
<1>20. ASSUME NEW t \in Threads, LoadStarts(t) PROVE TypeOK'
  BY <1>20 DEF LoadStarts
<1>21. ASSUME NEW t \in Threads, BeginLoadAttempt(t) PROVE TypeOK'
  BY <1>21 DEF BeginLoadAttempt
<1>22. ASSUME NEW t \in Threads, LockSpawn(t) PROVE TypeOK'
  BY <1>22 DEF LockSpawn
<1>23. ASSUME NEW t \in Threads, Launch(t) PROVE TypeOK'
  BY <1>23 DEF Launch
<1>24. ASSUME NEW t \in Threads, LaunchFails(t) PROVE TypeOK'
  BY <1>24 DEF LaunchFails
<1>25. ASSUME NEW t \in Threads, SendToken(t) PROVE TypeOK'
  BY <1>25 DEF SendToken
<1>26. ASSUME NEW t \in Threads, TokenFails(t) PROVE TypeOK'
  BY <1>26 DEF TokenFails
<1>27. ASSUME NEW t \in Threads, TokenFailedMark(t) PROVE TypeOK'
  BY <1>27 DEF TokenFailedMark
<1>28. ASSUME NEW t \in Threads, TokenFailedTerminate(t) PROVE TypeOK'
  BY <1>28 DEF TokenFailedTerminate, TerminateAttempt
<1>29. ASSUME NEW t \in Threads, TokenFailedConsume(t) PROVE TypeOK'
  BY <1>29 DEF TokenFailedConsume
<1>30. ASSUME NEW t \in Threads, AwaitLoad(t) PROVE TypeOK'
  BY <1>30 DEF AwaitLoad
<1>31. ASSUME NEW t \in Threads, VerdictFailed(t) PROVE TypeOK'
  BY <1>31 DEF VerdictFailed
<1>32. ASSUME NEW t \in Threads, VerdictFailedTerminate(t) PROVE TypeOK'
  BY <1>32 DEF VerdictFailedTerminate, TerminateAttempt
<1>33. ASSUME NEW t \in Threads, AbandonLoadAttempt(t) PROVE TypeOK'
  BY <1>33 DEF AbandonLoadAttempt
<1>34. ASSUME NEW t \in Threads, CommitLoad(t) PROVE TypeOK'
  BY <1>34 DEF CommitLoad
<1>35. ASSUME NEW t \in Threads, CommitRefused(t) PROVE TypeOK'
  BY <1>35 DEF CommitRefused
<1>36. ASSUME NEW t \in Threads, PublishLoad(t) PROVE TypeOK'
  BY <1>36 DEF PublishLoad
<1>37. ASSUME NEW t \in Threads, RecordLoaded(t) PROVE TypeOK'
  BY <1>37 DEF RecordLoaded
<1>38. ASSUME NEW t \in Threads, UnloadStarts(t) PROVE TypeOK'
  BY <1>38 DEF UnloadStarts
<1>39. ASSUME NEW t \in Threads, UnloadNotLoaded(t) PROVE TypeOK'
  BY <1>39 DEF UnloadNotLoaded
<1>40. ASSUME NEW t \in Threads, UnloadHasModule(t) PROVE TypeOK'
  BY <1>40 DEF UnloadHasModule
<1>41. ASSUME NEW t \in Threads, UnloadNoEntry(t) PROVE TypeOK'
  BY <1>41 DEF UnloadNoEntry
<1>42. ASSUME NEW t \in Threads, UnloadMark(t) PROVE TypeOK'
  BY <1>42 DEF UnloadMark
<1>43. ASSUME NEW t \in Threads, UnloadTerminate(t) PROVE TypeOK'
  BY <1>43 DEF UnloadTerminate
<1>44. ASSUME NEW t \in Threads, UnloadTerminateInProc(t) PROVE TypeOK'
  BY <1>44 DEF UnloadTerminateInProc
<1>45. ASSUME NEW t \in Threads, UnloadDispatch(t) PROVE TypeOK'
  BY <1>45 DEF UnloadDispatch
<1>46. ASSUME NEW t \in Threads, UnloadForget(t) PROVE TypeOK'
  BY <1>46 DEF UnloadForget
<1>47. ASSUME NEW t \in Threads, UnloadConsume(t) PROVE TypeOK'
  BY <1>47 DEF UnloadConsume
<1>48. ASSUME NEW t \in Threads, MarkAllLoadedExitsExpected(t) PROVE TypeOK'
  BY <1>48 DEF MarkAllLoadedExitsExpected
<1>49. ASSUME NEW t \in Threads, TerminateAllContainers(t) PROVE TypeOK'
  BY <1>49 DEF TerminateAllContainers
<1>50. ASSUME NEW t \in Threads, FleetDispatch(t) PROVE TypeOK'
  BY <1>50 DEF FleetDispatch
<1>51. ASSUME NEW t \in Threads, ClearExpectedExits(t) PROVE TypeOK'
  BY <1>51 DEF ClearExpectedExits
<1>52. ASSUME NEW t \in Threads, ClearLoaded(t) PROVE TypeOK'
  BY <1>52 DEF ClearLoaded
<1>53. ASSUME NEW m \in Modules, ModuleExits(m) PROVE TypeOK'
  BY <1>53 DEF ModuleExits
<1>54. ASSUME NEW m \in Modules, AsioReaps(m) PROVE TypeOK'
  BY <1>54 DEF AsioReaps
<1>55. ASSUME AsioSettles PROVE TypeOK'
  BY <1>55 DEF AsioSettles
<1>56. ASSUME AsioConsumes PROVE TypeOK'
  BY <1>56, ZenonT(60) DEF AsioConsumes
<1>57. ASSUME AsioReportsCrash PROVE TypeOK'
  BY <1>57 DEF AsioReportsCrash
<1>58. ASSUME Discover PROVE TypeOK'
  BY <1>58 DEF Discover
<1>59. CASE UNCHANGED vars
  BY <1>59 DEF vars
<1> QED
  BY <1>1, <1>2, <1>3, <1>4, <1>5, <1>6, <1>7, <1>8, <1>9, <1>10, <1>11,
     <1>12, <1>13, <1>14, <1>15, <1>16, <1>17, <1>18, <1>19, <1>20, <1>21,
     <1>22, <1>23, <1>24, <1>25, <1>26, <1>27, <1>28, <1>29, <1>30, <1>31,
     <1>32, <1>33, <1>34, <1>35, <1>36, <1>37, <1>38, <1>39, <1>40, <1>41,
     <1>42, <1>43, <1>44, <1>45, <1>46, <1>47, <1>48, <1>49, <1>50, <1>51,
     <1>52, <1>53, <1>54, <1>55, <1>56, <1>57, <1>58, <1>59
  DEF Next, ThreadStep, AsioStep, Finished

\* A thread inside a call or a span, and the asio thread inside a callback,
\* have a module bound.
LEMMA NamesStep == TypeOK /\ NamesBound /\ [Next]_vars => NamesBound'
<1> SUFFICES ASSUME TypeOK, NamesBound, [Next]_vars
             PROVE  NamesBound'
  OBVIOUS
<1> USE LifecycleAssumption
<1> USE DEF TypeOK, NamesBound, SpanSteps, LoadSteps, UnloadSteps,
            FleetSteps, At, Goto, Record, Fail, Tolerated, callVars,
            threadVars, lockVars, tableVars, asioVars, boundVars, envVars
<1>1. ASSUME NEW t \in Threads, NEW o \in Ops, NEW m \in Modules, Call(t, o, m) PROVE NamesBound'
  BY <1>1 DEF Call
<1>2. ASSUME NEW m \in Modules, RestartFires(m) PROVE NamesBound'
  BY <1>2 DEF RestartFires
<1>3. ASSUME NEW m \in Modules, RestartUnknown(m) PROVE NamesBound'
  BY <1>3 DEF RestartUnknown
<1>4. ASSUME NEW m \in Modules, RestartRefused(m) PROVE NamesBound'
  BY <1>4 DEF RestartRefused
<1>5. ASSUME NEW t \in Threads, FleetShared(t) PROVE NamesBound'
  BY <1>5 DEF FleetShared
<1>6. ASSUME NEW t \in Threads, ResolveFails(t) PROVE NamesBound'
  BY <1>6 DEF ResolveFails
<1>7. ASSUME NEW t \in Threads, FleetExclusive(t) PROVE NamesBound'
  BY <1>7 DEF FleetExclusive, LockFleet
<1>8. ASSUME NEW t \in Threads, CascadeBegins(t) PROVE NamesBound'
  BY <1>8 DEF CascadeBegins, LockFleet
<1>9. ASSUME NEW t \in Threads, CascadeRefused(t) PROVE NamesBound'
  BY <1>9 DEF CascadeRefused, LockFleet
<1>10. ASSUME NEW t \in Threads, LoopEnds(t) PROVE NamesBound'
  BY <1>10 DEF LoopEnds
<1>11. ASSUME NEW t \in Threads, SkipModule(t) PROVE NamesBound'
  BY <1>11 DEF SkipModule
<1>12. ASSUME NEW t \in Threads, UnknownModule(t) PROVE NamesBound'
  BY <1>12 DEF UnknownModule
<1>13. ASSUME NEW t \in Threads, NextModule(t) PROVE NamesBound'
  BY <1>13 DEF NextModule
<1>14. ASSUME NEW t \in Threads, LockModule(t) PROVE NamesBound'
  BY <1>14 DEF LockModule
<1>15. ASSUME NEW t \in Threads, UnlockModule(t) PROVE NamesBound'
  BY <1>15 DEF UnlockModule
<1>16. ASSUME NEW t \in Threads, ReleaseFleet(t) PROVE NamesBound'
  BY <1>16 DEF ReleaseFleet
<1>17. ASSUME NEW t \in Threads, DispatchBatch(t) PROVE NamesBound'
  BY <1>17 DEF DispatchBatch
<1>18. ASSUME NEW t \in Threads, AlreadyLoaded(t) PROVE NamesBound'
  BY <1>18 DEF AlreadyLoaded
<1>19. ASSUME NEW t \in Threads, GateRefuses(t) PROVE NamesBound'
  BY <1>19 DEF GateRefuses
<1>20. ASSUME NEW t \in Threads, LoadStarts(t) PROVE NamesBound'
  BY <1>20 DEF LoadStarts
<1>21. ASSUME NEW t \in Threads, BeginLoadAttempt(t) PROVE NamesBound'
  BY <1>21 DEF BeginLoadAttempt
<1>22. ASSUME NEW t \in Threads, LockSpawn(t) PROVE NamesBound'
  BY <1>22 DEF LockSpawn
<1>23. ASSUME NEW t \in Threads, Launch(t) PROVE NamesBound'
  BY <1>23 DEF Launch
<1>24. ASSUME NEW t \in Threads, LaunchFails(t) PROVE NamesBound'
  BY <1>24 DEF LaunchFails
<1>25. ASSUME NEW t \in Threads, SendToken(t) PROVE NamesBound'
  BY <1>25 DEF SendToken
<1>26. ASSUME NEW t \in Threads, TokenFails(t) PROVE NamesBound'
  BY <1>26 DEF TokenFails
<1>27. ASSUME NEW t \in Threads, TokenFailedMark(t) PROVE NamesBound'
  BY <1>27 DEF TokenFailedMark
<1>28. ASSUME NEW t \in Threads, TokenFailedTerminate(t) PROVE NamesBound'
  BY <1>28 DEF TokenFailedTerminate, TerminateAttempt
<1>29. ASSUME NEW t \in Threads, TokenFailedConsume(t) PROVE NamesBound'
  BY <1>29 DEF TokenFailedConsume
<1>30. ASSUME NEW t \in Threads, AwaitLoad(t) PROVE NamesBound'
  BY <1>30 DEF AwaitLoad
<1>31. ASSUME NEW t \in Threads, VerdictFailed(t) PROVE NamesBound'
  BY <1>31 DEF VerdictFailed
<1>32. ASSUME NEW t \in Threads, VerdictFailedTerminate(t) PROVE NamesBound'
  BY <1>32 DEF VerdictFailedTerminate, TerminateAttempt
<1>33. ASSUME NEW t \in Threads, AbandonLoadAttempt(t) PROVE NamesBound'
  BY <1>33 DEF AbandonLoadAttempt
<1>34. ASSUME NEW t \in Threads, CommitLoad(t) PROVE NamesBound'
  BY <1>34 DEF CommitLoad
<1>35. ASSUME NEW t \in Threads, CommitRefused(t) PROVE NamesBound'
  BY <1>35 DEF CommitRefused
<1>36. ASSUME NEW t \in Threads, PublishLoad(t) PROVE NamesBound'
  BY <1>36 DEF PublishLoad
<1>37. ASSUME NEW t \in Threads, RecordLoaded(t) PROVE NamesBound'
  BY <1>37 DEF RecordLoaded
<1>38. ASSUME NEW t \in Threads, UnloadStarts(t) PROVE NamesBound'
  BY <1>38 DEF UnloadStarts
<1>39. ASSUME NEW t \in Threads, UnloadNotLoaded(t) PROVE NamesBound'
  BY <1>39 DEF UnloadNotLoaded
<1>40. ASSUME NEW t \in Threads, UnloadHasModule(t) PROVE NamesBound'
  BY <1>40 DEF UnloadHasModule
<1>41. ASSUME NEW t \in Threads, UnloadNoEntry(t) PROVE NamesBound'
  BY <1>41 DEF UnloadNoEntry
<1>42. ASSUME NEW t \in Threads, UnloadMark(t) PROVE NamesBound'
  BY <1>42 DEF UnloadMark
<1>43. ASSUME NEW t \in Threads, UnloadTerminate(t) PROVE NamesBound'
  BY <1>43 DEF UnloadTerminate
<1>44. ASSUME NEW t \in Threads, UnloadTerminateInProc(t) PROVE NamesBound'
  BY <1>44 DEF UnloadTerminateInProc
<1>45. ASSUME NEW t \in Threads, UnloadDispatch(t) PROVE NamesBound'
  BY <1>45 DEF UnloadDispatch
<1>46. ASSUME NEW t \in Threads, UnloadForget(t) PROVE NamesBound'
  BY <1>46 DEF UnloadForget
<1>47. ASSUME NEW t \in Threads, UnloadConsume(t) PROVE NamesBound'
  BY <1>47 DEF UnloadConsume
<1>48. ASSUME NEW t \in Threads, MarkAllLoadedExitsExpected(t) PROVE NamesBound'
  BY <1>48 DEF MarkAllLoadedExitsExpected
<1>49. ASSUME NEW t \in Threads, TerminateAllContainers(t) PROVE NamesBound'
  BY <1>49 DEF TerminateAllContainers
<1>50. ASSUME NEW t \in Threads, FleetDispatch(t) PROVE NamesBound'
  BY <1>50 DEF FleetDispatch
<1>51. ASSUME NEW t \in Threads, ClearExpectedExits(t) PROVE NamesBound'
  BY <1>51 DEF ClearExpectedExits
<1>52. ASSUME NEW t \in Threads, ClearLoaded(t) PROVE NamesBound'
  BY <1>52 DEF ClearLoaded
<1>53. ASSUME NEW m \in Modules, ModuleExits(m) PROVE NamesBound'
  BY <1>53 DEF ModuleExits
<1>54. ASSUME NEW m \in Modules, AsioReaps(m) PROVE NamesBound'
  BY <1>54 DEF AsioReaps
<1>55. ASSUME AsioSettles PROVE NamesBound'
  BY <1>55 DEF AsioSettles
<1>56. ASSUME AsioConsumes PROVE NamesBound'
  BY <1>56 DEF AsioConsumes
<1>57. ASSUME AsioReportsCrash PROVE NamesBound'
  BY <1>57 DEF AsioReportsCrash
<1>58. ASSUME Discover PROVE NamesBound'
  BY <1>58 DEF Discover
<1>59. CASE UNCHANGED vars
  BY <1>59 DEF vars
<1> QED
  BY <1>1, <1>2, <1>3, <1>4, <1>5, <1>6, <1>7, <1>8, <1>9, <1>10, <1>11,
     <1>12, <1>13, <1>14, <1>15, <1>16, <1>17, <1>18, <1>19, <1>20, <1>21,
     <1>22, <1>23, <1>24, <1>25, <1>26, <1>27, <1>28, <1>29, <1>30, <1>31,
     <1>32, <1>33, <1>34, <1>35, <1>36, <1>37, <1>38, <1>39, <1>40, <1>41,
     <1>42, <1>43, <1>44, <1>45, <1>46, <1>47, <1>48, <1>49, <1>50, <1>51,
     <1>52, <1>53, <1>54, <1>55, <1>56, <1>57, <1>58, <1>59
  DEF Next, ThreadStep, AsioStep, Finished

\* Who holds fleetMutex() and moduleMutex(name), and that they hold it alone.
LEMMA LocksStep == TypeOK /\ NamesBound /\ LocksHeld /\ [Next]_vars => LocksHeld'
<1> SUFFICES ASSUME TypeOK, NamesBound, LocksHeld, [Next]_vars
             PROVE  LocksHeld'
  OBVIOUS
<1> USE LifecycleAssumption
<1> USE DEF TypeOK, NamesBound, LocksHeld, InsideFleet, FleetOps, SpanSteps,
            LoadSteps, UnloadSteps, FleetSteps, At, Goto, Record, Fail,
            Tolerated, callVars, threadVars, lockVars, tableVars, asioVars,
            boundVars, envVars
<1>1. ASSUME NEW t \in Threads, NEW o \in Ops, NEW m \in Modules, Call(t, o, m) PROVE LocksHeld'
  BY <1>1 DEF Call
<1>2. ASSUME NEW m \in Modules, RestartFires(m) PROVE LocksHeld'
  BY <1>2 DEF RestartFires
<1>3. ASSUME NEW m \in Modules, RestartUnknown(m) PROVE LocksHeld'
  BY <1>3 DEF RestartUnknown
<1>4. ASSUME NEW m \in Modules, RestartRefused(m) PROVE LocksHeld'
  BY <1>4 DEF RestartRefused
<1>5. ASSUME NEW t \in Threads, FleetShared(t) PROVE LocksHeld'
  BY <1>5 DEF FleetShared
<1>6. ASSUME NEW t \in Threads, ResolveFails(t) PROVE LocksHeld'
  BY <1>6 DEF ResolveFails
<1>7. ASSUME NEW t \in Threads, FleetExclusive(t) PROVE LocksHeld'
  BY <1>7 DEF FleetExclusive, LockFleet
<1>8. ASSUME NEW t \in Threads, CascadeBegins(t) PROVE LocksHeld'
  BY <1>8 DEF CascadeBegins, LockFleet
<1>9. ASSUME NEW t \in Threads, CascadeRefused(t) PROVE LocksHeld'
  BY <1>9 DEF CascadeRefused, LockFleet
<1>10. ASSUME NEW t \in Threads, LoopEnds(t) PROVE LocksHeld'
  BY <1>10 DEF LoopEnds
<1>11. ASSUME NEW t \in Threads, SkipModule(t) PROVE LocksHeld'
  BY <1>11 DEF SkipModule
<1>12. ASSUME NEW t \in Threads, UnknownModule(t) PROVE LocksHeld'
  BY <1>12 DEF UnknownModule
<1>13. ASSUME NEW t \in Threads, NextModule(t) PROVE LocksHeld'
  BY <1>13 DEF NextModule
<1>14. ASSUME NEW t \in Threads, LockModule(t) PROVE LocksHeld'
  BY <1>14 DEF LockModule
<1>15. ASSUME NEW t \in Threads, UnlockModule(t) PROVE LocksHeld'
  BY <1>15 DEF UnlockModule
<1>16. ASSUME NEW t \in Threads, ReleaseFleet(t) PROVE LocksHeld'
  BY <1>16 DEF ReleaseFleet
<1>17. ASSUME NEW t \in Threads, DispatchBatch(t) PROVE LocksHeld'
  BY <1>17 DEF DispatchBatch
<1>18. ASSUME NEW t \in Threads, AlreadyLoaded(t) PROVE LocksHeld'
  BY <1>18 DEF AlreadyLoaded
<1>19. ASSUME NEW t \in Threads, GateRefuses(t) PROVE LocksHeld'
  BY <1>19 DEF GateRefuses
<1>20. ASSUME NEW t \in Threads, LoadStarts(t) PROVE LocksHeld'
  BY <1>20 DEF LoadStarts
<1>21. ASSUME NEW t \in Threads, BeginLoadAttempt(t) PROVE LocksHeld'
  BY <1>21 DEF BeginLoadAttempt
<1>22. ASSUME NEW t \in Threads, LockSpawn(t) PROVE LocksHeld'
  BY <1>22 DEF LockSpawn
<1>23. ASSUME NEW t \in Threads, Launch(t) PROVE LocksHeld'
  BY <1>23 DEF Launch
<1>24. ASSUME NEW t \in Threads, LaunchFails(t) PROVE LocksHeld'
  BY <1>24 DEF LaunchFails
<1>25. ASSUME NEW t \in Threads, SendToken(t) PROVE LocksHeld'
  BY <1>25 DEF SendToken
<1>26. ASSUME NEW t \in Threads, TokenFails(t) PROVE LocksHeld'
  BY <1>26 DEF TokenFails
<1>27. ASSUME NEW t \in Threads, TokenFailedMark(t) PROVE LocksHeld'
  BY <1>27 DEF TokenFailedMark
<1>28. ASSUME NEW t \in Threads, TokenFailedTerminate(t) PROVE LocksHeld'
  BY <1>28 DEF TokenFailedTerminate, TerminateAttempt
<1>29. ASSUME NEW t \in Threads, TokenFailedConsume(t) PROVE LocksHeld'
  BY <1>29 DEF TokenFailedConsume
<1>30. ASSUME NEW t \in Threads, AwaitLoad(t) PROVE LocksHeld'
  BY <1>30 DEF AwaitLoad
<1>31. ASSUME NEW t \in Threads, VerdictFailed(t) PROVE LocksHeld'
  BY <1>31 DEF VerdictFailed
<1>32. ASSUME NEW t \in Threads, VerdictFailedTerminate(t) PROVE LocksHeld'
  BY <1>32 DEF VerdictFailedTerminate, TerminateAttempt
<1>33. ASSUME NEW t \in Threads, AbandonLoadAttempt(t) PROVE LocksHeld'
  BY <1>33 DEF AbandonLoadAttempt
<1>34. ASSUME NEW t \in Threads, CommitLoad(t) PROVE LocksHeld'
  BY <1>34 DEF CommitLoad
<1>35. ASSUME NEW t \in Threads, CommitRefused(t) PROVE LocksHeld'
  BY <1>35 DEF CommitRefused
<1>36. ASSUME NEW t \in Threads, PublishLoad(t) PROVE LocksHeld'
  BY <1>36 DEF PublishLoad
<1>37. ASSUME NEW t \in Threads, RecordLoaded(t) PROVE LocksHeld'
  BY <1>37 DEF RecordLoaded
<1>38. ASSUME NEW t \in Threads, UnloadStarts(t) PROVE LocksHeld'
  BY <1>38 DEF UnloadStarts
<1>39. ASSUME NEW t \in Threads, UnloadNotLoaded(t) PROVE LocksHeld'
  BY <1>39 DEF UnloadNotLoaded
<1>40. ASSUME NEW t \in Threads, UnloadHasModule(t) PROVE LocksHeld'
  BY <1>40 DEF UnloadHasModule
<1>41. ASSUME NEW t \in Threads, UnloadNoEntry(t) PROVE LocksHeld'
  BY <1>41 DEF UnloadNoEntry
<1>42. ASSUME NEW t \in Threads, UnloadMark(t) PROVE LocksHeld'
  BY <1>42 DEF UnloadMark
<1>43. ASSUME NEW t \in Threads, UnloadTerminate(t) PROVE LocksHeld'
  BY <1>43 DEF UnloadTerminate
<1>44. ASSUME NEW t \in Threads, UnloadTerminateInProc(t) PROVE LocksHeld'
  BY <1>44 DEF UnloadTerminateInProc
<1>45. ASSUME NEW t \in Threads, UnloadDispatch(t) PROVE LocksHeld'
  BY <1>45 DEF UnloadDispatch
<1>46. ASSUME NEW t \in Threads, UnloadForget(t) PROVE LocksHeld'
  BY <1>46 DEF UnloadForget
<1>47. ASSUME NEW t \in Threads, UnloadConsume(t) PROVE LocksHeld'
  BY <1>47 DEF UnloadConsume
<1>48. ASSUME NEW t \in Threads, MarkAllLoadedExitsExpected(t) PROVE LocksHeld'
  BY <1>48 DEF MarkAllLoadedExitsExpected
<1>49. ASSUME NEW t \in Threads, TerminateAllContainers(t) PROVE LocksHeld'
  BY <1>49 DEF TerminateAllContainers
<1>50. ASSUME NEW t \in Threads, FleetDispatch(t) PROVE LocksHeld'
  BY <1>50 DEF FleetDispatch
<1>51. ASSUME NEW t \in Threads, ClearExpectedExits(t) PROVE LocksHeld'
  BY <1>51 DEF ClearExpectedExits
<1>52. ASSUME NEW t \in Threads, ClearLoaded(t) PROVE LocksHeld'
  BY <1>52 DEF ClearLoaded
<1>53. ASSUME NEW m \in Modules, ModuleExits(m) PROVE LocksHeld'
  BY <1>53 DEF ModuleExits
<1>54. ASSUME NEW m \in Modules, AsioReaps(m) PROVE LocksHeld'
  BY <1>54 DEF AsioReaps
<1>55. ASSUME AsioSettles PROVE LocksHeld'
  BY <1>55 DEF AsioSettles
<1>56. ASSUME AsioConsumes PROVE LocksHeld'
  BY <1>56 DEF AsioConsumes
<1>57. ASSUME AsioReportsCrash PROVE LocksHeld'
  BY <1>57 DEF AsioReportsCrash
<1>58. ASSUME Discover PROVE LocksHeld'
  BY <1>58 DEF Discover
<1>59. CASE UNCHANGED vars
  BY <1>59 DEF vars
<1> QED
  BY <1>1, <1>2, <1>3, <1>4, <1>5, <1>6, <1>7, <1>8, <1>9, <1>10, <1>11,
     <1>12, <1>13, <1>14, <1>15, <1>16, <1>17, <1>18, <1>19, <1>20, <1>21,
     <1>22, <1>23, <1>24, <1>25, <1>26, <1>27, <1>28, <1>29, <1>30, <1>31,
     <1>32, <1>33, <1>34, <1>35, <1>36, <1>37, <1>38, <1>39, <1>40, <1>41,
     <1>42, <1>43, <1>44, <1>45, <1>46, <1>47, <1>48, <1>49, <1>50, <1>51,
     <1>52, <1>53, <1>54, <1>55, <1>56, <1>57, <1>58, <1>59
  DEF Next, ThreadStep, AsioStep, Finished

\* What beginLoadAttempt opened stays open, with its module down, until
\* abandonLoadAttempt or commitLoad closes it.
LEMMA AttemptStep == TypeOK /\ NamesBound /\ LocksHeld /\ AttemptTracked /\ [Next]_vars => AttemptTracked'
<1> SUFFICES ASSUME TypeOK, NamesBound, LocksHeld, AttemptTracked, [Next]_vars
             PROVE  AttemptTracked'
  OBVIOUS
<1> USE LifecycleAssumption
<1> USE DEF TypeOK, NamesBound, LocksHeld, AttemptTracked, InsideFleet,
            AttemptSteps, SpanSteps, LoadSteps, UnloadSteps, FleetSteps, At,
            Goto, Record, Fail, Tolerated, callVars, threadVars, lockVars,
            tableVars, asioVars, boundVars, envVars
<1>1. ASSUME NEW t \in Threads, NEW o \in Ops, NEW m \in Modules, Call(t, o, m) PROVE AttemptTracked'
  BY <1>1 DEF Call
<1>2. ASSUME NEW m \in Modules, RestartFires(m) PROVE AttemptTracked'
  BY <1>2 DEF RestartFires
<1>3. ASSUME NEW m \in Modules, RestartUnknown(m) PROVE AttemptTracked'
  BY <1>3 DEF RestartUnknown
<1>4. ASSUME NEW m \in Modules, RestartRefused(m) PROVE AttemptTracked'
  BY <1>4 DEF RestartRefused
<1>5. ASSUME NEW t \in Threads, FleetShared(t) PROVE AttemptTracked'
  BY <1>5 DEF FleetShared
<1>6. ASSUME NEW t \in Threads, ResolveFails(t) PROVE AttemptTracked'
  BY <1>6 DEF ResolveFails
<1>7. ASSUME NEW t \in Threads, FleetExclusive(t) PROVE AttemptTracked'
  BY <1>7 DEF FleetExclusive, LockFleet
<1>8. ASSUME NEW t \in Threads, CascadeBegins(t) PROVE AttemptTracked'
  BY <1>8 DEF CascadeBegins, LockFleet
<1>9. ASSUME NEW t \in Threads, CascadeRefused(t) PROVE AttemptTracked'
  BY <1>9 DEF CascadeRefused, LockFleet
<1>10. ASSUME NEW t \in Threads, LoopEnds(t) PROVE AttemptTracked'
  BY <1>10 DEF LoopEnds
<1>11. ASSUME NEW t \in Threads, SkipModule(t) PROVE AttemptTracked'
  BY <1>11 DEF SkipModule
<1>12. ASSUME NEW t \in Threads, UnknownModule(t) PROVE AttemptTracked'
  BY <1>12 DEF UnknownModule
<1>13. ASSUME NEW t \in Threads, NextModule(t) PROVE AttemptTracked'
  BY <1>13 DEF NextModule
<1>14. ASSUME NEW t \in Threads, LockModule(t) PROVE AttemptTracked'
  BY <1>14 DEF LockModule
<1>15. ASSUME NEW t \in Threads, UnlockModule(t) PROVE AttemptTracked'
  BY <1>15 DEF UnlockModule
<1>16. ASSUME NEW t \in Threads, ReleaseFleet(t) PROVE AttemptTracked'
  BY <1>16 DEF ReleaseFleet
<1>17. ASSUME NEW t \in Threads, DispatchBatch(t) PROVE AttemptTracked'
  BY <1>17 DEF DispatchBatch
<1>18. ASSUME NEW t \in Threads, AlreadyLoaded(t) PROVE AttemptTracked'
  BY <1>18 DEF AlreadyLoaded
<1>19. ASSUME NEW t \in Threads, GateRefuses(t) PROVE AttemptTracked'
  BY <1>19 DEF GateRefuses
<1>20. ASSUME NEW t \in Threads, LoadStarts(t) PROVE AttemptTracked'
  BY <1>20 DEF LoadStarts
<1>21. ASSUME NEW t \in Threads, BeginLoadAttempt(t) PROVE AttemptTracked'
  BY <1>21 DEF BeginLoadAttempt
<1>22. ASSUME NEW t \in Threads, LockSpawn(t) PROVE AttemptTracked'
  BY <1>22 DEF LockSpawn
<1>23. ASSUME NEW t \in Threads, Launch(t) PROVE AttemptTracked'
  BY <1>23 DEF Launch
<1>24. ASSUME NEW t \in Threads, LaunchFails(t) PROVE AttemptTracked'
  BY <1>24 DEF LaunchFails
<1>25. ASSUME NEW t \in Threads, SendToken(t) PROVE AttemptTracked'
  BY <1>25 DEF SendToken
<1>26. ASSUME NEW t \in Threads, TokenFails(t) PROVE AttemptTracked'
  BY <1>26 DEF TokenFails
<1>27. ASSUME NEW t \in Threads, TokenFailedMark(t) PROVE AttemptTracked'
  BY <1>27 DEF TokenFailedMark
<1>28. ASSUME NEW t \in Threads, TokenFailedTerminate(t) PROVE AttemptTracked'
  BY <1>28 DEF TokenFailedTerminate, TerminateAttempt
<1>29. ASSUME NEW t \in Threads, TokenFailedConsume(t) PROVE AttemptTracked'
  BY <1>29 DEF TokenFailedConsume
<1>30. ASSUME NEW t \in Threads, AwaitLoad(t) PROVE AttemptTracked'
  BY <1>30 DEF AwaitLoad
<1>31. ASSUME NEW t \in Threads, VerdictFailed(t) PROVE AttemptTracked'
  BY <1>31 DEF VerdictFailed
<1>32. ASSUME NEW t \in Threads, VerdictFailedTerminate(t) PROVE AttemptTracked'
  BY <1>32 DEF VerdictFailedTerminate, TerminateAttempt
<1>33. ASSUME NEW t \in Threads, AbandonLoadAttempt(t) PROVE AttemptTracked'
  BY <1>33 DEF AbandonLoadAttempt
<1>34. ASSUME NEW t \in Threads, CommitLoad(t) PROVE AttemptTracked'
  BY <1>34 DEF CommitLoad
<1>35. ASSUME NEW t \in Threads, CommitRefused(t) PROVE AttemptTracked'
  BY <1>35 DEF CommitRefused
<1>36. ASSUME NEW t \in Threads, PublishLoad(t) PROVE AttemptTracked'
  BY <1>36 DEF PublishLoad
<1>37. ASSUME NEW t \in Threads, RecordLoaded(t) PROVE AttemptTracked'
  BY <1>37 DEF RecordLoaded
<1>38. ASSUME NEW t \in Threads, UnloadStarts(t) PROVE AttemptTracked'
  BY <1>38 DEF UnloadStarts
<1>39. ASSUME NEW t \in Threads, UnloadNotLoaded(t) PROVE AttemptTracked'
  BY <1>39 DEF UnloadNotLoaded
<1>40. ASSUME NEW t \in Threads, UnloadHasModule(t) PROVE AttemptTracked'
  BY <1>40 DEF UnloadHasModule
<1>41. ASSUME NEW t \in Threads, UnloadNoEntry(t) PROVE AttemptTracked'
  BY <1>41 DEF UnloadNoEntry
<1>42. ASSUME NEW t \in Threads, UnloadMark(t) PROVE AttemptTracked'
  BY <1>42 DEF UnloadMark
<1>43. ASSUME NEW t \in Threads, UnloadTerminate(t) PROVE AttemptTracked'
  BY <1>43 DEF UnloadTerminate
<1>44. ASSUME NEW t \in Threads, UnloadTerminateInProc(t) PROVE AttemptTracked'
  BY <1>44 DEF UnloadTerminateInProc
<1>45. ASSUME NEW t \in Threads, UnloadDispatch(t) PROVE AttemptTracked'
  BY <1>45 DEF UnloadDispatch
<1>46. ASSUME NEW t \in Threads, UnloadForget(t) PROVE AttemptTracked'
  BY <1>46 DEF UnloadForget
<1>47. ASSUME NEW t \in Threads, UnloadConsume(t) PROVE AttemptTracked'
  BY <1>47 DEF UnloadConsume
<1>48. ASSUME NEW t \in Threads, MarkAllLoadedExitsExpected(t) PROVE AttemptTracked'
  BY <1>48 DEF MarkAllLoadedExitsExpected
<1>49. ASSUME NEW t \in Threads, TerminateAllContainers(t) PROVE AttemptTracked'
  BY <1>49 DEF TerminateAllContainers
<1>50. ASSUME NEW t \in Threads, FleetDispatch(t) PROVE AttemptTracked'
  BY <1>50 DEF FleetDispatch
<1>51. ASSUME NEW t \in Threads, ClearExpectedExits(t) PROVE AttemptTracked'
  BY <1>51 DEF ClearExpectedExits
<1>52. ASSUME NEW t \in Threads, ClearLoaded(t) PROVE AttemptTracked'
  BY <1>52 DEF ClearLoaded
<1>53. ASSUME NEW m \in Modules, ModuleExits(m) PROVE AttemptTracked'
  BY <1>53 DEF ModuleExits
<1>54. ASSUME NEW m \in Modules, AsioReaps(m) PROVE AttemptTracked'
  BY <1>54 DEF AsioReaps
<1>55. ASSUME AsioSettles PROVE AttemptTracked'
  BY <1>55 DEF AsioSettles
<1>56. ASSUME AsioConsumes PROVE AttemptTracked'
  BY <1>56 DEF AsioConsumes
<1>57. ASSUME AsioReportsCrash PROVE AttemptTracked'
  BY <1>57 DEF AsioReportsCrash
<1>58. ASSUME Discover PROVE AttemptTracked'
  BY <1>58 DEF Discover
<1>59. CASE UNCHANGED vars
  BY <1>59 DEF vars
<1> QED
  BY <1>1, <1>2, <1>3, <1>4, <1>5, <1>6, <1>7, <1>8, <1>9, <1>10, <1>11,
     <1>12, <1>13, <1>14, <1>15, <1>16, <1>17, <1>18, <1>19, <1>20, <1>21,
     <1>22, <1>23, <1>24, <1>25, <1>26, <1>27, <1>28, <1>29, <1>30, <1>31,
     <1>32, <1>33, <1>34, <1>35, <1>36, <1>37, <1>38, <1>39, <1>40, <1>41,
     <1>42, <1>43, <1>44, <1>45, <1>46, <1>47, <1>48, <1>49, <1>50, <1>51,
     <1>52, <1>53, <1>54, <1>55, <1>56, <1>57, <1>58, <1>59
  DEF Next, ThreadStep, AsioStep, Finished

\* An entry of inFlightLoads() belongs to the holder of the module lock.
LEMMA FlightStep == TypeOK /\ NamesBound /\ LocksHeld /\ AttemptsOwned /\ [Next]_vars => AttemptsOwned'
<1> SUFFICES ASSUME TypeOK, NamesBound, LocksHeld, AttemptsOwned, [Next]_vars
             PROVE  AttemptsOwned'
  OBVIOUS
<1> USE LifecycleAssumption
<1> USE DEF TypeOK, NamesBound, LocksHeld, AttemptsOwned, AttemptSteps,
            HolderAt, InsideFleet, SpanSteps, LoadSteps, UnloadSteps,
            FleetSteps, At, Goto, Record, Fail, Tolerated, callVars,
            threadVars, lockVars, tableVars, asioVars, boundVars, envVars
<1>1. ASSUME NEW t \in Threads, NEW o \in Ops, NEW m \in Modules, Call(t, o, m) PROVE AttemptsOwned'
  BY <1>1 DEF Call
<1>2. ASSUME NEW m \in Modules, RestartFires(m) PROVE AttemptsOwned'
  BY <1>2 DEF RestartFires
<1>3. ASSUME NEW m \in Modules, RestartUnknown(m) PROVE AttemptsOwned'
  BY <1>3 DEF RestartUnknown
<1>4. ASSUME NEW m \in Modules, RestartRefused(m) PROVE AttemptsOwned'
  BY <1>4 DEF RestartRefused
<1>5. ASSUME NEW t \in Threads, FleetShared(t) PROVE AttemptsOwned'
  BY <1>5 DEF FleetShared
<1>6. ASSUME NEW t \in Threads, ResolveFails(t) PROVE AttemptsOwned'
  BY <1>6 DEF ResolveFails
<1>7. ASSUME NEW t \in Threads, FleetExclusive(t) PROVE AttemptsOwned'
  BY <1>7 DEF FleetExclusive, LockFleet
<1>8. ASSUME NEW t \in Threads, CascadeBegins(t) PROVE AttemptsOwned'
  BY <1>8 DEF CascadeBegins, LockFleet
<1>9. ASSUME NEW t \in Threads, CascadeRefused(t) PROVE AttemptsOwned'
  BY <1>9 DEF CascadeRefused, LockFleet
<1>10. ASSUME NEW t \in Threads, LoopEnds(t) PROVE AttemptsOwned'
  BY <1>10 DEF LoopEnds
<1>11. ASSUME NEW t \in Threads, SkipModule(t) PROVE AttemptsOwned'
  BY <1>11 DEF SkipModule
<1>12. ASSUME NEW t \in Threads, UnknownModule(t) PROVE AttemptsOwned'
  BY <1>12 DEF UnknownModule
<1>13. ASSUME NEW t \in Threads, NextModule(t) PROVE AttemptsOwned'
  BY <1>13 DEF NextModule
<1>14. ASSUME NEW t \in Threads, LockModule(t) PROVE AttemptsOwned'
  BY <1>14 DEF LockModule
<1>15. ASSUME NEW t \in Threads, UnlockModule(t) PROVE AttemptsOwned'
  BY <1>15 DEF UnlockModule
<1>16. ASSUME NEW t \in Threads, ReleaseFleet(t) PROVE AttemptsOwned'
  BY <1>16 DEF ReleaseFleet
<1>17. ASSUME NEW t \in Threads, DispatchBatch(t) PROVE AttemptsOwned'
  BY <1>17 DEF DispatchBatch
<1>18. ASSUME NEW t \in Threads, AlreadyLoaded(t) PROVE AttemptsOwned'
  BY <1>18 DEF AlreadyLoaded
<1>19. ASSUME NEW t \in Threads, GateRefuses(t) PROVE AttemptsOwned'
  BY <1>19 DEF GateRefuses
<1>20. ASSUME NEW t \in Threads, LoadStarts(t) PROVE AttemptsOwned'
  BY <1>20 DEF LoadStarts
<1>21. ASSUME NEW t \in Threads, BeginLoadAttempt(t) PROVE AttemptsOwned'
  BY <1>21 DEF BeginLoadAttempt
<1>22. ASSUME NEW t \in Threads, LockSpawn(t) PROVE AttemptsOwned'
  BY <1>22 DEF LockSpawn
<1>23. ASSUME NEW t \in Threads, Launch(t) PROVE AttemptsOwned'
  BY <1>23 DEF Launch
<1>24. ASSUME NEW t \in Threads, LaunchFails(t) PROVE AttemptsOwned'
  BY <1>24 DEF LaunchFails
<1>25. ASSUME NEW t \in Threads, SendToken(t) PROVE AttemptsOwned'
  BY <1>25 DEF SendToken
<1>26. ASSUME NEW t \in Threads, TokenFails(t) PROVE AttemptsOwned'
  BY <1>26 DEF TokenFails
<1>27. ASSUME NEW t \in Threads, TokenFailedMark(t) PROVE AttemptsOwned'
  BY <1>27 DEF TokenFailedMark
<1>28. ASSUME NEW t \in Threads, TokenFailedTerminate(t) PROVE AttemptsOwned'
  BY <1>28 DEF TokenFailedTerminate, TerminateAttempt
<1>29. ASSUME NEW t \in Threads, TokenFailedConsume(t) PROVE AttemptsOwned'
  BY <1>29 DEF TokenFailedConsume
<1>30. ASSUME NEW t \in Threads, AwaitLoad(t) PROVE AttemptsOwned'
  BY <1>30 DEF AwaitLoad
<1>31. ASSUME NEW t \in Threads, VerdictFailed(t) PROVE AttemptsOwned'
  BY <1>31 DEF VerdictFailed
<1>32. ASSUME NEW t \in Threads, VerdictFailedTerminate(t) PROVE AttemptsOwned'
  BY <1>32 DEF VerdictFailedTerminate, TerminateAttempt
<1>33. ASSUME NEW t \in Threads, AbandonLoadAttempt(t) PROVE AttemptsOwned'
  BY <1>33 DEF AbandonLoadAttempt
<1>34. ASSUME NEW t \in Threads, CommitLoad(t) PROVE AttemptsOwned'
  BY <1>34 DEF CommitLoad
<1>35. ASSUME NEW t \in Threads, CommitRefused(t) PROVE AttemptsOwned'
  BY <1>35 DEF CommitRefused
<1>36. ASSUME NEW t \in Threads, PublishLoad(t) PROVE AttemptsOwned'
  BY <1>36 DEF PublishLoad
<1>37. ASSUME NEW t \in Threads, RecordLoaded(t) PROVE AttemptsOwned'
  BY <1>37 DEF RecordLoaded
<1>38. ASSUME NEW t \in Threads, UnloadStarts(t) PROVE AttemptsOwned'
  BY <1>38 DEF UnloadStarts
<1>39. ASSUME NEW t \in Threads, UnloadNotLoaded(t) PROVE AttemptsOwned'
  BY <1>39 DEF UnloadNotLoaded
<1>40. ASSUME NEW t \in Threads, UnloadHasModule(t) PROVE AttemptsOwned'
  BY <1>40 DEF UnloadHasModule
<1>41. ASSUME NEW t \in Threads, UnloadNoEntry(t) PROVE AttemptsOwned'
  BY <1>41 DEF UnloadNoEntry
<1>42. ASSUME NEW t \in Threads, UnloadMark(t) PROVE AttemptsOwned'
  BY <1>42 DEF UnloadMark
<1>43. ASSUME NEW t \in Threads, UnloadTerminate(t) PROVE AttemptsOwned'
  BY <1>43 DEF UnloadTerminate
<1>44. ASSUME NEW t \in Threads, UnloadTerminateInProc(t) PROVE AttemptsOwned'
  BY <1>44 DEF UnloadTerminateInProc
<1>45. ASSUME NEW t \in Threads, UnloadDispatch(t) PROVE AttemptsOwned'
  BY <1>45 DEF UnloadDispatch
<1>46. ASSUME NEW t \in Threads, UnloadForget(t) PROVE AttemptsOwned'
  BY <1>46 DEF UnloadForget
<1>47. ASSUME NEW t \in Threads, UnloadConsume(t) PROVE AttemptsOwned'
  BY <1>47 DEF UnloadConsume
<1>48. ASSUME NEW t \in Threads, MarkAllLoadedExitsExpected(t) PROVE AttemptsOwned'
  BY <1>48 DEF MarkAllLoadedExitsExpected
<1>49. ASSUME NEW t \in Threads, TerminateAllContainers(t) PROVE AttemptsOwned'
  BY <1>49 DEF TerminateAllContainers
<1>50. ASSUME NEW t \in Threads, FleetDispatch(t) PROVE AttemptsOwned'
  BY <1>50 DEF FleetDispatch
<1>51. ASSUME NEW t \in Threads, ClearExpectedExits(t) PROVE AttemptsOwned'
  BY <1>51 DEF ClearExpectedExits
<1>52. ASSUME NEW t \in Threads, ClearLoaded(t) PROVE AttemptsOwned'
  BY <1>52 DEF ClearLoaded
<1>53. ASSUME NEW m \in Modules, ModuleExits(m) PROVE AttemptsOwned'
  BY <1>53 DEF ModuleExits
<1>54. ASSUME NEW m \in Modules, AsioReaps(m) PROVE AttemptsOwned'
  BY <1>54 DEF AsioReaps
<1>55. ASSUME AsioSettles PROVE AttemptsOwned'
  BY <1>55 DEF AsioSettles
<1>56. ASSUME AsioConsumes PROVE AttemptsOwned'
  BY <1>56 DEF AsioConsumes
<1>57. ASSUME AsioReportsCrash PROVE AttemptsOwned'
  BY <1>57 DEF AsioReportsCrash
<1>58. ASSUME Discover PROVE AttemptsOwned'
  BY <1>58 DEF Discover
<1>59. CASE UNCHANGED vars
  BY <1>59 DEF vars
<1> QED
  BY <1>1, <1>2, <1>3, <1>4, <1>5, <1>6, <1>7, <1>8, <1>9, <1>10, <1>11,
     <1>12, <1>13, <1>14, <1>15, <1>16, <1>17, <1>18, <1>19, <1>20, <1>21,
     <1>22, <1>23, <1>24, <1>25, <1>26, <1>27, <1>28, <1>29, <1>30, <1>31,
     <1>32, <1>33, <1>34, <1>35, <1>36, <1>37, <1>38, <1>39, <1>40, <1>41,
     <1>42, <1>43, <1>44, <1>45, <1>46, <1>47, <1>48, <1>49, <1>50, <1>51,
     <1>52, <1>53, <1>54, <1>55, <1>56, <1>57, <1>58, <1>59
  DEF Next, ThreadStep, AsioStep, Finished

\* An expected-exit mark belongs to the holder of the module lock, or to the
\* exclusive owner of the fleet lock.
LEMMA MarkStep == TypeOK /\ NamesBound /\ LocksHeld /\ MarksOwned /\ [Next]_vars => MarksOwned'
<1> SUFFICES ASSUME TypeOK, NamesBound, LocksHeld, MarksOwned, [Next]_vars
             PROVE  MarksOwned'
  OBVIOUS
<1> USE LifecycleAssumption
<1> USE DEF TypeOK, NamesBound, LocksHeld, MarksOwned, HolderAt, OwnerAt,
            InsideFleet, SpanSteps, LoadSteps, UnloadSteps, FleetSteps, At,
            Goto, Record, Fail, Tolerated, callVars, threadVars, lockVars,
            tableVars, asioVars, boundVars, envVars
<1>1. ASSUME NEW t \in Threads, NEW o \in Ops, NEW m \in Modules, Call(t, o, m) PROVE MarksOwned'
  BY <1>1 DEF Call
<1>2. ASSUME NEW m \in Modules, RestartFires(m) PROVE MarksOwned'
  BY <1>2 DEF RestartFires
<1>3. ASSUME NEW m \in Modules, RestartUnknown(m) PROVE MarksOwned'
  BY <1>3 DEF RestartUnknown
<1>4. ASSUME NEW m \in Modules, RestartRefused(m) PROVE MarksOwned'
  BY <1>4 DEF RestartRefused
<1>5. ASSUME NEW t \in Threads, FleetShared(t) PROVE MarksOwned'
  BY <1>5 DEF FleetShared
<1>6. ASSUME NEW t \in Threads, ResolveFails(t) PROVE MarksOwned'
  BY <1>6 DEF ResolveFails
<1>7. ASSUME NEW t \in Threads, FleetExclusive(t) PROVE MarksOwned'
  BY <1>7 DEF FleetExclusive, LockFleet
<1>8. ASSUME NEW t \in Threads, CascadeBegins(t) PROVE MarksOwned'
  BY <1>8 DEF CascadeBegins, LockFleet
<1>9. ASSUME NEW t \in Threads, CascadeRefused(t) PROVE MarksOwned'
  BY <1>9 DEF CascadeRefused, LockFleet
<1>10. ASSUME NEW t \in Threads, LoopEnds(t) PROVE MarksOwned'
  BY <1>10 DEF LoopEnds
<1>11. ASSUME NEW t \in Threads, SkipModule(t) PROVE MarksOwned'
  BY <1>11 DEF SkipModule
<1>12. ASSUME NEW t \in Threads, UnknownModule(t) PROVE MarksOwned'
  BY <1>12 DEF UnknownModule
<1>13. ASSUME NEW t \in Threads, NextModule(t) PROVE MarksOwned'
  BY <1>13 DEF NextModule
<1>14. ASSUME NEW t \in Threads, LockModule(t) PROVE MarksOwned'
  BY <1>14 DEF LockModule
<1>15. ASSUME NEW t \in Threads, UnlockModule(t) PROVE MarksOwned'
  BY <1>15 DEF UnlockModule
<1>16. ASSUME NEW t \in Threads, ReleaseFleet(t) PROVE MarksOwned'
  BY <1>16 DEF ReleaseFleet
<1>17. ASSUME NEW t \in Threads, DispatchBatch(t) PROVE MarksOwned'
  BY <1>17 DEF DispatchBatch
<1>18. ASSUME NEW t \in Threads, AlreadyLoaded(t) PROVE MarksOwned'
  BY <1>18 DEF AlreadyLoaded
<1>19. ASSUME NEW t \in Threads, GateRefuses(t) PROVE MarksOwned'
  BY <1>19 DEF GateRefuses
<1>20. ASSUME NEW t \in Threads, LoadStarts(t) PROVE MarksOwned'
  BY <1>20 DEF LoadStarts
<1>21. ASSUME NEW t \in Threads, BeginLoadAttempt(t) PROVE MarksOwned'
  BY <1>21 DEF BeginLoadAttempt
<1>22. ASSUME NEW t \in Threads, LockSpawn(t) PROVE MarksOwned'
  BY <1>22 DEF LockSpawn
<1>23. ASSUME NEW t \in Threads, Launch(t) PROVE MarksOwned'
  BY <1>23 DEF Launch
<1>24. ASSUME NEW t \in Threads, LaunchFails(t) PROVE MarksOwned'
  BY <1>24 DEF LaunchFails
<1>25. ASSUME NEW t \in Threads, SendToken(t) PROVE MarksOwned'
  BY <1>25 DEF SendToken
<1>26. ASSUME NEW t \in Threads, TokenFails(t) PROVE MarksOwned'
  BY <1>26 DEF TokenFails
<1>27. ASSUME NEW t \in Threads, TokenFailedMark(t) PROVE MarksOwned'
  BY <1>27 DEF TokenFailedMark
<1>28. ASSUME NEW t \in Threads, TokenFailedTerminate(t) PROVE MarksOwned'
  BY <1>28 DEF TokenFailedTerminate, TerminateAttempt
<1>29. ASSUME NEW t \in Threads, TokenFailedConsume(t) PROVE MarksOwned'
  BY <1>29 DEF TokenFailedConsume
<1>30. ASSUME NEW t \in Threads, AwaitLoad(t) PROVE MarksOwned'
  BY <1>30 DEF AwaitLoad
<1>31. ASSUME NEW t \in Threads, VerdictFailed(t) PROVE MarksOwned'
  BY <1>31 DEF VerdictFailed
<1>32. ASSUME NEW t \in Threads, VerdictFailedTerminate(t) PROVE MarksOwned'
  BY <1>32 DEF VerdictFailedTerminate, TerminateAttempt
<1>33. ASSUME NEW t \in Threads, AbandonLoadAttempt(t) PROVE MarksOwned'
  BY <1>33 DEF AbandonLoadAttempt
<1>34. ASSUME NEW t \in Threads, CommitLoad(t) PROVE MarksOwned'
  BY <1>34 DEF CommitLoad
<1>35. ASSUME NEW t \in Threads, CommitRefused(t) PROVE MarksOwned'
  BY <1>35 DEF CommitRefused
<1>36. ASSUME NEW t \in Threads, PublishLoad(t) PROVE MarksOwned'
  BY <1>36 DEF PublishLoad
<1>37. ASSUME NEW t \in Threads, RecordLoaded(t) PROVE MarksOwned'
  BY <1>37 DEF RecordLoaded
<1>38. ASSUME NEW t \in Threads, UnloadStarts(t) PROVE MarksOwned'
  BY <1>38 DEF UnloadStarts
<1>39. ASSUME NEW t \in Threads, UnloadNotLoaded(t) PROVE MarksOwned'
  BY <1>39 DEF UnloadNotLoaded
<1>40. ASSUME NEW t \in Threads, UnloadHasModule(t) PROVE MarksOwned'
  BY <1>40 DEF UnloadHasModule
<1>41. ASSUME NEW t \in Threads, UnloadNoEntry(t) PROVE MarksOwned'
  BY <1>41 DEF UnloadNoEntry
<1>42. ASSUME NEW t \in Threads, UnloadMark(t) PROVE MarksOwned'
  BY <1>42 DEF UnloadMark
<1>43. ASSUME NEW t \in Threads, UnloadTerminate(t) PROVE MarksOwned'
  BY <1>43 DEF UnloadTerminate
<1>44. ASSUME NEW t \in Threads, UnloadTerminateInProc(t) PROVE MarksOwned'
  BY <1>44 DEF UnloadTerminateInProc
<1>45. ASSUME NEW t \in Threads, UnloadDispatch(t) PROVE MarksOwned'
  BY <1>45 DEF UnloadDispatch
<1>46. ASSUME NEW t \in Threads, UnloadForget(t) PROVE MarksOwned'
  BY <1>46 DEF UnloadForget
<1>47. ASSUME NEW t \in Threads, UnloadConsume(t) PROVE MarksOwned'
  BY <1>47 DEF UnloadConsume
<1>48. ASSUME NEW t \in Threads, MarkAllLoadedExitsExpected(t) PROVE MarksOwned'
  BY <1>48 DEF MarkAllLoadedExitsExpected
<1>49. ASSUME NEW t \in Threads, TerminateAllContainers(t) PROVE MarksOwned'
  BY <1>49 DEF TerminateAllContainers
<1>50. ASSUME NEW t \in Threads, FleetDispatch(t) PROVE MarksOwned'
  BY <1>50 DEF FleetDispatch
<1>51. ASSUME NEW t \in Threads, ClearExpectedExits(t) PROVE MarksOwned'
  BY <1>51 DEF ClearExpectedExits
<1>52. ASSUME NEW t \in Threads, ClearLoaded(t) PROVE MarksOwned'
  BY <1>52 DEF ClearLoaded
<1>53. ASSUME NEW m \in Modules, ModuleExits(m) PROVE MarksOwned'
  BY <1>53 DEF ModuleExits
<1>54. ASSUME NEW m \in Modules, AsioReaps(m) PROVE MarksOwned'
  BY <1>54 DEF AsioReaps
<1>55. ASSUME AsioSettles PROVE MarksOwned'
  BY <1>55 DEF AsioSettles
<1>56. ASSUME AsioConsumes PROVE MarksOwned'
  BY <1>56 DEF AsioConsumes
<1>57. ASSUME AsioReportsCrash PROVE MarksOwned'
  BY <1>57 DEF AsioReportsCrash
<1>58. ASSUME Discover PROVE MarksOwned'
  BY <1>58 DEF Discover
<1>59. CASE UNCHANGED vars
  BY <1>59 DEF vars
<1> QED
  BY <1>1, <1>2, <1>3, <1>4, <1>5, <1>6, <1>7, <1>8, <1>9, <1>10, <1>11,
     <1>12, <1>13, <1>14, <1>15, <1>16, <1>17, <1>18, <1>19, <1>20, <1>21,
     <1>22, <1>23, <1>24, <1>25, <1>26, <1>27, <1>28, <1>29, <1>30, <1>31,
     <1>32, <1>33, <1>34, <1>35, <1>36, <1>37, <1>38, <1>39, <1>40, <1>41,
     <1>42, <1>43, <1>44, <1>45, <1>46, <1>47, <1>48, <1>49, <1>50, <1>51,
     <1>52, <1>53, <1>54, <1>55, <1>56, <1>57, <1>58, <1>59
  DEF Next, ThreadStep, AsioStep, Finished

\* A loaded module without a container entry is about to be marked unloaded,
\* by the asio thread or by the lock holder that terminated it.
LEMMA DeathStep == TypeOK /\ NamesBound /\ LocksHeld /\ AttemptTracked /\ DeathsOwned /\ [Next]_vars => DeathsOwned'
<1> SUFFICES ASSUME TypeOK, NamesBound, LocksHeld, AttemptTracked, DeathsOwned, [Next]_vars
             PROVE  DeathsOwned'
  OBVIOUS
<1> USE LifecycleAssumption
<1> USE DEF TypeOK, NamesBound, LocksHeld, AttemptTracked, DeathsOwned,
            HolderAt, OwnerAt, InsideFleet, AttemptSteps, SpanSteps,
            LoadSteps, UnloadSteps, FleetSteps, At, Goto, Record, Fail,
            Tolerated, callVars, threadVars, lockVars, tableVars, asioVars,
            boundVars, envVars
<1>1. ASSUME NEW t \in Threads, NEW o \in Ops, NEW m \in Modules, Call(t, o, m) PROVE DeathsOwned'
  BY <1>1 DEF Call
<1>2. ASSUME NEW m \in Modules, RestartFires(m) PROVE DeathsOwned'
  BY <1>2 DEF RestartFires
<1>3. ASSUME NEW m \in Modules, RestartUnknown(m) PROVE DeathsOwned'
  BY <1>3 DEF RestartUnknown
<1>4. ASSUME NEW m \in Modules, RestartRefused(m) PROVE DeathsOwned'
  BY <1>4 DEF RestartRefused
<1>5. ASSUME NEW t \in Threads, FleetShared(t) PROVE DeathsOwned'
  BY <1>5 DEF FleetShared
<1>6. ASSUME NEW t \in Threads, ResolveFails(t) PROVE DeathsOwned'
  BY <1>6 DEF ResolveFails
<1>7. ASSUME NEW t \in Threads, FleetExclusive(t) PROVE DeathsOwned'
  BY <1>7 DEF FleetExclusive, LockFleet
<1>8. ASSUME NEW t \in Threads, CascadeBegins(t) PROVE DeathsOwned'
  BY <1>8 DEF CascadeBegins, LockFleet
<1>9. ASSUME NEW t \in Threads, CascadeRefused(t) PROVE DeathsOwned'
  BY <1>9 DEF CascadeRefused, LockFleet
<1>10. ASSUME NEW t \in Threads, LoopEnds(t) PROVE DeathsOwned'
  BY <1>10 DEF LoopEnds
<1>11. ASSUME NEW t \in Threads, SkipModule(t) PROVE DeathsOwned'
  BY <1>11 DEF SkipModule
<1>12. ASSUME NEW t \in Threads, UnknownModule(t) PROVE DeathsOwned'
  BY <1>12 DEF UnknownModule
<1>13. ASSUME NEW t \in Threads, NextModule(t) PROVE DeathsOwned'
  BY <1>13 DEF NextModule
<1>14. ASSUME NEW t \in Threads, LockModule(t) PROVE DeathsOwned'
  BY <1>14 DEF LockModule
<1>15. ASSUME NEW t \in Threads, UnlockModule(t) PROVE DeathsOwned'
  BY <1>15 DEF UnlockModule
<1>16. ASSUME NEW t \in Threads, ReleaseFleet(t) PROVE DeathsOwned'
  BY <1>16 DEF ReleaseFleet
<1>17. ASSUME NEW t \in Threads, DispatchBatch(t) PROVE DeathsOwned'
  BY <1>17 DEF DispatchBatch
<1>18. ASSUME NEW t \in Threads, AlreadyLoaded(t) PROVE DeathsOwned'
  BY <1>18 DEF AlreadyLoaded
<1>19. ASSUME NEW t \in Threads, GateRefuses(t) PROVE DeathsOwned'
  BY <1>19 DEF GateRefuses
<1>20. ASSUME NEW t \in Threads, LoadStarts(t) PROVE DeathsOwned'
  BY <1>20 DEF LoadStarts
<1>21. ASSUME NEW t \in Threads, BeginLoadAttempt(t) PROVE DeathsOwned'
  BY <1>21 DEF BeginLoadAttempt
<1>22. ASSUME NEW t \in Threads, LockSpawn(t) PROVE DeathsOwned'
  BY <1>22 DEF LockSpawn
<1>23. ASSUME NEW t \in Threads, Launch(t) PROVE DeathsOwned'
  BY <1>23 DEF Launch
<1>24. ASSUME NEW t \in Threads, LaunchFails(t) PROVE DeathsOwned'
  BY <1>24 DEF LaunchFails
<1>25. ASSUME NEW t \in Threads, SendToken(t) PROVE DeathsOwned'
  BY <1>25 DEF SendToken
<1>26. ASSUME NEW t \in Threads, TokenFails(t) PROVE DeathsOwned'
  BY <1>26 DEF TokenFails
<1>27. ASSUME NEW t \in Threads, TokenFailedMark(t) PROVE DeathsOwned'
  BY <1>27 DEF TokenFailedMark
<1>28. ASSUME NEW t \in Threads, TokenFailedTerminate(t) PROVE DeathsOwned'
  BY <1>28 DEF TokenFailedTerminate, TerminateAttempt
<1>29. ASSUME NEW t \in Threads, TokenFailedConsume(t) PROVE DeathsOwned'
  BY <1>29 DEF TokenFailedConsume
<1>30. ASSUME NEW t \in Threads, AwaitLoad(t) PROVE DeathsOwned'
  BY <1>30 DEF AwaitLoad
<1>31. ASSUME NEW t \in Threads, VerdictFailed(t) PROVE DeathsOwned'
  BY <1>31 DEF VerdictFailed
<1>32. ASSUME NEW t \in Threads, VerdictFailedTerminate(t) PROVE DeathsOwned'
  BY <1>32 DEF VerdictFailedTerminate, TerminateAttempt
<1>33. ASSUME NEW t \in Threads, AbandonLoadAttempt(t) PROVE DeathsOwned'
  BY <1>33 DEF AbandonLoadAttempt
<1>34. ASSUME NEW t \in Threads, CommitLoad(t) PROVE DeathsOwned'
  BY <1>34 DEF CommitLoad
<1>35. ASSUME NEW t \in Threads, CommitRefused(t) PROVE DeathsOwned'
  BY <1>35 DEF CommitRefused
<1>36. ASSUME NEW t \in Threads, PublishLoad(t) PROVE DeathsOwned'
  BY <1>36 DEF PublishLoad
<1>37. ASSUME NEW t \in Threads, RecordLoaded(t) PROVE DeathsOwned'
  BY <1>37 DEF RecordLoaded
<1>38. ASSUME NEW t \in Threads, UnloadStarts(t) PROVE DeathsOwned'
  BY <1>38 DEF UnloadStarts
<1>39. ASSUME NEW t \in Threads, UnloadNotLoaded(t) PROVE DeathsOwned'
  BY <1>39 DEF UnloadNotLoaded
<1>40. ASSUME NEW t \in Threads, UnloadHasModule(t) PROVE DeathsOwned'
  BY <1>40 DEF UnloadHasModule
<1>41. ASSUME NEW t \in Threads, UnloadNoEntry(t) PROVE DeathsOwned'
  BY <1>41 DEF UnloadNoEntry
<1>42. ASSUME NEW t \in Threads, UnloadMark(t) PROVE DeathsOwned'
  BY <1>42 DEF UnloadMark
<1>43. ASSUME NEW t \in Threads, UnloadTerminate(t) PROVE DeathsOwned'
  BY <1>43 DEF UnloadTerminate
<1>44. ASSUME NEW t \in Threads, UnloadTerminateInProc(t) PROVE DeathsOwned'
  BY <1>44 DEF UnloadTerminateInProc
<1>45. ASSUME NEW t \in Threads, UnloadDispatch(t) PROVE DeathsOwned'
  BY <1>45 DEF UnloadDispatch
<1>46. ASSUME NEW t \in Threads, UnloadForget(t) PROVE DeathsOwned'
  BY <1>46 DEF UnloadForget
<1>47. ASSUME NEW t \in Threads, UnloadConsume(t) PROVE DeathsOwned'
  BY <1>47 DEF UnloadConsume
<1>48. ASSUME NEW t \in Threads, MarkAllLoadedExitsExpected(t) PROVE DeathsOwned'
  BY <1>48 DEF MarkAllLoadedExitsExpected
<1>49. ASSUME NEW t \in Threads, TerminateAllContainers(t) PROVE DeathsOwned'
  BY <1>49 DEF TerminateAllContainers
<1>50. ASSUME NEW t \in Threads, FleetDispatch(t) PROVE DeathsOwned'
  BY <1>50 DEF FleetDispatch
<1>51. ASSUME NEW t \in Threads, ClearExpectedExits(t) PROVE DeathsOwned'
  BY <1>51 DEF ClearExpectedExits
<1>52. ASSUME NEW t \in Threads, ClearLoaded(t) PROVE DeathsOwned'
  BY <1>52 DEF ClearLoaded
<1>53. ASSUME NEW m \in Modules, ModuleExits(m) PROVE DeathsOwned'
  BY <1>53 DEF ModuleExits
<1>54. ASSUME NEW m \in Modules, AsioReaps(m) PROVE DeathsOwned'
  BY <1>54 DEF AsioReaps
<1>55. ASSUME AsioSettles PROVE DeathsOwned'
  BY <1>55 DEF AsioSettles
<1>56. ASSUME AsioConsumes PROVE DeathsOwned'
  BY <1>56 DEF AsioConsumes
<1>57. ASSUME AsioReportsCrash PROVE DeathsOwned'
  BY <1>57 DEF AsioReportsCrash
<1>58. ASSUME Discover PROVE DeathsOwned'
  BY <1>58 DEF Discover
<1>59. CASE UNCHANGED vars
  BY <1>59 DEF vars
<1> QED
  BY <1>1, <1>2, <1>3, <1>4, <1>5, <1>6, <1>7, <1>8, <1>9, <1>10, <1>11,
     <1>12, <1>13, <1>14, <1>15, <1>16, <1>17, <1>18, <1>19, <1>20, <1>21,
     <1>22, <1>23, <1>24, <1>25, <1>26, <1>27, <1>28, <1>29, <1>30, <1>31,
     <1>32, <1>33, <1>34, <1>35, <1>36, <1>37, <1>38, <1>39, <1>40, <1>41,
     <1>42, <1>43, <1>44, <1>45, <1>46, <1>47, <1>48, <1>49, <1>50, <1>51,
     <1>52, <1>53, <1>54, <1>55, <1>56, <1>57, <1>58, <1>59
  DEF Next, ThreadStep, AsioStep, Finished

\* Init establishes the inductive invariant and every step keeps it.
THEOREM InductiveInvariant == Spec => []IInv
<1>1. Init => IInv
  BY InitIInv
<1>2. IInv /\ [Next]_vars => IInv'
  BY TypeStep, NamesStep, LocksStep, AttemptStep, FlightStep, MarkStep, DeathStep
  DEF IInv
<1> QED
  BY <1>1, <1>2, PTL DEF Spec

\* Type correctness of the state of module_manager.cpp.
THEOREM TypeCorrect == Spec => []TypeOK
<1>1. IInv => TypeOK
  BY DEF IInv
<1> QED
  BY <1>1, InductiveInvariant, PTL

\* commitLoad and recordTerminationDuringLoad lose no death: a module marked
\* loaded has a container entry, or somebody is about to clear the mark.
THEOREM NoDeathIsLost == Spec => []NoLostDeath
<1>1. IInv => NoLostDeath
  <2> SUFFICES ASSUME IInv, NEW m \in loaded
               PROVE  \/ proc[m] # "none"
                      \/ asioPc = "settle" /\ asioMod = m
                      \/ \E t \in Threads : pc[t] = "UForget" /\ cur[t] = m
                      \/ \E t \in Threads : pc[t] \in {"ADispatch", "AClear", "AForget"}
    BY DEF NoLostDeath
  <2> QED
    BY DEF IInv, DeathsOwned, HolderAt, OwnerAt
<1> QED
  BY <1>1, InductiveInvariant, PTL

\* markExitExpected never outlives its teardown: whoever set a mark has not
\* returned while it stands.
THEOREM MarksAreScoped == Spec => []MarksScoped
<1>1. IInv => MarksScoped
  BY DEF IInv, MarksScoped, MarksOwned, HolderAt, OwnerAt
<1> QED
  BY <1>1, InductiveInvariant, PTL

\* beginLoadAttempt never leaks: an entry of inFlightLoads() has its attempt.
THEOREM AttemptsAreScoped == Spec => []AttemptsScoped
<1>1. IInv => AttemptsScoped
  BY DEF IInv, AttemptsScoped, AttemptsOwned, HolderAt
<1> QED
  BY <1>1, InductiveInvariant, PTL

\* Two threads never load one module at once, and neither loads a module that
\* is up (moduleMutex and the check under it).
THEOREM LoadsAreExclusive == Spec => []OneLoadPerModule
<1>1. IInv => OneLoadPerModule
  <2> SUFFICES ASSUME IInv, NEW t \in Threads, pc[t] \in AttemptSteps
               PROVE  /\ cur[t] \notin loaded
                      /\ \A u \in Threads :
                            pc[u] \in AttemptSteps /\ cur[u] = cur[t] => u = t
    BY DEF OneLoadPerModule
  <2>1. cur[t] \notin loaded
    BY DEF IInv, AttemptTracked
  <2>2. ASSUME NEW u \in Threads, pc[u] \in AttemptSteps, cur[u] = cur[t]
        PROVE  u = t
    <3>1. pc[t] \in SpanSteps /\ pc[u] \in SpanSteps
      BY <2>2 DEF AttemptSteps, SpanSteps, LoadSteps
    <3> QED
      BY <2>2, <3>1 DEF IInv, LocksHeld
  <2> QED
    BY <2>1, <2>2
<1> QED
  BY <1>1, InductiveInvariant, PTL

\* fleetMutex keeps every other thread outside while a cascade, terminateAll
\* or clear runs.
THEOREM FleetIsExclusive == Spec => []FleetExclusion
<1>1. IInv => FleetExclusion
  <2> SUFFICES ASSUME IInv, NEW t \in Threads, NEW u \in Threads,
                      t # u, fleetOwner = t
               PROVE  pc[u] \in {"Idle", "Fleet", "Dispatch"}
    BY DEF FleetExclusion
  <2>1. pc[u] \notin InsideFleet
    BY LifecycleAssumption DEF IInv, LocksHeld
  <2>2. pc[u] \in Steps
    BY DEF IInv, TypeOK
  <2> QED
    BY <2>1, <2>2 DEF Steps, InsideFleet
<1> QED
  BY <1>1, InductiveInvariant, PTL

-----------------------------------------------------------------------------
(* The refinement of ModuleContract.                                       *)

\* The function that stands for the contract's status.
Statuses == [m \in Modules |-> StatusOf(m)]

\* What ModuleContract lets one module do in a step of its own.
ContractMoves ==
    {<<"down", "starting">>, <<"starting", "up">>, <<"starting", "lost">>,
     <<"starting", "down">>, <<"up", "lost">>, <<"lost", "down">>, <<"up", "down">>}

\* A module's status is read off the registry, the attempts and the container.
LEMMA StatusCases ==
    \A m : /\ m \in loaded /\ proc[m] = "running" => StatusOf(m) = "up"
           /\ m \in loaded /\ proc[m] # "running" => StatusOf(m) = "lost"
           /\ m \notin loaded /\ inFlight[m] # "none" => StatusOf(m) = "starting"
           /\ m \notin loaded /\ inFlight[m] = "none" => StatusOf(m) = "down"
  BY DEF StatusOf

\* The same, after a step.
LEMMA StatusCasesNext ==
    \A m : /\ m \in loaded' /\ proc'[m] = "running" => StatusOf(m)' = "up"
           /\ m \in loaded' /\ proc'[m] # "running" => StatusOf(m)' = "lost"
           /\ m \notin loaded' /\ inFlight'[m] # "none" => StatusOf(m)' = "starting"
           /\ m \notin loaded' /\ inFlight'[m] = "none" => StatusOf(m)' = "down"
  BY DEF StatusOf

\* A step that touches one module and moves it the contract's way is a step of
\* the contract, or one it does not see.
LEMMA OneModuleMoves ==
    ASSUME NEW n \in Modules,
           \A m \in Modules \ {n} : StatusOf(m)' = StatusOf(m),
           StatusOf(n)' = StatusOf(n) \/ <<StatusOf(n), StatusOf(n)'>> \in ContractMoves
    PROVE  [Contract!Next]_Statuses
<1>1. CASE StatusOf(n)' = StatusOf(n)
  BY <1>1 DEF Statuses
<1>2. CASE <<StatusOf(n), StatusOf(n)'>> \in ContractMoves
  <2>1. Statuses' = [Statuses EXCEPT ![n] = StatusOf(n)']
    BY DEF Statuses
  <2>2. Statuses[n] = StatusOf(n)
    BY DEF Statuses
  <2>3. \/ Contract!Begin(n) \/ Contract!Commit(n) \/ Contract!Fail(n)
        \/ Contract!Stop(n) \/ Contract!Notice(n) \/ Contract!Unload(n)
    BY <1>2, <2>1, <2>2 DEF ContractMoves, Statuses, Contract!Begin, Contract!Commit,
       Contract!Fail, Contract!Stop, Contract!Notice, Contract!Unload, Contract!Moves
  <2> QED
    BY <2>3 DEF Contract!Next
<1> QED
  BY <1>1, <1>2

\* A step that leaves the registry, the attempts and the container alone is
\* one the contract does not see.
LEMMA NoModuleMoves ==
    UNCHANGED <<loaded, proc, inFlight>> => UNCHANGED Statuses
  BY DEF Statuses, StatusOf

\* The exclusive owner of the fleet lock finds no attempt open.
LEMMA FleetFindsNoAttempt ==
    ASSUME IInv, NEW t \in Threads, pc[t] \in FleetSteps
    PROVE  \A m \in Modules : inFlight[m] = "none"
<1> SUFFICES ASSUME NEW m \in Modules, inFlight[m] # "none" PROVE FALSE
  OBVIOUS
<1>1. HolderAt(m, AttemptSteps)
  BY DEF IInv, AttemptsOwned
<1>2. PICK u \in Threads : pc[u] \in AttemptSteps
  BY <1>1 DEF HolderAt
<1>3. u # t /\ pc[u] \in InsideFleet
  BY <1>2 DEF AttemptSteps, InsideFleet, SpanSteps, LoadSteps, UnloadSteps, FleetSteps
<1> QED
  BY <1>3, LifecycleAssumption DEF IInv, LocksHeld

\* A thread that holds the lock of its module outside an attempt finds none open.
LEMMA SpanFindsNoAttempt ==
    ASSUME IInv, NEW t \in Threads, pc[t] \in SpanSteps, pc[t] \notin AttemptSteps
    PROVE  inFlight[cur[t]] = "none"
  BY DEF IInv, NamesBound, LocksHeld, AttemptsOwned, HolderAt

\* A module with an attempt open is not listed as loaded.
LEMMA AttemptMeansDown ==
    ASSUME IInv, NEW m \in Modules, inFlight[m] # "none"
    PROVE  m \notin loaded
<1>1. PICK u \in Threads : cur[u] = m /\ pc[u] \in AttemptSteps
  BY DEF IInv, AttemptsOwned, HolderAt
<1> QED
  BY <1>1 DEF IInv, AttemptTracked

\* A fleet-wide step moves modules down only.
LEMMA FleetMoves ==
    ASSUME \A m \in Modules : inFlight[m] = "none",
           inFlight' = inFlight, loaded' \subseteq loaded,
           \A m \in Modules : proc'[m] = proc[m] \/ proc'[m] = "none"
    PROVE  [Contract!Next]_Statuses
<1>1. \A m \in Modules : StatusOf(m) # "starting"
  BY StatusCases
<1>2. \A m \in Modules : StatusOf(m)' \in {"up", "lost", "down"}
  BY StatusCasesNext
<1>3. \A m \in Modules : \/ StatusOf(m)' = StatusOf(m)
                         \/ <<StatusOf(m), StatusOf(m)'>> \in
                              {<<"up", "lost">>, <<"up", "down">>, <<"lost", "down">>}
  BY StatusCases, StatusCasesNext
<1>4. Contract!Fleet
  BY <1>1, <1>2, <1>3 DEF Contract!Fleet, Contract!TeardownMoves, Contract!States
<1> QED
  BY <1>4 DEF Contract!Next

\* Every step of the manager, the container and its callbacks is a step of the
\* contract or one it does not see.
LEMMA ContractStep == IInv /\ [Next]_vars => [Contract!Next]_Statuses
<1> SUFFICES ASSUME IInv, [Next]_vars
             PROVE  [Contract!Next]_Statuses
  OBVIOUS
<1> USE LifecycleAssumption
<1>t. TypeOK
  BY DEF IInv
<1> USE <1>t
<1> USE DEF callVars, threadVars, lockVars, tableVars, asioVars, boundVars,
            envVars
<1>1. ASSUME NEW t \in Threads, NEW o \in Ops, NEW m \in Modules, Call(t, o, m) PROVE [Contract!Next]_Statuses
  BY <1>1, NoModuleMoves DEF Call
<1>2. ASSUME NEW m \in Modules, RestartFires(m) PROVE [Contract!Next]_Statuses
  BY <1>2, NoModuleMoves DEF RestartFires
<1>3. ASSUME NEW m \in Modules, RestartUnknown(m) PROVE [Contract!Next]_Statuses
  BY <1>3, NoModuleMoves DEF RestartUnknown
<1>4. ASSUME NEW m \in Modules, RestartRefused(m) PROVE [Contract!Next]_Statuses
  BY <1>4, NoModuleMoves DEF RestartRefused
<1>5. ASSUME NEW t \in Threads, FleetShared(t) PROVE [Contract!Next]_Statuses
  BY <1>5, NoModuleMoves DEF FleetShared
<1>6. ASSUME NEW t \in Threads, ResolveFails(t) PROVE [Contract!Next]_Statuses
  BY <1>6, NoModuleMoves DEF ResolveFails
<1>7. ASSUME NEW t \in Threads, FleetExclusive(t) PROVE [Contract!Next]_Statuses
  BY <1>7, NoModuleMoves DEF FleetExclusive, LockFleet
<1>8. ASSUME NEW t \in Threads, CascadeBegins(t) PROVE [Contract!Next]_Statuses
  BY <1>8, NoModuleMoves DEF CascadeBegins, LockFleet
<1>9. ASSUME NEW t \in Threads, CascadeRefused(t) PROVE [Contract!Next]_Statuses
  BY <1>9, NoModuleMoves DEF CascadeRefused, LockFleet
<1>10. ASSUME NEW t \in Threads, LoopEnds(t) PROVE [Contract!Next]_Statuses
  BY <1>10, NoModuleMoves DEF LoopEnds
<1>11. ASSUME NEW t \in Threads, SkipModule(t) PROVE [Contract!Next]_Statuses
  BY <1>11, NoModuleMoves DEF SkipModule
<1>12. ASSUME NEW t \in Threads, UnknownModule(t) PROVE [Contract!Next]_Statuses
  BY <1>12, NoModuleMoves DEF UnknownModule
<1>13. ASSUME NEW t \in Threads, NextModule(t) PROVE [Contract!Next]_Statuses
  BY <1>13, NoModuleMoves DEF NextModule
<1>14. ASSUME NEW t \in Threads, LockModule(t) PROVE [Contract!Next]_Statuses
  BY <1>14, NoModuleMoves DEF LockModule
<1>15. ASSUME NEW t \in Threads, UnlockModule(t) PROVE [Contract!Next]_Statuses
  BY <1>15, NoModuleMoves DEF UnlockModule
<1>16. ASSUME NEW t \in Threads, ReleaseFleet(t) PROVE [Contract!Next]_Statuses
  BY <1>16, NoModuleMoves DEF ReleaseFleet
<1>17. ASSUME NEW t \in Threads, DispatchBatch(t) PROVE [Contract!Next]_Statuses
  BY <1>17, NoModuleMoves DEF DispatchBatch
<1>18. ASSUME NEW t \in Threads, AlreadyLoaded(t) PROVE [Contract!Next]_Statuses
  BY <1>18, NoModuleMoves DEF AlreadyLoaded
<1>19. ASSUME NEW t \in Threads, GateRefuses(t) PROVE [Contract!Next]_Statuses
  BY <1>19, NoModuleMoves DEF GateRefuses
<1>20. ASSUME NEW t \in Threads, LoadStarts(t) PROVE [Contract!Next]_Statuses
  BY <1>20, NoModuleMoves DEF LoadStarts
<1>21. ASSUME NEW t \in Threads, BeginLoadAttempt(t) PROVE [Contract!Next]_Statuses
  <2>1. PICK n \in Modules : n = cur[t] /\ n \notin loaded
    BY <1>21 DEF BeginLoadAttempt, At, IInv, NamesBound, AttemptTracked, SpanSteps, LoadSteps
  <2>2. \A m \in Modules \ {n} : StatusOf(m)' = StatusOf(m)
    BY <1>21, <2>1 DEF BeginLoadAttempt, At, StatusOf, TypeOK
  <2>3. StatusOf(n)' = StatusOf(n) \/ <<StatusOf(n), StatusOf(n)'>> \in ContractMoves
    BY <1>21, <2>1, StatusCases, StatusCasesNext DEF BeginLoadAttempt, At, ContractMoves, TypeOK
  <2> QED
    BY <2>2, <2>3, OneModuleMoves
<1>22. ASSUME NEW t \in Threads, LockSpawn(t) PROVE [Contract!Next]_Statuses
  BY <1>22, NoModuleMoves DEF LockSpawn
<1>23. ASSUME NEW t \in Threads, Launch(t) PROVE [Contract!Next]_Statuses
  <2>1. PICK n \in Modules : n = cur[t] /\ n \notin loaded /\ inFlight[n] # "none"
    BY <1>23 DEF Launch, At, IInv, NamesBound, AttemptTracked, AttemptSteps, SpanSteps, LoadSteps
  <2>2. \A m \in Modules \ {n} : StatusOf(m)' = StatusOf(m)
    BY <1>23, <2>1 DEF Launch, At, StatusOf, TypeOK
  <2>3. StatusOf(n)' = StatusOf(n) \/ <<StatusOf(n), StatusOf(n)'>> \in ContractMoves
    BY <1>23, <2>1, StatusCases, StatusCasesNext DEF Launch, At, ContractMoves, TypeOK
  <2> QED
    BY <2>2, <2>3, OneModuleMoves
<1>24. ASSUME NEW t \in Threads, LaunchFails(t) PROVE [Contract!Next]_Statuses
  BY <1>24, NoModuleMoves DEF LaunchFails
<1>25. ASSUME NEW t \in Threads, SendToken(t) PROVE [Contract!Next]_Statuses
  BY <1>25, NoModuleMoves DEF SendToken
<1>26. ASSUME NEW t \in Threads, TokenFails(t) PROVE [Contract!Next]_Statuses
  BY <1>26, NoModuleMoves DEF TokenFails
<1>27. ASSUME NEW t \in Threads, TokenFailedMark(t) PROVE [Contract!Next]_Statuses
  BY <1>27, NoModuleMoves DEF TokenFailedMark
<1>28. ASSUME NEW t \in Threads, TokenFailedTerminate(t) PROVE [Contract!Next]_Statuses
  <2>1. PICK n \in Modules : n = cur[t] /\ n \notin loaded /\ inFlight[n] # "none"
    BY <1>28 DEF TokenFailedTerminate, TerminateAttempt, At, IInv, NamesBound, AttemptTracked, AttemptSteps, SpanSteps, LoadSteps
  <2>2. \A m \in Modules \ {n} : StatusOf(m)' = StatusOf(m)
    BY <1>28, <2>1 DEF TokenFailedTerminate, TerminateAttempt, At, StatusOf, TypeOK
  <2>3. StatusOf(n)' = StatusOf(n) \/ <<StatusOf(n), StatusOf(n)'>> \in ContractMoves
    BY <1>28, <2>1, StatusCases, StatusCasesNext DEF TokenFailedTerminate, TerminateAttempt, At, ContractMoves, TypeOK
  <2> QED
    BY <2>2, <2>3, OneModuleMoves
<1>29. ASSUME NEW t \in Threads, TokenFailedConsume(t) PROVE [Contract!Next]_Statuses
  BY <1>29, NoModuleMoves DEF TokenFailedConsume
<1>30. ASSUME NEW t \in Threads, AwaitLoad(t) PROVE [Contract!Next]_Statuses
  BY <1>30, NoModuleMoves DEF AwaitLoad
<1>31. ASSUME NEW t \in Threads, VerdictFailed(t) PROVE [Contract!Next]_Statuses
  BY <1>31, NoModuleMoves DEF VerdictFailed
<1>32. ASSUME NEW t \in Threads, VerdictFailedTerminate(t) PROVE [Contract!Next]_Statuses
  <2>1. PICK n \in Modules : n = cur[t] /\ n \notin loaded /\ inFlight[n] # "none"
    BY <1>32 DEF VerdictFailedTerminate, TerminateAttempt, At, IInv, NamesBound, AttemptTracked, AttemptSteps, SpanSteps, LoadSteps
  <2>2. \A m \in Modules \ {n} : StatusOf(m)' = StatusOf(m)
    BY <1>32, <2>1 DEF VerdictFailedTerminate, TerminateAttempt, At, StatusOf, TypeOK
  <2>3. StatusOf(n)' = StatusOf(n) \/ <<StatusOf(n), StatusOf(n)'>> \in ContractMoves
    BY <1>32, <2>1, StatusCases, StatusCasesNext DEF VerdictFailedTerminate, TerminateAttempt, At, ContractMoves, TypeOK
  <2> QED
    BY <2>2, <2>3, OneModuleMoves
<1>33. ASSUME NEW t \in Threads, AbandonLoadAttempt(t) PROVE [Contract!Next]_Statuses
  <2>1. PICK n \in Modules : n = cur[t] /\ n \notin loaded /\ inFlight[n] # "none"
    BY <1>33 DEF AbandonLoadAttempt, At, IInv, NamesBound, AttemptTracked, AttemptSteps, SpanSteps, LoadSteps
  <2>2. \A m \in Modules \ {n} : StatusOf(m)' = StatusOf(m)
    BY <1>33, <2>1 DEF AbandonLoadAttempt, At, StatusOf, TypeOK
  <2>3. StatusOf(n)' = StatusOf(n) \/ <<StatusOf(n), StatusOf(n)'>> \in ContractMoves
    BY <1>33, <2>1, StatusCases, StatusCasesNext DEF AbandonLoadAttempt, At, ContractMoves, TypeOK
  <2> QED
    BY <2>2, <2>3, OneModuleMoves
<1>34. ASSUME NEW t \in Threads, CommitLoad(t) PROVE [Contract!Next]_Statuses
  <2>1. PICK n \in Modules : n = cur[t] /\ n \notin loaded /\ inFlight[n] # "none"
    BY <1>34 DEF CommitLoad, At, IInv, NamesBound, AttemptTracked, AttemptSteps, SpanSteps, LoadSteps
  <2>2. \A m \in Modules \ {n} : StatusOf(m)' = StatusOf(m)
    BY <1>34, <2>1 DEF CommitLoad, At, StatusOf, TypeOK
  <2>3. StatusOf(n)' = StatusOf(n) \/ <<StatusOf(n), StatusOf(n)'>> \in ContractMoves
    BY <1>34, <2>1, StatusCases, StatusCasesNext DEF CommitLoad, At, ContractMoves, TypeOK
  <2> QED
    BY <2>2, <2>3, OneModuleMoves
<1>35. ASSUME NEW t \in Threads, CommitRefused(t) PROVE [Contract!Next]_Statuses
  <2>1. PICK n \in Modules : n = cur[t] /\ n \notin loaded /\ inFlight[n] # "none"
    BY <1>35 DEF CommitRefused, At, IInv, NamesBound, AttemptTracked, AttemptSteps, SpanSteps, LoadSteps
  <2>2. \A m \in Modules \ {n} : StatusOf(m)' = StatusOf(m)
    BY <1>35, <2>1 DEF CommitRefused, At, StatusOf, TypeOK
  <2>3. StatusOf(n)' = StatusOf(n) \/ <<StatusOf(n), StatusOf(n)'>> \in ContractMoves
    BY <1>35, <2>1, StatusCases, StatusCasesNext DEF CommitRefused, At, ContractMoves, TypeOK
  <2> QED
    BY <2>2, <2>3, OneModuleMoves
<1>36. ASSUME NEW t \in Threads, PublishLoad(t) PROVE [Contract!Next]_Statuses
  BY <1>36, NoModuleMoves DEF PublishLoad
<1>37. ASSUME NEW t \in Threads, RecordLoaded(t) PROVE [Contract!Next]_Statuses
  BY <1>37, NoModuleMoves DEF RecordLoaded
<1>38. ASSUME NEW t \in Threads, UnloadStarts(t) PROVE [Contract!Next]_Statuses
  BY <1>38, NoModuleMoves DEF UnloadStarts
<1>39. ASSUME NEW t \in Threads, UnloadNotLoaded(t) PROVE [Contract!Next]_Statuses
  BY <1>39, NoModuleMoves DEF UnloadNotLoaded
<1>40. ASSUME NEW t \in Threads, UnloadHasModule(t) PROVE [Contract!Next]_Statuses
  BY <1>40, NoModuleMoves DEF UnloadHasModule
<1>41. ASSUME NEW t \in Threads, UnloadNoEntry(t) PROVE [Contract!Next]_Statuses
  BY <1>41, NoModuleMoves DEF UnloadNoEntry
<1>42. ASSUME NEW t \in Threads, UnloadMark(t) PROVE [Contract!Next]_Statuses
  BY <1>42, NoModuleMoves DEF UnloadMark
<1>43. ASSUME NEW t \in Threads, UnloadTerminate(t) PROVE [Contract!Next]_Statuses
  <2>1. PICK n \in Modules : n = cur[t] /\ inFlight[n] = "none"
    BY <1>43, SpanFindsNoAttempt DEF UnloadTerminate, At, IInv, NamesBound, SpanSteps, UnloadSteps, AttemptSteps
  <2>2. \A m \in Modules \ {n} : StatusOf(m)' = StatusOf(m)
    BY <1>43, <2>1 DEF UnloadTerminate, At, StatusOf, TypeOK
  <2>3. StatusOf(n)' = StatusOf(n) \/ <<StatusOf(n), StatusOf(n)'>> \in ContractMoves
    BY <1>43, <2>1, StatusCases, StatusCasesNext DEF UnloadTerminate, At, ContractMoves, TypeOK
  <2> QED
    BY <2>2, <2>3, OneModuleMoves
<1>44. ASSUME NEW t \in Threads, UnloadTerminateInProc(t) PROVE [Contract!Next]_Statuses
  <2>1. PICK n \in Modules : n = cur[t] /\ inFlight[n] = "none"
    BY <1>44, SpanFindsNoAttempt DEF UnloadTerminateInProc, At, IInv, NamesBound, SpanSteps, UnloadSteps, AttemptSteps
  <2>2. \A m \in Modules \ {n} : StatusOf(m)' = StatusOf(m)
    BY <1>44, <2>1 DEF UnloadTerminateInProc, At, StatusOf, TypeOK
  <2>3. StatusOf(n)' = StatusOf(n) \/ <<StatusOf(n), StatusOf(n)'>> \in ContractMoves
    BY <1>44, <2>1, StatusCases, StatusCasesNext DEF UnloadTerminateInProc, At, ContractMoves, TypeOK
  <2> QED
    BY <2>2, <2>3, OneModuleMoves
<1>45. ASSUME NEW t \in Threads, UnloadDispatch(t) PROVE [Contract!Next]_Statuses
  BY <1>45, NoModuleMoves DEF UnloadDispatch
<1>46. ASSUME NEW t \in Threads, UnloadForget(t) PROVE [Contract!Next]_Statuses
  <2>1. PICK n \in Modules : n = cur[t] /\ inFlight[n] = "none"
    BY <1>46, SpanFindsNoAttempt DEF UnloadForget, At, IInv, NamesBound, SpanSteps, UnloadSteps, AttemptSteps
  <2>2. \A m \in Modules \ {n} : StatusOf(m)' = StatusOf(m)
    BY <1>46, <2>1 DEF UnloadForget, At, StatusOf, TypeOK
  <2>3. StatusOf(n)' = StatusOf(n) \/ <<StatusOf(n), StatusOf(n)'>> \in ContractMoves
    BY <1>46, <2>1, StatusCases, StatusCasesNext DEF UnloadForget, At, ContractMoves, TypeOK
  <2> QED
    BY <2>2, <2>3, OneModuleMoves
<1>47. ASSUME NEW t \in Threads, UnloadConsume(t) PROVE [Contract!Next]_Statuses
  BY <1>47, NoModuleMoves DEF UnloadConsume
<1>48. ASSUME NEW t \in Threads, MarkAllLoadedExitsExpected(t) PROVE [Contract!Next]_Statuses
  BY <1>48, NoModuleMoves DEF MarkAllLoadedExitsExpected
<1>49. ASSUME NEW t \in Threads, TerminateAllContainers(t) PROVE [Contract!Next]_Statuses
  <2>1. \A m \in Modules : inFlight[m] = "none"
    BY <1>49, FleetFindsNoAttempt DEF TerminateAllContainers, At, FleetSteps
  <2>2. /\ inFlight' = inFlight /\ loaded' \subseteq loaded
        /\ \A m \in Modules : proc'[m] = proc[m] \/ proc'[m] = "none"
    BY <1>49 DEF TerminateAllContainers
  <2> QED
    BY <2>1, <2>2, FleetMoves
<1>50. ASSUME NEW t \in Threads, FleetDispatch(t) PROVE [Contract!Next]_Statuses
  BY <1>50, NoModuleMoves DEF FleetDispatch
<1>51. ASSUME NEW t \in Threads, ClearExpectedExits(t) PROVE [Contract!Next]_Statuses
  BY <1>51, NoModuleMoves DEF ClearExpectedExits
<1>52. ASSUME NEW t \in Threads, ClearLoaded(t) PROVE [Contract!Next]_Statuses
  <2>1. \A m \in Modules : inFlight[m] = "none"
    BY <1>52, FleetFindsNoAttempt DEF ClearLoaded, At, FleetSteps
  <2>2. /\ inFlight' = inFlight /\ loaded' \subseteq loaded
        /\ \A m \in Modules : proc'[m] = proc[m] \/ proc'[m] = "none"
    BY <1>52 DEF ClearLoaded
  <2> QED
    BY <2>1, <2>2, FleetMoves
<1>53. ASSUME NEW m \in Modules, ModuleExits(m) PROVE [Contract!Next]_Statuses
  <2>1. PICK n \in Modules : n = m
    OBVIOUS
  <2>2. \A k \in Modules \ {n} : StatusOf(k)' = StatusOf(k)
    BY <1>53, <2>1 DEF ModuleExits, At, StatusOf, TypeOK
  <2>3. StatusOf(n)' = StatusOf(n) \/ <<StatusOf(n), StatusOf(n)'>> \in ContractMoves
    BY <1>53, <2>1, StatusCases, StatusCasesNext DEF ModuleExits, At, ContractMoves, TypeOK
  <2> QED
    BY <2>2, <2>3, OneModuleMoves
<1>54. ASSUME NEW m \in Modules, AsioReaps(m) PROVE [Contract!Next]_Statuses
  <2>1. PICK n \in Modules : n = m
    OBVIOUS
  <2>2. \A k \in Modules \ {n} : StatusOf(k)' = StatusOf(k)
    BY <1>54, <2>1 DEF AsioReaps, At, StatusOf, TypeOK
  <2>3. StatusOf(n)' = StatusOf(n) \/ <<StatusOf(n), StatusOf(n)'>> \in ContractMoves
    BY <1>54, <2>1, StatusCases, StatusCasesNext DEF AsioReaps, At, ContractMoves, TypeOK
  <2> QED
    BY <2>2, <2>3, OneModuleMoves
<1>55. ASSUME AsioSettles PROVE [Contract!Next]_Statuses
  <2>0. asioMod \in Modules
    BY <1>55 DEF AsioSettles, IInv, NamesBound
  <2>1. PICK n \in Modules : n = asioMod /\ (inFlight[n] # "none" => n \notin loaded)
    BY <2>0, AttemptMeansDown
  <2>2. \A m \in Modules \ {n} : StatusOf(m)' = StatusOf(m)
    BY <1>55, <2>1 DEF AsioSettles, At, StatusOf, TypeOK
  <2>3. StatusOf(n)' = StatusOf(n) \/ <<StatusOf(n), StatusOf(n)'>> \in ContractMoves
    BY <1>55, <2>1, StatusCases, StatusCasesNext DEF AsioSettles, At, ContractMoves, TypeOK
  <2> QED
    BY <2>2, <2>3, OneModuleMoves
<1>56. ASSUME AsioConsumes PROVE [Contract!Next]_Statuses
  BY <1>56, NoModuleMoves DEF AsioConsumes
<1>57. ASSUME AsioReportsCrash PROVE [Contract!Next]_Statuses
  BY <1>57, NoModuleMoves DEF AsioReportsCrash
<1>58. ASSUME Discover PROVE [Contract!Next]_Statuses
  BY <1>58, NoModuleMoves DEF Discover
<1>59. CASE UNCHANGED vars
  BY <1>59, NoModuleMoves DEF vars
<1> QED
  BY <1>1, <1>2, <1>3, <1>4, <1>5, <1>6, <1>7, <1>8, <1>9, <1>10, <1>11,
     <1>12, <1>13, <1>14, <1>15, <1>16, <1>17, <1>18, <1>19, <1>20, <1>21,
     <1>22, <1>23, <1>24, <1>25, <1>26, <1>27, <1>28, <1>29, <1>30, <1>31,
     <1>32, <1>33, <1>34, <1>35, <1>36, <1>37, <1>38, <1>39, <1>40, <1>41,
     <1>42, <1>43, <1>44, <1>45, <1>46, <1>47, <1>48, <1>49, <1>50, <1>51,
     <1>52, <1>53, <1>54, <1>55, <1>56, <1>57, <1>58, <1>59
  DEF Next, ThreadStep, AsioStep, Finished

\* The lifecycle implements ModuleContract: a module comes up only through one
\* attempt begun while it was down, and goes down only the contract's way
\* (loadModuleInternal, unloadModuleInternal, terminateAll, onTerminated).
THEOREM LifecycleImplementsContract == Spec => ImplementsContract
<1>1. Init => Contract!Init
  BY StatusCases DEF Init, Contract!Init, TypeOK
<1>2. IInv /\ [Next]_vars => [Contract!Next]_Statuses
  BY ContractStep
<1> QED
  BY <1>1, <1>2, InductiveInvariant, PTL DEF Spec, ImplementsContract, Contract!Spec, Statuses

-----------------------------------------------------------------------------
(* The cascade.                                                            *)
(*                                                                         *)
(* Neither cascade property says anything about the modules the loop has   *)
(* passed. The invariant does: todo is what is left of TeardownOrder, the  *)
(* members passed are gone, and unlisted too while nothing has failed. It  *)
(* lasts because the fleet lock keeps every load out of the span.          *)

\* What the cascade of t walks, and how many members its loop has taken.
Order(t) == TeardownOrder[target[t]]
Passed(t) == Len(Order(t)) - Len(todo[t])

\* Nothing of m runs, or nobody calls it loaded.
Gone(m) == m \notin loaded \/ proc[m] = "none"

\* Steps at which the member last taken is still up, and still listed.
StillUp == {"Lock", "UCheck", "UHas", "UMark", "UTerm"}
StillListed == StillUp \cup {"UDispatch", "UForget"}

\* The loop of t, against the order it walks.
Walked(t) ==
    /\ Passed(t) \in Nat
    /\ \A i \in 1..Len(todo[t]) : todo[t][i] = Order(t)[Passed(t) + i]
    /\ pc[t] \in SpanSteps \cup {"Lock"} =>
          Passed(t) > 0 /\ cur[t] = Order(t)[Passed(t)]
    /\ \A i \in 1..Passed(t) :
          /\ Gone(Order(t)[i]) \/ (i = Passed(t) /\ pc[t] \in StillUp)
          /\ ok[t] => \/ Order(t)[i] \notin loaded
                      \/ i = Passed(t) /\ pc[t] \in StillListed

CascadeOf(t) ==
    op[t] = "cascade" /\ pc[t] \in InsideFleet =>
        /\ fleetOwner = t /\ pc[t] \notin LoadSteps \cup FleetSteps
        /\ pc[t] = "Release" /\ ok[t] => todo[t] = <<>>
        /\ pc[t] # "Release" \/ ok[t] => Walked(t)

CascadeTracked == \A t \in Threads : CascadeOf(t)

\* A cascade keeps what it has achieved while nothing is loaded or launched and
\* nobody touches its own variables.
LEMMA CascadeFrame ==
    ASSUME TypeOK, NEW t \in Threads, CascadeOf(t),
           op'[t] = op[t], pc'[t] = pc[t], target'[t] = target[t],
           todo'[t] = todo[t], cur'[t] = cur[t], ok'[t] = ok[t],
           fleetOwner = t => fleetOwner' = t, loaded' \subseteq loaded,
           \A m \in Modules : proc[m] = "none" => proc'[m] = "none"
    PROVE  CascadeOf(t)'
<1> SUFFICES ASSUME (op[t] = "cascade" /\ pc[t] \in InsideFleet)'
             PROVE  /\ (fleetOwner = t /\ pc[t] \notin LoadSteps \cup FleetSteps)'
                    /\ (pc[t] = "Release" /\ ok[t] => todo[t] = <<>>)'
                    /\ (pc[t] # "Release" \/ ok[t] => Walked(t))'
  BY DEF CascadeOf
<1>1. fleetOwner = t /\ pc[t] \notin LoadSteps \cup FleetSteps
  BY DEF CascadeOf
<1>2. Order(t)' = Order(t) /\ Passed(t)' = Passed(t)
  BY DEF Order, Passed
<1>3. \A m : Gone(m) => Gone(m)'
  BY DEF Gone, TypeOK
<1>4. Walked(t) => Walked(t)'
  BY <1>2, <1>3 DEF Walked
<1> QED
  BY <1>1, <1>4 DEF CascadeOf

\* While one thread is inside a cascade no other is inside the fleet lock, so a
\* step taken inside it is no concern of another thread's cascade.
LEMMA InsideAlone ==
    ASSUME LocksHeld, CascadeTracked, NEW u \in Threads, pc[u] \in InsideFleet,
           \A t \in Threads \ {u} : op'[t] = op[t] /\ pc'[t] = pc[t]
    PROVE  \A t \in Threads \ {u} : CascadeOf(t)'
<1> SUFFICES ASSUME NEW t \in Threads \ {u}, op[t] = "cascade", pc[t] \in InsideFleet
             PROVE  FALSE
  BY DEF CascadeOf
<1>1. fleetOwner = t
  BY DEF CascadeTracked, CascadeOf
<1> QED
  BY <1>1, LifecycleAssumption DEF LocksHeld

\* A thread inside a load, terminateAll or clear is in no cascade.
LEMMA OffCascade ==
    ASSUME TypeOK, LocksHeld, CascadeTracked, NEW u \in Threads,
           pc[u] \in LoadSteps \cup FleetSteps,
           op' = op, \A t \in Threads \ {u} : pc'[t] = pc[t]
    PROVE  CascadeTracked'
<1>1. pc[u] \in InsideFleet /\ op[u] # "cascade"
  BY DEF CascadeTracked, CascadeOf, InsideFleet, SpanSteps
<1>2. \A t \in Threads \ {u} : CascadeOf(t)'
  BY <1>1, InsideAlone
<1>3. CascadeOf(u)'
  BY <1>1 DEF CascadeOf
<1> QED
  BY <1>2, <1>3 DEF CascadeTracked

\* A thread on its way into or out of the fleet lock changes nothing that
\* another thread's cascade relies on.
LEMMA FromOutside ==
    ASSUME TypeOK, CascadeTracked, NEW u \in Threads,
           \A t \in Threads \ {u} :
               /\ op'[t] = op[t] /\ pc'[t] = pc[t] /\ target'[t] = target[t]
               /\ todo'[t] = todo[t] /\ cur'[t] = cur[t] /\ ok'[t] = ok[t],
           fleetOwner' = fleetOwner \/ fleetOwner = None,
           loaded' = loaded, proc' = proc
    PROVE  \A t \in Threads \ {u} : CascadeOf(t)'
<1> SUFFICES ASSUME NEW t \in Threads \ {u} PROVE CascadeOf(t)'
  OBVIOUS
<1>1. fleetOwner = t => fleetOwner' = t
  BY LifecycleAssumption
<1> QED
  BY <1>1, CascadeFrame DEF CascadeTracked

\* A step of the asio thread, of a module process or of discovery takes modules
\* away only.
LEMMA FromElsewhere ==
    ASSUME TypeOK, CascadeTracked, UNCHANGED <<pc, op, target, todo, cur, ok, fleetOwner>>,
           loaded' \subseteq loaded, \A m \in Modules : proc[m] = "none" => proc'[m] = "none"
    PROVE  CascadeTracked'
<1> SUFFICES ASSUME NEW t \in Threads PROVE CascadeOf(t)'
  BY DEF CascadeTracked
<1> QED
  BY CascadeFrame DEF CascadeTracked

\* What the walk says of the member the thread is at.
LEMMA MemberHere ==
    ASSUME NEW u \in Threads, Walked(u), pc[u] \in SpanSteps \cup {"Lock"}
    PROVE  /\ pc[u] \in StillUp \/ Gone(cur[u])
           /\ pc[u] \in StillListed \/ ~ok[u] \/ cur[u] \notin loaded
<1>1. Passed(u) \in 1..Passed(u) /\ cur[u] = Order(u)[Passed(u)]
  BY DEF Walked
<1> QED
  BY <1>1 DEF Walked

\* A step of unloadModuleInternal, with the module lock around it: the member
\* it is about is gone when the step leaves it behind, and unlisted unless the
\* call has failed.
LEMMA MemberStep ==
    ASSUME TypeOK, NEW u \in Threads, CascadeOf(u), op[u] = "cascade",
           pc[u] \in UnloadSteps \cup {"Lock", "Unlock"},
           pc'[u] \in UnloadSteps \cup {"Unlock", "Next"},
           pc'[u] # "Next" => cur'[u] = cur[u],
           op'[u] = op[u], target'[u] = target[u], todo'[u] = todo[u],
           ok'[u] => ok[u], fleetOwner' = fleetOwner, loaded' \subseteq loaded,
           \A m \in Modules : proc[m] = "none" => proc'[m] = "none",
           \/ pc'[u] \in StillUp
           \/ cur[u] \notin loaded' \/ proc'[cur[u]] = "none",
           pc'[u] \in StillListed \/ ~ok'[u] \/ cur[u] \notin loaded'
    PROVE  CascadeOf(u)'
<1> USE DEF SpanSteps, UnloadSteps
<1>1. pc[u] \in InsideFleet /\ pc[u] # "Release"
  BY DEF InsideFleet
<1>2. fleetOwner = u /\ Walked(u)
  BY <1>1 DEF CascadeOf
<1>3. pc'[u] \notin LoadSteps \cup FleetSteps /\ pc'[u] # "Release"
  BY DEF LoadSteps, FleetSteps
<1>4. Order(u)' = Order(u) /\ Passed(u)' = Passed(u)
  BY DEF Order, Passed
<1>5. Passed(u) \in Nat /\ Passed(u) > 0 /\ cur[u] = Order(u)[Passed(u)]
  BY <1>2 DEF Walked
<1>6. \A i \in 1..Len(todo[u]) : todo[u][i] = Order(u)[Passed(u) + i]
  BY <1>2 DEF Walked
<1>7. ASSUME NEW i \in 1..Passed(u)
      PROVE  /\ Gone(Order(u)[i])' \/ (i = Passed(u) /\ pc'[u] \in StillUp)
             /\ ok'[u] => \/ Order(u)[i] \notin loaded'
                          \/ i = Passed(u) /\ pc'[u] \in StillListed
  <2>1. CASE i = Passed(u)
    <3>1. Order(u)'[i] = cur[u]
      BY <2>1, <1>4, <1>5
    <3> QED
      BY <2>1, <3>1, <1>4, <1>5 DEF Gone
  <2>2. CASE i # Passed(u)
    <3>1. Gone(Order(u)[i]) /\ (ok[u] => Order(u)[i] \notin loaded)
      BY <2>2, <1>2 DEF Walked
    <3> QED
      BY <3>1, <1>4 DEF Gone, TypeOK
  <2> QED
    BY <2>1, <2>2
<1>8. Walked(u)'
  <2>1. (pc[u] \in SpanSteps \cup {"Lock"} =>
            Passed(u) > 0 /\ cur[u] = Order(u)[Passed(u)])'
    BY <1>4, <1>5 DEF LoadSteps
  <2>2. (\A i \in 1..Len(todo[u]) : todo[u][i] = Order(u)[Passed(u) + i])'
    BY <1>4, <1>6
  <2>3. (\A i \in 1..Passed(u) :
            /\ Gone(Order(u)[i]) \/ (i = Passed(u) /\ pc[u] \in StillUp)
            /\ ok[u] => \/ Order(u)[i] \notin loaded
                        \/ i = Passed(u) /\ pc[u] \in StillListed)'
    BY <1>4, <1>7 DEF Gone
  <2> QED
    BY <1>4, <1>5, <2>1, <2>2, <2>3 DEF Walked
<1> QED
  BY <1>2, <1>3, <1>8 DEF CascadeOf

\* Every step of the manager keeps the cascades on course.
LEMMA CascadeStep ==
    TypeOK /\ NamesBound /\ LocksHeld /\ CascadeTracked /\ [Next]_vars => CascadeTracked'
<1> SUFFICES ASSUME TypeOK, NamesBound, LocksHeld, CascadeTracked, [Next]_vars
             PROVE  CascadeTracked'
  OBVIOUS
<1> USE LifecycleAssumption
<1> USE DEF TypeOK, NamesBound, At, Goto, Fail, Tolerated, callVars, threadVars,
            lockVars, tableVars, asioVars, boundVars, envVars
<1>1. ASSUME NEW t \in Threads, NEW o \in Ops, NEW m \in Modules, Call(t, o, m) PROVE CascadeTracked'
  <2>1. \A k \in Threads \ {t} : CascadeOf(k)'
    BY <1>1, FromOutside DEF Call
  <2>2. CascadeOf(t)'
    BY <1>1 DEF Call, CascadeOf, InsideFleet, SpanSteps, LoadSteps, UnloadSteps, FleetSteps
  <2> QED
    BY <2>1, <2>2 DEF CascadeTracked
<1>2. ASSUME NEW m \in Modules, RestartFires(m) PROVE CascadeTracked'
  <2>1. \A k \in Threads \ {Main} : CascadeOf(k)'
    BY <1>2, FromOutside DEF RestartFires
  <2>2. CascadeOf(Main)'
    BY <1>2 DEF RestartFires, CascadeOf, InsideFleet, SpanSteps, LoadSteps, UnloadSteps, FleetSteps
  <2> QED
    BY <2>1, <2>2 DEF CascadeTracked
<1>3. ASSUME NEW m \in Modules, RestartUnknown(m) PROVE CascadeTracked'
  BY <1>3, FromElsewhere DEF RestartUnknown
<1>4. ASSUME NEW m \in Modules, RestartRefused(m) PROVE CascadeTracked'
  BY <1>4, FromElsewhere DEF RestartRefused
<1>5. ASSUME NEW t \in Threads, FleetShared(t) PROVE CascadeTracked'
  <2>1. \A k \in Threads \ {t} : CascadeOf(k)'
    BY <1>5, FromOutside DEF FleetShared
  <2>2. CascadeOf(t)'
    BY <1>5 DEF FleetShared, CascadeOf, InsideFleet, FleetOps
  <2> QED
    BY <2>1, <2>2 DEF CascadeTracked
<1>6. ASSUME NEW t \in Threads, ResolveFails(t) PROVE CascadeTracked'
  <2>1. \A k \in Threads \ {t} : CascadeOf(k)'
    BY <1>6, FromOutside DEF ResolveFails
  <2>2. CascadeOf(t)'
    BY <1>6 DEF ResolveFails, CascadeOf, InsideFleet, FleetOps
  <2> QED
    BY <2>1, <2>2 DEF CascadeTracked
<1>7. ASSUME NEW t \in Threads, FleetExclusive(t) PROVE CascadeTracked'
  <2>1. \A k \in Threads \ {t} : CascadeOf(k)'
    BY <1>7, FromOutside DEF FleetExclusive, LockFleet
  <2>2. CascadeOf(t)'
    BY <1>7 DEF FleetExclusive, LockFleet, CascadeOf, InsideFleet, FleetOps
  <2> QED
    BY <2>1, <2>2 DEF CascadeTracked
<1>8. ASSUME NEW t \in Threads, CascadeBegins(t) PROVE CascadeTracked'
  <2>1. \A k \in Threads \ {t} : CascadeOf(k)'
    BY <1>8, FromOutside DEF CascadeBegins, LockFleet
  <2>2. target[t] \in Modules /\ Order(t)' = Order(t) /\ todo'[t] = Order(t)
    BY <1>8 DEF CascadeBegins, LockFleet, Order
  <2>3. Order(t) \in Seq(Modules)
    BY <2>2 DEF Order
  <2>4. Passed(t)' = 0
    BY <2>2, <2>3 DEF Passed
  <2>5. Walked(t)'
    BY <1>8, <2>2, <2>3, <2>4 DEF CascadeBegins, Walked, SpanSteps, LoadSteps, UnloadSteps
  <2>6. fleetOwner' = t /\ pc'[t] = "Next"
    BY <1>8 DEF CascadeBegins, LockFleet
  <2>7. CascadeOf(t)'
    BY <2>5, <2>6 DEF CascadeOf, LoadSteps, FleetSteps
  <2> QED
    BY <2>1, <2>7 DEF CascadeTracked
<1>9. ASSUME NEW t \in Threads, CascadeRefused(t) PROVE CascadeTracked'
  <2>1. \A k \in Threads \ {t} : CascadeOf(k)'
    BY <1>9, FromOutside DEF CascadeRefused, LockFleet
  <2>2. CascadeOf(t)'
    BY <1>9 DEF CascadeRefused, LockFleet, CascadeOf, InsideFleet, LoadSteps, FleetSteps
  <2> QED
    BY <2>1, <2>2 DEF CascadeTracked
<1>10. ASSUME NEW t \in Threads, LoopEnds(t) PROVE CascadeTracked'
  <2>1. pc[t] \in InsideFleet
    BY <1>10 DEF LoopEnds, InsideFleet
  <2>2. \A k \in Threads \ {t} : CascadeOf(k)'
    BY <1>10, <2>1, InsideAlone DEF LoopEnds
  <2>3. CASE op[t] # "cascade"
    BY <1>10, <2>2, <2>3 DEF LoopEnds, CascadeTracked, CascadeOf
  <2>4. CASE op[t] = "cascade"
    <3>1. CascadeOf(t)
      BY DEF CascadeTracked
    <3>2. CascadeOf(t)'
      <4>1. Walked(t) /\ fleetOwner = t
        BY <1>10, <2>1, <2>4, <3>1 DEF LoopEnds, CascadeOf
      <4>2. pc'[t] = "Release" /\ todo'[t] = <<>> /\ fleetOwner' = t
        BY <1>10, <4>1 DEF LoopEnds
      <4>3. Order(t)' = Order(t) /\ Passed(t)' = Passed(t)
        BY <1>10 DEF LoopEnds, Order, Passed
      <4>4. Walked(t)'
        BY <1>10, <4>1, <4>2, <4>3 DEF LoopEnds, Walked, Gone, StillUp, StillListed,
           SpanSteps, LoadSteps, UnloadSteps
      <4> QED
        BY <4>2, <4>4 DEF CascadeOf, LoadSteps, FleetSteps
    <3> QED
      BY <2>2, <3>2 DEF CascadeTracked
  <2> QED
    BY <2>3, <2>4
<1>11. ASSUME NEW t \in Threads, SkipModule(t) PROVE CascadeTracked'
  <2>1. pc[t] \in InsideFleet
    BY <1>11 DEF SkipModule, InsideFleet
  <2>2. \A k \in Threads \ {t} : CascadeOf(k)'
    BY <1>11, <2>1, InsideAlone DEF SkipModule
  <2>3. CASE op[t] # "cascade"
    BY <1>11, <2>2, <2>3 DEF SkipModule, CascadeTracked, CascadeOf
  <2>4. CASE op[t] = "cascade"
    <3>1. CascadeOf(t)
      BY DEF CascadeTracked
    <3>2. CascadeOf(t)'
      <4>1. Walked(t) /\ fleetOwner = t
        BY <1>11, <2>1, <2>4, <3>1 DEF SkipModule, CascadeOf
      <4>2. /\ Order(t)' = Order(t) /\ todo'[t] = Tail(todo[t]) /\ fleetOwner' = t
            /\ loaded' = loaded /\ proc' = proc /\ ok' = ok
        BY <1>11, <4>1 DEF SkipModule, Order
      <4>3. /\ Len(todo[t]) \in Nat /\ Len(todo[t]) > 0
            /\ Len(Tail(todo[t])) = Len(todo[t]) - 1 /\ Head(todo[t]) = todo[t][1]
            /\ \A i \in 1..Len(Tail(todo[t])) : Tail(todo[t])[i] = todo[t][i + 1]
        BY <1>11, HeadTailProperties DEF SkipModule
      <4>4. Order(t) \in Seq(Modules) /\ Len(Order(t)) \in Nat
        BY <1>11 DEF SkipModule, Order
      <4>5. Passed(t) \in Nat /\ Passed(t)' = Passed(t) + 1
        <5>1. Passed(t) \in Nat
          BY <4>1 DEF Walked
        <5>2. Passed(t)' = Len(Order(t)) - Len(Tail(todo[t]))
          BY <4>2 DEF Passed
        <5>3. Passed(t) = Len(Order(t)) - Len(todo[t])
          BY DEF Passed
        <5>4. Len(Tail(todo[t])) = Len(todo[t]) - 1 /\ Len(todo[t]) \in Nat
          BY <4>3
        <5>5. Len(Order(t)) \in Nat
          BY <4>4
        <5>6. Len(Order(t)) - (Len(todo[t]) - 1) = (Len(Order(t)) - Len(todo[t])) + 1
          BY <5>4, <5>5
        <5> QED
          BY <5>1, <5>2, <5>3, <5>4, <5>6, Zenon
      <4>6. Head(todo[t]) = Order(t)[Passed(t) + 1]
        <5>1. 1 \in 1..Len(todo[t])
          BY <4>3
        <5>2. todo[t][1] = Order(t)[Passed(t) + 1]
          BY <4>1, <5>1 DEF Walked
        <5> QED
          BY <5>2, <4>3
      <4>7. \A i \in 1..Len(todo'[t]) : todo'[t][i] = Order(t)[Passed(t) + 1 + i]
        <5> SUFFICES ASSUME NEW i \in 1..Len(Tail(todo[t]))
                     PROVE  Tail(todo[t])[i] = Order(t)[Passed(t) + 1 + i]
          BY <4>2
        <5>1. i + 1 \in 1..Len(todo[t]) /\ Tail(todo[t])[i] = todo[t][i + 1]
          BY <4>3
        <5>2. todo[t][i + 1] = Order(t)[Passed(t) + (i + 1)]
          BY <5>1, <4>1 DEF Walked
        <5> QED
          BY <5>1, <5>2, <4>5, SMTT(30)
      <4>8. pc[t] = "Next"
        BY <1>11 DEF SkipModule
      <4>9. \A i \in 1..Passed(t) : Gone(Order(t)[i]) /\ (ok[t] => Order(t)[i] \notin loaded)
        BY <4>1, <4>8 DEF Walked, StillUp, StillListed
      <4>10. Head(todo[t]) \notin loaded /\ pc' = pc
        BY <1>11, <2>4 DEF SkipModule
      <4>11. \A i \in 1..(Passed(t) + 1) : \/ i \in 1..Passed(t)
                                          \/ Order(t)[i] \notin loaded
        BY <4>5, <4>6, <4>10, SMTT(30)
      <4>12. Walked(t)'
        BY <4>2, <4>5, <4>7, <4>8, <4>9, <4>10, <4>11, SMTT(30)
        DEF Walked, Gone, SpanSteps, LoadSteps, UnloadSteps
      <4> QED
        BY <4>2, <4>8, <4>10, <4>12 DEF CascadeOf, LoadSteps, FleetSteps
    <3> QED
      BY <2>2, <3>2 DEF CascadeTracked
  <2> QED
    BY <2>3, <2>4
<1>12. ASSUME NEW t \in Threads, UnknownModule(t) PROVE CascadeTracked'
  <2>1. pc[t] \in InsideFleet /\ op[t] # "cascade"
    BY <1>12 DEF UnknownModule, InsideFleet, LoadOps
  <2>2. \A k \in Threads \ {t} : CascadeOf(k)'
    BY <1>12, <2>1, InsideAlone DEF UnknownModule
  <2> QED
    BY <1>12, <2>1, <2>2 DEF UnknownModule, CascadeTracked, CascadeOf
<1>13. ASSUME NEW t \in Threads, NextModule(t) PROVE CascadeTracked'
  <2>1. pc[t] \in InsideFleet
    BY <1>13 DEF NextModule, InsideFleet
  <2>2. \A k \in Threads \ {t} : CascadeOf(k)'
    BY <1>13, <2>1, InsideAlone DEF NextModule
  <2>3. CASE op[t] # "cascade"
    BY <1>13, <2>2, <2>3 DEF NextModule, CascadeTracked, CascadeOf
  <2>4. CASE op[t] = "cascade"
    <3>1. CascadeOf(t)
      BY DEF CascadeTracked
    <3>2. CascadeOf(t)'
      <4>1. Walked(t) /\ fleetOwner = t
        BY <1>13, <2>1, <2>4, <3>1 DEF NextModule, CascadeOf
      <4>2. /\ Order(t)' = Order(t) /\ todo'[t] = Tail(todo[t]) /\ fleetOwner' = t
            /\ loaded' = loaded /\ proc' = proc /\ ok' = ok
        BY <1>13, <4>1 DEF NextModule, Order
      <4>3. /\ Len(todo[t]) \in Nat /\ Len(todo[t]) > 0
            /\ Len(Tail(todo[t])) = Len(todo[t]) - 1 /\ Head(todo[t]) = todo[t][1]
            /\ \A i \in 1..Len(Tail(todo[t])) : Tail(todo[t])[i] = todo[t][i + 1]
        BY <1>13, HeadTailProperties DEF NextModule
      <4>4. Order(t) \in Seq(Modules) /\ Len(Order(t)) \in Nat
        BY <1>13 DEF NextModule, Order
      <4>5. Passed(t) \in Nat /\ Passed(t)' = Passed(t) + 1
        <5>1. Passed(t) \in Nat
          BY <4>1 DEF Walked
        <5>2. Passed(t)' = Len(Order(t)) - Len(Tail(todo[t]))
          BY <4>2 DEF Passed
        <5>3. Passed(t) = Len(Order(t)) - Len(todo[t])
          BY DEF Passed
        <5>4. Len(Tail(todo[t])) = Len(todo[t]) - 1 /\ Len(todo[t]) \in Nat
          BY <4>3
        <5>5. Len(Order(t)) \in Nat
          BY <4>4
        <5>6. Len(Order(t)) - (Len(todo[t]) - 1) = (Len(Order(t)) - Len(todo[t])) + 1
          BY <5>4, <5>5
        <5> QED
          BY <5>1, <5>2, <5>3, <5>4, <5>6, Zenon
      <4>6. Head(todo[t]) = Order(t)[Passed(t) + 1]
        <5>1. 1 \in 1..Len(todo[t])
          BY <4>3
        <5>2. todo[t][1] = Order(t)[Passed(t) + 1]
          BY <4>1, <5>1 DEF Walked
        <5> QED
          BY <5>2, <4>3
      <4>7. \A i \in 1..Len(todo'[t]) : todo'[t][i] = Order(t)[Passed(t) + 1 + i]
        <5> SUFFICES ASSUME NEW i \in 1..Len(Tail(todo[t]))
                     PROVE  Tail(todo[t])[i] = Order(t)[Passed(t) + 1 + i]
          BY <4>2
        <5>1. i + 1 \in 1..Len(todo[t]) /\ Tail(todo[t])[i] = todo[t][i + 1]
          BY <4>3
        <5>2. todo[t][i + 1] = Order(t)[Passed(t) + (i + 1)]
          BY <5>1, <4>1 DEF Walked
        <5> QED
          BY <5>1, <5>2, <4>5, SMTT(30)
      <4>8. pc[t] = "Next"
        BY <1>13 DEF NextModule
      <4>9. \A i \in 1..Passed(t) : Gone(Order(t)[i]) /\ (ok[t] => Order(t)[i] \notin loaded)
        BY <4>1, <4>8 DEF Walked, StillUp, StillListed
      <4>10. cur'[t] = Head(todo[t]) /\ pc'[t] = "Lock"
        BY <1>13 DEF NextModule
      <4>11. \A i \in 1..(Passed(t) + 1) : i \in 1..Passed(t) \/ i = Passed(t) + 1
        BY <4>5, SMTT(30)
      <4>12. Walked(t)'
        BY <4>2, <4>5, <4>6, <4>7, <4>9, <4>10, <4>11, SMTT(30)
        DEF Walked, Gone, StillUp, StillListed
      <4> QED
        BY <4>2, <4>10, <4>12 DEF CascadeOf, LoadSteps, FleetSteps
    <3> QED
      BY <2>2, <3>2 DEF CascadeTracked
  <2> QED
    BY <2>3, <2>4
<1>14. ASSUME NEW t \in Threads, LockModule(t) PROVE CascadeTracked'
  <2>1. pc[t] \in UnloadSteps \cup {"Lock", "Unlock"} /\ pc[t] \in InsideFleet
    BY <1>14 DEF LockModule, InsideFleet, SpanSteps, UnloadSteps
  <2>2. \A k \in Threads \ {t} : CascadeOf(k)'
    BY <1>14, <2>1, InsideAlone DEF LockModule
  <2>3. CASE op[t] # "cascade"
    BY <1>14, <2>2, <2>3 DEF LockModule, CascadeTracked, CascadeOf
  <2>4. CASE op[t] = "cascade"
    <3>1. CascadeOf(t) /\ Walked(t)
      BY <1>14, <2>1, <2>4 DEF LockModule, CascadeTracked, CascadeOf
    <3>2. /\ pc[t] \in StillUp \/ cur[t] \notin loaded \/ proc[cur[t]] = "none"
          /\ pc[t] \in StillListed \/ ~ok[t] \/ cur[t] \notin loaded
      BY <2>1, <3>1, MemberHere DEF Gone, SpanSteps
    <3>3. CascadeOf(t)'
      BY <1>14, <2>1, <2>4, <3>1, <3>2, MemberStep
      DEF LockModule, StillUp, StillListed, UnloadSteps, SpanSteps, LoadOps
    <3> QED
      BY <2>2, <3>3 DEF CascadeTracked
  <2> QED
    BY <2>3, <2>4
<1>15. ASSUME NEW t \in Threads, UnlockModule(t) PROVE CascadeTracked'
  <2>1. pc[t] \in UnloadSteps \cup {"Lock", "Unlock"} /\ pc[t] \in InsideFleet
    BY <1>15 DEF UnlockModule, InsideFleet, SpanSteps, UnloadSteps
  <2>2. \A k \in Threads \ {t} : CascadeOf(k)'
    BY <1>15, <2>1, InsideAlone DEF UnlockModule
  <2>3. CASE op[t] # "cascade"
    BY <1>15, <2>2, <2>3 DEF UnlockModule, CascadeTracked, CascadeOf
  <2>4. CASE op[t] = "cascade"
    <3>1. CascadeOf(t) /\ Walked(t)
      BY <1>15, <2>1, <2>4 DEF UnlockModule, CascadeTracked, CascadeOf
    <3>2. /\ pc[t] \in StillUp \/ cur[t] \notin loaded \/ proc[cur[t]] = "none"
          /\ pc[t] \in StillListed \/ ~ok[t] \/ cur[t] \notin loaded
      BY <2>1, <3>1, MemberHere DEF Gone, SpanSteps
    <3>3. CascadeOf(t)'
      BY <1>15, <2>1, <2>4, <3>1, <3>2, MemberStep
      DEF UnlockModule, StillUp, StillListed, UnloadSteps, SpanSteps, LoadOps
    <3> QED
      BY <2>2, <3>3 DEF CascadeTracked
  <2> QED
    BY <2>3, <2>4
<1>16. ASSUME NEW t \in Threads, ReleaseFleet(t) PROVE CascadeTracked'
  <2>1. pc[t] \in InsideFleet
    BY <1>16 DEF ReleaseFleet, InsideFleet
  <2>2. \A k \in Threads \ {t} : CascadeOf(k)'
    BY <1>16, <2>1, InsideAlone DEF ReleaseFleet
  <2>3. CASE op[t] # "cascade"
    BY <1>16, <2>2, <2>3 DEF ReleaseFleet, CascadeTracked, CascadeOf
  <2>4. CASE op[t] = "cascade"
    <3>1. CascadeOf(t)
      BY DEF CascadeTracked
    <3>2. CascadeOf(t)'
      BY <1>16 DEF ReleaseFleet, CascadeOf, InsideFleet, SpanSteps, LoadSteps,
         UnloadSteps, FleetSteps
    <3> QED
      BY <2>2, <3>2 DEF CascadeTracked
  <2> QED
    BY <2>3, <2>4
<1>17. ASSUME NEW t \in Threads, DispatchBatch(t) PROVE CascadeTracked'
  <2>1. \A k \in Threads \ {t} : CascadeOf(k)'
    BY <1>17, FromOutside DEF DispatchBatch
  <2>2. CascadeOf(t)'
    BY <1>17 DEF DispatchBatch, CascadeOf, InsideFleet, SpanSteps, LoadSteps, UnloadSteps, FleetSteps
  <2> QED
    BY <2>1, <2>2 DEF CascadeTracked
<1>18. ASSUME NEW t \in Threads, AlreadyLoaded(t) PROVE CascadeTracked'
  BY <1>18, OffCascade DEF AlreadyLoaded, LoadSteps, FleetSteps
<1>19. ASSUME NEW t \in Threads, GateRefuses(t) PROVE CascadeTracked'
  BY <1>19, OffCascade DEF GateRefuses, LoadSteps, FleetSteps
<1>20. ASSUME NEW t \in Threads, LoadStarts(t) PROVE CascadeTracked'
  BY <1>20, OffCascade DEF LoadStarts, LoadSteps, FleetSteps
<1>21. ASSUME NEW t \in Threads, BeginLoadAttempt(t) PROVE CascadeTracked'
  BY <1>21, OffCascade DEF BeginLoadAttempt, LoadSteps, FleetSteps
<1>22. ASSUME NEW t \in Threads, LockSpawn(t) PROVE CascadeTracked'
  BY <1>22, OffCascade DEF LockSpawn, LoadSteps, FleetSteps
<1>23. ASSUME NEW t \in Threads, Launch(t) PROVE CascadeTracked'
  BY <1>23, OffCascade DEF Launch, LoadSteps, FleetSteps
<1>24. ASSUME NEW t \in Threads, LaunchFails(t) PROVE CascadeTracked'
  BY <1>24, OffCascade DEF LaunchFails, LoadSteps, FleetSteps
<1>25. ASSUME NEW t \in Threads, SendToken(t) PROVE CascadeTracked'
  BY <1>25, OffCascade DEF SendToken, LoadSteps, FleetSteps
<1>26. ASSUME NEW t \in Threads, TokenFails(t) PROVE CascadeTracked'
  BY <1>26, OffCascade DEF TokenFails, LoadSteps, FleetSteps
<1>27. ASSUME NEW t \in Threads, TokenFailedMark(t) PROVE CascadeTracked'
  BY <1>27, OffCascade DEF TokenFailedMark, LoadSteps, FleetSteps
<1>28. ASSUME NEW t \in Threads, TokenFailedTerminate(t) PROVE CascadeTracked'
  BY <1>28, OffCascade DEF TokenFailedTerminate, TerminateAttempt, LoadSteps, FleetSteps
<1>29. ASSUME NEW t \in Threads, TokenFailedConsume(t) PROVE CascadeTracked'
  BY <1>29, OffCascade DEF TokenFailedConsume, LoadSteps, FleetSteps
<1>30. ASSUME NEW t \in Threads, AwaitLoad(t) PROVE CascadeTracked'
  BY <1>30, OffCascade DEF AwaitLoad, LoadSteps, FleetSteps
<1>31. ASSUME NEW t \in Threads, VerdictFailed(t) PROVE CascadeTracked'
  BY <1>31, OffCascade DEF VerdictFailed, LoadSteps, FleetSteps
<1>32. ASSUME NEW t \in Threads, VerdictFailedTerminate(t) PROVE CascadeTracked'
  BY <1>32, OffCascade DEF VerdictFailedTerminate, TerminateAttempt, LoadSteps, FleetSteps
<1>33. ASSUME NEW t \in Threads, AbandonLoadAttempt(t) PROVE CascadeTracked'
  BY <1>33, OffCascade DEF AbandonLoadAttempt, LoadSteps, FleetSteps
<1>34. ASSUME NEW t \in Threads, CommitLoad(t) PROVE CascadeTracked'
  BY <1>34, OffCascade DEF CommitLoad, LoadSteps, FleetSteps
<1>35. ASSUME NEW t \in Threads, CommitRefused(t) PROVE CascadeTracked'
  BY <1>35, OffCascade DEF CommitRefused, LoadSteps, FleetSteps
<1>36. ASSUME NEW t \in Threads, PublishLoad(t) PROVE CascadeTracked'
  BY <1>36, OffCascade DEF PublishLoad, LoadSteps, FleetSteps
<1>37. ASSUME NEW t \in Threads, RecordLoaded(t) PROVE CascadeTracked'
  BY <1>37, OffCascade DEF RecordLoaded, LoadSteps, FleetSteps
<1>38. ASSUME NEW t \in Threads, UnloadStarts(t) PROVE CascadeTracked'
  <2>1. pc[t] \in UnloadSteps \cup {"Lock", "Unlock"} /\ pc[t] \in InsideFleet
    BY <1>38 DEF UnloadStarts, InsideFleet, SpanSteps, UnloadSteps
  <2>2. \A k \in Threads \ {t} : CascadeOf(k)'
    BY <1>38, <2>1, InsideAlone DEF UnloadStarts
  <2>3. CASE op[t] # "cascade"
    BY <1>38, <2>2, <2>3 DEF UnloadStarts, CascadeTracked, CascadeOf
  <2>4. CASE op[t] = "cascade"
    <3>1. CascadeOf(t) /\ Walked(t)
      BY <1>38, <2>1, <2>4 DEF UnloadStarts, CascadeTracked, CascadeOf
    <3>2. /\ pc[t] \in StillUp \/ cur[t] \notin loaded \/ proc[cur[t]] = "none"
          /\ pc[t] \in StillListed \/ ~ok[t] \/ cur[t] \notin loaded
      BY <2>1, <3>1, MemberHere DEF Gone, SpanSteps
    <3>3. CascadeOf(t)'
      BY <1>38, <2>1, <2>4, <3>1, <3>2, MemberStep
      DEF UnloadStarts, StillUp, StillListed, UnloadSteps, SpanSteps, LoadOps
    <3> QED
      BY <2>2, <3>3 DEF CascadeTracked
  <2> QED
    BY <2>3, <2>4
<1>39. ASSUME NEW t \in Threads, UnloadNotLoaded(t) PROVE CascadeTracked'
  <2>1. pc[t] \in UnloadSteps \cup {"Lock", "Unlock"} /\ pc[t] \in InsideFleet
    BY <1>39 DEF UnloadNotLoaded, InsideFleet, SpanSteps, UnloadSteps
  <2>2. \A k \in Threads \ {t} : CascadeOf(k)'
    BY <1>39, <2>1, InsideAlone DEF UnloadNotLoaded
  <2>3. CASE op[t] # "cascade"
    BY <1>39, <2>2, <2>3 DEF UnloadNotLoaded, CascadeTracked, CascadeOf
  <2>4. CASE op[t] = "cascade"
    <3>1. CascadeOf(t) /\ Walked(t)
      BY <1>39, <2>1, <2>4 DEF UnloadNotLoaded, CascadeTracked, CascadeOf
    <3>2. /\ pc[t] \in StillUp \/ cur[t] \notin loaded \/ proc[cur[t]] = "none"
          /\ pc[t] \in StillListed \/ ~ok[t] \/ cur[t] \notin loaded
      BY <2>1, <3>1, MemberHere DEF Gone, SpanSteps
    <3>3. CascadeOf(t)'
      BY <1>39, <2>1, <2>4, <3>1, <3>2, MemberStep
      DEF UnloadNotLoaded, StillUp, StillListed, UnloadSteps, SpanSteps, LoadOps
    <3> QED
      BY <2>2, <3>3 DEF CascadeTracked
  <2> QED
    BY <2>3, <2>4
<1>40. ASSUME NEW t \in Threads, UnloadHasModule(t) PROVE CascadeTracked'
  <2>1. pc[t] \in UnloadSteps \cup {"Lock", "Unlock"} /\ pc[t] \in InsideFleet
    BY <1>40 DEF UnloadHasModule, InsideFleet, SpanSteps, UnloadSteps
  <2>2. \A k \in Threads \ {t} : CascadeOf(k)'
    BY <1>40, <2>1, InsideAlone DEF UnloadHasModule
  <2>3. CASE op[t] # "cascade"
    BY <1>40, <2>2, <2>3 DEF UnloadHasModule, CascadeTracked, CascadeOf
  <2>4. CASE op[t] = "cascade"
    <3>1. CascadeOf(t) /\ Walked(t)
      BY <1>40, <2>1, <2>4 DEF UnloadHasModule, CascadeTracked, CascadeOf
    <3>2. /\ pc[t] \in StillUp \/ cur[t] \notin loaded \/ proc[cur[t]] = "none"
          /\ pc[t] \in StillListed \/ ~ok[t] \/ cur[t] \notin loaded
      BY <2>1, <3>1, MemberHere DEF Gone, SpanSteps
    <3>3. CascadeOf(t)'
      BY <1>40, <2>1, <2>4, <3>1, <3>2, MemberStep
      DEF UnloadHasModule, StillUp, StillListed, UnloadSteps, SpanSteps, LoadOps
    <3> QED
      BY <2>2, <3>3 DEF CascadeTracked
  <2> QED
    BY <2>3, <2>4
<1>41. ASSUME NEW t \in Threads, UnloadNoEntry(t) PROVE CascadeTracked'
  <2>1. pc[t] \in UnloadSteps \cup {"Lock", "Unlock"} /\ pc[t] \in InsideFleet
    BY <1>41 DEF UnloadNoEntry, InsideFleet, SpanSteps, UnloadSteps
  <2>2. \A k \in Threads \ {t} : CascadeOf(k)'
    BY <1>41, <2>1, InsideAlone DEF UnloadNoEntry
  <2>3. CASE op[t] # "cascade"
    BY <1>41, <2>2, <2>3 DEF UnloadNoEntry, CascadeTracked, CascadeOf
  <2>4. CASE op[t] = "cascade"
    <3>1. CascadeOf(t) /\ Walked(t)
      BY <1>41, <2>1, <2>4 DEF UnloadNoEntry, CascadeTracked, CascadeOf
    <3>2. /\ pc[t] \in StillUp \/ cur[t] \notin loaded \/ proc[cur[t]] = "none"
          /\ pc[t] \in StillListed \/ ~ok[t] \/ cur[t] \notin loaded
      BY <2>1, <3>1, MemberHere DEF Gone, SpanSteps
    <3>3. CascadeOf(t)'
      BY <1>41, <2>1, <2>4, <3>1, <3>2, MemberStep
      DEF UnloadNoEntry, StillUp, StillListed, UnloadSteps, SpanSteps, LoadOps
    <3> QED
      BY <2>2, <3>3 DEF CascadeTracked
  <2> QED
    BY <2>3, <2>4
<1>42. ASSUME NEW t \in Threads, UnloadMark(t) PROVE CascadeTracked'
  <2>1. pc[t] \in UnloadSteps \cup {"Lock", "Unlock"} /\ pc[t] \in InsideFleet
    BY <1>42 DEF UnloadMark, InsideFleet, SpanSteps, UnloadSteps
  <2>2. \A k \in Threads \ {t} : CascadeOf(k)'
    BY <1>42, <2>1, InsideAlone DEF UnloadMark
  <2>3. CASE op[t] # "cascade"
    BY <1>42, <2>2, <2>3 DEF UnloadMark, CascadeTracked, CascadeOf
  <2>4. CASE op[t] = "cascade"
    <3>1. CascadeOf(t) /\ Walked(t)
      BY <1>42, <2>1, <2>4 DEF UnloadMark, CascadeTracked, CascadeOf
    <3>2. /\ pc[t] \in StillUp \/ cur[t] \notin loaded \/ proc[cur[t]] = "none"
          /\ pc[t] \in StillListed \/ ~ok[t] \/ cur[t] \notin loaded
      BY <2>1, <3>1, MemberHere DEF Gone, SpanSteps
    <3>3. CascadeOf(t)'
      BY <1>42, <2>1, <2>4, <3>1, <3>2, MemberStep
      DEF UnloadMark, StillUp, StillListed, UnloadSteps, SpanSteps, LoadOps
    <3> QED
      BY <2>2, <3>3 DEF CascadeTracked
  <2> QED
    BY <2>3, <2>4
<1>43. ASSUME NEW t \in Threads, UnloadTerminate(t) PROVE CascadeTracked'
  <2>1. pc[t] \in UnloadSteps \cup {"Lock", "Unlock"} /\ pc[t] \in InsideFleet
    BY <1>43 DEF UnloadTerminate, InsideFleet, SpanSteps, UnloadSteps
  <2>2. \A k \in Threads \ {t} : CascadeOf(k)'
    BY <1>43, <2>1, InsideAlone DEF UnloadTerminate
  <2>3. CASE op[t] # "cascade"
    BY <1>43, <2>2, <2>3 DEF UnloadTerminate, CascadeTracked, CascadeOf
  <2>4. CASE op[t] = "cascade"
    <3>1. CascadeOf(t) /\ Walked(t)
      BY <1>43, <2>1, <2>4 DEF UnloadTerminate, CascadeTracked, CascadeOf
    <3>2. /\ pc[t] \in StillUp \/ cur[t] \notin loaded \/ proc[cur[t]] = "none"
          /\ pc[t] \in StillListed \/ ~ok[t] \/ cur[t] \notin loaded
      BY <2>1, <3>1, MemberHere DEF Gone, SpanSteps
    <3>3. CascadeOf(t)'
      BY <1>43, <2>1, <2>4, <3>1, <3>2, MemberStep
      DEF UnloadTerminate, StillUp, StillListed, UnloadSteps, SpanSteps, LoadOps
    <3> QED
      BY <2>2, <3>3 DEF CascadeTracked
  <2> QED
    BY <2>3, <2>4
<1>44. ASSUME NEW t \in Threads, UnloadTerminateInProc(t) PROVE CascadeTracked'
  <2>1. pc[t] \in UnloadSteps \cup {"Lock", "Unlock"} /\ pc[t] \in InsideFleet
    BY <1>44 DEF UnloadTerminateInProc, InsideFleet, SpanSteps, UnloadSteps
  <2>2. \A k \in Threads \ {t} : CascadeOf(k)'
    BY <1>44, <2>1, InsideAlone DEF UnloadTerminateInProc
  <2>3. CASE op[t] # "cascade"
    BY <1>44, <2>2, <2>3 DEF UnloadTerminateInProc, CascadeTracked, CascadeOf
  <2>4. CASE op[t] = "cascade"
    <3>1. CascadeOf(t) /\ Walked(t)
      BY <1>44, <2>1, <2>4 DEF UnloadTerminateInProc, CascadeTracked, CascadeOf
    <3>2. /\ pc[t] \in StillUp \/ cur[t] \notin loaded \/ proc[cur[t]] = "none"
          /\ pc[t] \in StillListed \/ ~ok[t] \/ cur[t] \notin loaded
      BY <2>1, <3>1, MemberHere DEF Gone, SpanSteps
    <3>3. CascadeOf(t)'
      BY <1>44, <2>1, <2>4, <3>1, <3>2, MemberStep
      DEF UnloadTerminateInProc, StillUp, StillListed, UnloadSteps, SpanSteps, LoadOps
    <3> QED
      BY <2>2, <3>3 DEF CascadeTracked
  <2> QED
    BY <2>3, <2>4
<1>45. ASSUME NEW t \in Threads, UnloadDispatch(t) PROVE CascadeTracked'
  <2>1. pc[t] \in UnloadSteps \cup {"Lock", "Unlock"} /\ pc[t] \in InsideFleet
    BY <1>45 DEF UnloadDispatch, InsideFleet, SpanSteps, UnloadSteps
  <2>2. \A k \in Threads \ {t} : CascadeOf(k)'
    BY <1>45, <2>1, InsideAlone DEF UnloadDispatch
  <2>3. CASE op[t] # "cascade"
    BY <1>45, <2>2, <2>3 DEF UnloadDispatch, CascadeTracked, CascadeOf
  <2>4. CASE op[t] = "cascade"
    <3>1. CascadeOf(t) /\ Walked(t)
      BY <1>45, <2>1, <2>4 DEF UnloadDispatch, CascadeTracked, CascadeOf
    <3>2. /\ pc[t] \in StillUp \/ cur[t] \notin loaded \/ proc[cur[t]] = "none"
          /\ pc[t] \in StillListed \/ ~ok[t] \/ cur[t] \notin loaded
      BY <2>1, <3>1, MemberHere DEF Gone, SpanSteps
    <3>3. CascadeOf(t)'
      BY <1>45, <2>1, <2>4, <3>1, <3>2, MemberStep
      DEF UnloadDispatch, StillUp, StillListed, UnloadSteps, SpanSteps, LoadOps
    <3> QED
      BY <2>2, <3>3 DEF CascadeTracked
  <2> QED
    BY <2>3, <2>4
<1>46. ASSUME NEW t \in Threads, UnloadForget(t) PROVE CascadeTracked'
  <2>1. pc[t] \in UnloadSteps \cup {"Lock", "Unlock"} /\ pc[t] \in InsideFleet
    BY <1>46 DEF UnloadForget, InsideFleet, SpanSteps, UnloadSteps
  <2>2. \A k \in Threads \ {t} : CascadeOf(k)'
    BY <1>46, <2>1, InsideAlone DEF UnloadForget
  <2>3. CASE op[t] # "cascade"
    BY <1>46, <2>2, <2>3 DEF UnloadForget, CascadeTracked, CascadeOf
  <2>4. CASE op[t] = "cascade"
    <3>1. CascadeOf(t) /\ Walked(t)
      BY <1>46, <2>1, <2>4 DEF UnloadForget, CascadeTracked, CascadeOf
    <3>2. /\ pc[t] \in StillUp \/ cur[t] \notin loaded \/ proc[cur[t]] = "none"
          /\ pc[t] \in StillListed \/ ~ok[t] \/ cur[t] \notin loaded
      BY <2>1, <3>1, MemberHere DEF Gone, SpanSteps
    <3>3. CascadeOf(t)'
      BY <1>46, <2>1, <2>4, <3>1, <3>2, MemberStep
      DEF UnloadForget, StillUp, StillListed, UnloadSteps, SpanSteps, LoadOps
    <3> QED
      BY <2>2, <3>3 DEF CascadeTracked
  <2> QED
    BY <2>3, <2>4
<1>47. ASSUME NEW t \in Threads, UnloadConsume(t) PROVE CascadeTracked'
  <2>1. pc[t] \in UnloadSteps \cup {"Lock", "Unlock"} /\ pc[t] \in InsideFleet
    BY <1>47 DEF UnloadConsume, InsideFleet, SpanSteps, UnloadSteps
  <2>2. \A k \in Threads \ {t} : CascadeOf(k)'
    BY <1>47, <2>1, InsideAlone DEF UnloadConsume
  <2>3. CASE op[t] # "cascade"
    BY <1>47, <2>2, <2>3 DEF UnloadConsume, CascadeTracked, CascadeOf
  <2>4. CASE op[t] = "cascade"
    <3>1. CascadeOf(t) /\ Walked(t)
      BY <1>47, <2>1, <2>4 DEF UnloadConsume, CascadeTracked, CascadeOf
    <3>2. /\ pc[t] \in StillUp \/ cur[t] \notin loaded \/ proc[cur[t]] = "none"
          /\ pc[t] \in StillListed \/ ~ok[t] \/ cur[t] \notin loaded
      BY <2>1, <3>1, MemberHere DEF Gone, SpanSteps
    <3>3. CascadeOf(t)'
      BY <1>47, <2>1, <2>4, <3>1, <3>2, MemberStep
      DEF UnloadConsume, StillUp, StillListed, UnloadSteps, SpanSteps, LoadOps
    <3> QED
      BY <2>2, <3>3 DEF CascadeTracked
  <2> QED
    BY <2>3, <2>4
<1>48. ASSUME NEW t \in Threads, MarkAllLoadedExitsExpected(t) PROVE CascadeTracked'
  BY <1>48, OffCascade DEF MarkAllLoadedExitsExpected, LoadSteps, FleetSteps
<1>49. ASSUME NEW t \in Threads, TerminateAllContainers(t) PROVE CascadeTracked'
  BY <1>49, OffCascade DEF TerminateAllContainers, LoadSteps, FleetSteps
<1>50. ASSUME NEW t \in Threads, FleetDispatch(t) PROVE CascadeTracked'
  BY <1>50, OffCascade DEF FleetDispatch, LoadSteps, FleetSteps
<1>51. ASSUME NEW t \in Threads, ClearExpectedExits(t) PROVE CascadeTracked'
  BY <1>51, OffCascade DEF ClearExpectedExits, LoadSteps, FleetSteps
<1>52. ASSUME NEW t \in Threads, ClearLoaded(t) PROVE CascadeTracked'
  BY <1>52, OffCascade DEF ClearLoaded, LoadSteps, FleetSteps
<1>53. ASSUME NEW m \in Modules, ModuleExits(m) PROVE CascadeTracked'
  BY <1>53, FromElsewhere DEF ModuleExits
<1>54. ASSUME NEW m \in Modules, AsioReaps(m) PROVE CascadeTracked'
  BY <1>54, FromElsewhere DEF AsioReaps
<1>55. ASSUME AsioSettles PROVE CascadeTracked'
  BY <1>55, FromElsewhere DEF AsioSettles
<1>56. ASSUME AsioConsumes PROVE CascadeTracked'
  BY <1>56, FromElsewhere DEF AsioConsumes
<1>57. ASSUME AsioReportsCrash PROVE CascadeTracked'
  BY <1>57, FromElsewhere DEF AsioReportsCrash
<1>58. ASSUME Discover PROVE CascadeTracked'
  BY <1>58, FromElsewhere DEF Discover
<1>59. CASE UNCHANGED vars
  BY <1>59, FromElsewhere DEF vars
<1> QED
  BY <1>1, <1>2, <1>3, <1>4, <1>5, <1>6, <1>7, <1>8, <1>9, <1>10, <1>11,
     <1>12, <1>13, <1>14, <1>15, <1>16, <1>17, <1>18, <1>19, <1>20, <1>21,
     <1>22, <1>23, <1>24, <1>25, <1>26, <1>27, <1>28, <1>29, <1>30, <1>31,
     <1>32, <1>33, <1>34, <1>35, <1>36, <1>37, <1>38, <1>39, <1>40, <1>41,
     <1>42, <1>43, <1>44, <1>45, <1>46, <1>47, <1>48, <1>49, <1>50, <1>51,
     <1>52, <1>53, <1>54, <1>55, <1>56, <1>57, <1>58, <1>59
  DEF Next, ThreadStep, AsioStep, Finished

\* The cascades are on course in every reachable state.
THEOREM CascadesTracked == Spec => []CascadeTracked
<1>1. Init => CascadeTracked
  BY DEF Init, CascadeTracked, CascadeOf, InsideFleet, SpanSteps, LoadSteps,
     UnloadSteps, FleetSteps
<1>2. IInv /\ CascadeTracked /\ [Next]_vars => CascadeTracked'
  BY CascadeStep DEF IInv
<1> QED
  BY <1>1, <1>2, InductiveInvariant, PTL DEF Spec

\* Leaves first: when unloadModuleWithDependents terminates a module, nothing
\* that needs it and is still listed has a process left.
THEOREM CascadeTakesLeavesFirst == Spec => []CascadeLeavesFirst
<1>1. IInv /\ CascadeTracked => CascadeLeavesFirst
  <2> SUFFICES ASSUME IInv, CascadeTracked, NEW t \in Threads, op[t] = "cascade",
                      pc[t] \in {"UForget", "UConsume"},
                      NEW d \in loaded, DependsOn(d, cur[t])
               PROVE  proc[d] = "none"
    BY DEF CascadeLeavesFirst
  <2>1. pc[t] \in SpanSteps /\ pc[t] \in InsideFleet /\ pc[t] \notin StillUp
    BY DEF SpanSteps, UnloadSteps, InsideFleet, StillUp
  <2>2. Walked(t)
    BY <2>1 DEF CascadeTracked, CascadeOf
  <2>3. target[t] \in Modules /\ d \in Modules
    BY <2>1 DEF IInv, TypeOK, NamesBound
  <2>4. Passed(t) \in Nat /\ Passed(t) > 0 /\ cur[t] = Order(t)[Passed(t)]
    BY <2>1, <2>2 DEF Walked
  <2>5. Passed(t) \in 1..Len(Order(t))
    <3>1. todo[t] \in Seq(Modules) /\ Order(t) \in Seq(Modules)
      BY <2>3, LifecycleAssumption DEF IInv, TypeOK, Order
    <3>2. Len(todo[t]) \in Nat /\ Len(Order(t)) \in Nat
      BY <3>1
    <3> QED
      BY <3>2, <2>4 DEF Passed
  <2>6. PICK i \in 1..(Passed(t) - 1) : Order(t)[i] = d
    BY <2>3, <2>4, <2>5, TeardownAssumption DEF Order
  <2>7. i \in 1..Passed(t)
    BY <2>4
  <2>8. Gone(d)
    BY <2>1, <2>2, <2>6, <2>7 DEF Walked
  <2> QED
    BY <2>8 DEF Gone
<1> QED
  BY <1>1, InductiveInvariant, CascadesTracked, PTL

\* A cascade that reports success has left neither its target nor anything
\* that needs it listed: no load slipped into the span of fleetMutex().
THEOREM CascadeIsComplete == Spec => []CascadeComplete
<1>1. IInv /\ CascadeTracked => CascadeComplete
  <2> SUFFICES ASSUME IInv, CascadeTracked, NEW t \in Threads, op[t] = "cascade",
                      pc[t] = "Release", ok[t]
               PROVE  /\ target[t] \notin loaded
                      /\ \A d \in loaded : ~DependsOn(d, target[t])
    BY DEF CascadeComplete
  <2>1. todo[t] = <<>> /\ Walked(t)
    BY DEF CascadeTracked, CascadeOf, InsideFleet
  <2>2. target[t] \in Modules /\ loaded \subseteq Modules
    BY DEF IInv, TypeOK, NamesBound
  <2>3. Order(t) \in Seq(Modules) /\ Len(Order(t)) \in Nat /\ Passed(t) = Len(Order(t))
    <3>1. Order(t) \in Seq(Modules)
      BY <2>2, LifecycleAssumption DEF Order
    <3>2. Len(Order(t)) \in Nat /\ Len(todo[t]) = 0
      BY <3>1, <2>1
    <3> QED
      BY <3>1, <3>2 DEF Passed
  <2>4. \A i \in 1..Len(Order(t)) : Order(t)[i] \notin loaded
    BY <2>1, <2>3 DEF Walked, StillListed, StillUp
  <2>5. PICK j \in 1..Len(Order(t)) : Order(t)[j] = target[t]
    BY <2>2, TeardownAssumption DEF Order
  <2>6. ASSUME NEW d \in loaded, DependsOn(d, target[t]) PROVE FALSE
    <3>1. PICK i \in 1..(j - 1) : Order(t)[i] = d
      BY <2>2, <2>5, <2>6, TeardownAssumption DEF Order
    <3>2. i \in 1..Len(Order(t))
      BY <2>3
    <3> QED
      BY <3>1, <3>2, <2>4, <2>6
  <2> QED
    BY <2>4, <2>5, <2>6
<1> QED
  BY <1>1, InductiveInvariant, CascadesTracked, PTL

-----------------------------------------------------------------------------
(* The feed.                                                               *)

\* A module shown as `loading` or `stopping` is in the hands of the holder of
\* its lock; past the mark of an unload, the mark is still there to be consumed
\* by whoever records `unloaded`.
FeedOwned ==
    \A m \in Modules :
        /\ feed[m] = "loading" => HolderAt(m, LoadSteps \ {"LCheck"})
        /\ feed[m] = "stopping" =>
              \/ HolderAt(m, {"UHas", "UMark"})
              \/ m \in expected /\ HolderAt(m, {"UTerm", "UForget", "UConsume"})

\* A span that recorded `loading` or `stopping` records how it ended before it
\* lets go of the module lock.
LEMMA FeedStep == TypeOK /\ NamesBound /\ LocksHeld /\ FeedOwned /\ [Next]_vars => FeedOwned'
<1> SUFFICES ASSUME TypeOK, NamesBound, LocksHeld, FeedOwned, [Next]_vars
             PROVE  FeedOwned'
  OBVIOUS
<1> USE LifecycleAssumption
<1> USE DEF TypeOK, NamesBound, LocksHeld, FeedOwned, HolderAt, InsideFleet,
            SpanSteps, LoadSteps, UnloadSteps, FleetSteps, At, Goto, Record,
            Fail, Tolerated, callVars, threadVars, lockVars, tableVars,
            asioVars, boundVars, envVars
<1>1. ASSUME NEW t \in Threads, NEW o \in Ops, NEW m \in Modules, Call(t, o, m) PROVE FeedOwned'
  BY <1>1 DEF Call
<1>2. ASSUME NEW m \in Modules, RestartFires(m) PROVE FeedOwned'
  BY <1>2 DEF RestartFires
<1>3. ASSUME NEW m \in Modules, RestartUnknown(m) PROVE FeedOwned'
  BY <1>3 DEF RestartUnknown
<1>4. ASSUME NEW m \in Modules, RestartRefused(m) PROVE FeedOwned'
  BY <1>4 DEF RestartRefused
<1>5. ASSUME NEW t \in Threads, FleetShared(t) PROVE FeedOwned'
  BY <1>5 DEF FleetShared
<1>6. ASSUME NEW t \in Threads, ResolveFails(t) PROVE FeedOwned'
  BY <1>6 DEF ResolveFails
<1>7. ASSUME NEW t \in Threads, FleetExclusive(t) PROVE FeedOwned'
  BY <1>7 DEF FleetExclusive, LockFleet
<1>8. ASSUME NEW t \in Threads, CascadeBegins(t) PROVE FeedOwned'
  BY <1>8 DEF CascadeBegins, LockFleet
<1>9. ASSUME NEW t \in Threads, CascadeRefused(t) PROVE FeedOwned'
  BY <1>9 DEF CascadeRefused, LockFleet
<1>10. ASSUME NEW t \in Threads, LoopEnds(t) PROVE FeedOwned'
  BY <1>10 DEF LoopEnds
<1>11. ASSUME NEW t \in Threads, SkipModule(t) PROVE FeedOwned'
  BY <1>11 DEF SkipModule
<1>12. ASSUME NEW t \in Threads, UnknownModule(t) PROVE FeedOwned'
  BY <1>12 DEF UnknownModule
<1>13. ASSUME NEW t \in Threads, NextModule(t) PROVE FeedOwned'
  BY <1>13 DEF NextModule
<1>14. ASSUME NEW t \in Threads, LockModule(t) PROVE FeedOwned'
  BY <1>14 DEF LockModule
<1>15. ASSUME NEW t \in Threads, UnlockModule(t) PROVE FeedOwned'
  BY <1>15 DEF UnlockModule
<1>16. ASSUME NEW t \in Threads, ReleaseFleet(t) PROVE FeedOwned'
  BY <1>16 DEF ReleaseFleet
<1>17. ASSUME NEW t \in Threads, DispatchBatch(t) PROVE FeedOwned'
  BY <1>17 DEF DispatchBatch
<1>18. ASSUME NEW t \in Threads, AlreadyLoaded(t) PROVE FeedOwned'
  BY <1>18 DEF AlreadyLoaded
<1>19. ASSUME NEW t \in Threads, GateRefuses(t) PROVE FeedOwned'
  BY <1>19 DEF GateRefuses
<1>20. ASSUME NEW t \in Threads, LoadStarts(t) PROVE FeedOwned'
  BY <1>20 DEF LoadStarts
<1>21. ASSUME NEW t \in Threads, BeginLoadAttempt(t) PROVE FeedOwned'
  BY <1>21 DEF BeginLoadAttempt
<1>22. ASSUME NEW t \in Threads, LockSpawn(t) PROVE FeedOwned'
  BY <1>22 DEF LockSpawn
<1>23. ASSUME NEW t \in Threads, Launch(t) PROVE FeedOwned'
  BY <1>23 DEF Launch
<1>24. ASSUME NEW t \in Threads, LaunchFails(t) PROVE FeedOwned'
  BY <1>24 DEF LaunchFails
<1>25. ASSUME NEW t \in Threads, SendToken(t) PROVE FeedOwned'
  BY <1>25 DEF SendToken
<1>26. ASSUME NEW t \in Threads, TokenFails(t) PROVE FeedOwned'
  BY <1>26 DEF TokenFails
<1>27. ASSUME NEW t \in Threads, TokenFailedMark(t) PROVE FeedOwned'
  BY <1>27 DEF TokenFailedMark
<1>28. ASSUME NEW t \in Threads, TokenFailedTerminate(t) PROVE FeedOwned'
  BY <1>28 DEF TokenFailedTerminate, TerminateAttempt
<1>29. ASSUME NEW t \in Threads, TokenFailedConsume(t) PROVE FeedOwned'
  BY <1>29 DEF TokenFailedConsume
<1>30. ASSUME NEW t \in Threads, AwaitLoad(t) PROVE FeedOwned'
  BY <1>30 DEF AwaitLoad
<1>31. ASSUME NEW t \in Threads, VerdictFailed(t) PROVE FeedOwned'
  BY <1>31 DEF VerdictFailed
<1>32. ASSUME NEW t \in Threads, VerdictFailedTerminate(t) PROVE FeedOwned'
  BY <1>32 DEF VerdictFailedTerminate, TerminateAttempt
<1>33. ASSUME NEW t \in Threads, AbandonLoadAttempt(t) PROVE FeedOwned'
  BY <1>33 DEF AbandonLoadAttempt
<1>34. ASSUME NEW t \in Threads, CommitLoad(t) PROVE FeedOwned'
  BY <1>34 DEF CommitLoad
<1>35. ASSUME NEW t \in Threads, CommitRefused(t) PROVE FeedOwned'
  BY <1>35 DEF CommitRefused
<1>36. ASSUME NEW t \in Threads, PublishLoad(t) PROVE FeedOwned'
  BY <1>36 DEF PublishLoad
<1>37. ASSUME NEW t \in Threads, RecordLoaded(t) PROVE FeedOwned'
  BY <1>37 DEF RecordLoaded
<1>38. ASSUME NEW t \in Threads, UnloadStarts(t) PROVE FeedOwned'
  BY <1>38 DEF UnloadStarts
<1>39. ASSUME NEW t \in Threads, UnloadNotLoaded(t) PROVE FeedOwned'
  BY <1>39 DEF UnloadNotLoaded
<1>40. ASSUME NEW t \in Threads, UnloadHasModule(t) PROVE FeedOwned'
  BY <1>40 DEF UnloadHasModule
<1>41. ASSUME NEW t \in Threads, UnloadNoEntry(t) PROVE FeedOwned'
  BY <1>41 DEF UnloadNoEntry
<1>42. ASSUME NEW t \in Threads, UnloadMark(t) PROVE FeedOwned'
  BY <1>42 DEF UnloadMark
<1>43. ASSUME NEW t \in Threads, UnloadTerminate(t) PROVE FeedOwned'
  BY <1>43 DEF UnloadTerminate
<1>44. ASSUME NEW t \in Threads, UnloadTerminateInProc(t) PROVE FeedOwned'
  BY <1>44 DEF UnloadTerminateInProc
<1>45. ASSUME NEW t \in Threads, UnloadDispatch(t) PROVE FeedOwned'
  BY <1>45 DEF UnloadDispatch
<1>46. ASSUME NEW t \in Threads, UnloadForget(t) PROVE FeedOwned'
  BY <1>46 DEF UnloadForget
<1>47. ASSUME NEW t \in Threads, UnloadConsume(t) PROVE FeedOwned'
  BY <1>47 DEF UnloadConsume
<1>48. ASSUME NEW t \in Threads, MarkAllLoadedExitsExpected(t) PROVE FeedOwned'
  BY <1>48 DEF MarkAllLoadedExitsExpected
<1>49. ASSUME NEW t \in Threads, TerminateAllContainers(t) PROVE FeedOwned'
  BY <1>49 DEF TerminateAllContainers
<1>50. ASSUME NEW t \in Threads, FleetDispatch(t) PROVE FeedOwned'
  BY <1>50 DEF FleetDispatch
<1>51. ASSUME NEW t \in Threads, ClearExpectedExits(t) PROVE FeedOwned'
  <2>1. \A u \in Threads : u # t => pc[u] \notin SpanSteps
    BY <1>51 DEF ClearExpectedExits
  <2>2. \A m \in Modules : feed[m] \notin {"loading", "stopping"}
    <3> SUFFICES ASSUME NEW m \in Modules, feed[m] \in {"loading", "stopping"}
                 PROVE  FALSE
      OBVIOUS
    <3>1. PICK u \in Threads : pc[u] \in SpanSteps
      OBVIOUS
    <3> QED
      BY <1>51, <2>1, <3>1 DEF ClearExpectedExits
  <2> QED
    BY <1>51, <2>2 DEF ClearExpectedExits
<1>52. ASSUME NEW t \in Threads, ClearLoaded(t) PROVE FeedOwned'
  BY <1>52 DEF ClearLoaded
<1>53. ASSUME NEW m \in Modules, ModuleExits(m) PROVE FeedOwned'
  BY <1>53 DEF ModuleExits
<1>54. ASSUME NEW m \in Modules, AsioReaps(m) PROVE FeedOwned'
  BY <1>54 DEF AsioReaps
<1>55. ASSUME AsioSettles PROVE FeedOwned'
  BY <1>55 DEF AsioSettles
<1>56. ASSUME AsioConsumes PROVE FeedOwned'
  BY <1>56 DEF AsioConsumes
<1>57. ASSUME AsioReportsCrash PROVE FeedOwned'
  BY <1>57 DEF AsioReportsCrash
<1>58. ASSUME Discover PROVE FeedOwned'
  BY <1>58 DEF Discover
<1>59. CASE UNCHANGED vars
  BY <1>59 DEF vars
<1> QED
  BY <1>1, <1>2, <1>3, <1>4, <1>5, <1>6, <1>7, <1>8, <1>9, <1>10, <1>11,
     <1>12, <1>13, <1>14, <1>15, <1>16, <1>17, <1>18, <1>19, <1>20, <1>21,
     <1>22, <1>23, <1>24, <1>25, <1>26, <1>27, <1>28, <1>29, <1>30, <1>31,
     <1>32, <1>33, <1>34, <1>35, <1>36, <1>37, <1>38, <1>39, <1>40, <1>41,
     <1>42, <1>43, <1>44, <1>45, <1>46, <1>47, <1>48, <1>49, <1>50, <1>51,
     <1>52, <1>53, <1>54, <1>55, <1>56, <1>57, <1>58, <1>59
  DEF Next, ThreadStep, AsioStep, Finished

\* Once every call has returned and no death is being reported, no module is
\* left in `loading` or `stopping` (loadModuleInternal, unloadModuleInternal and
\* onTerminated record how each span ended).
THEOREM FeedIsNotStuck == Spec => []FeedNotStuck
<1>1. Init => FeedOwned
  BY DEF Init, FeedOwned
<1>2. IInv /\ FeedOwned /\ [Next]_vars => FeedOwned'
  BY FeedStep DEF IInv
<1>3. IInv /\ FeedOwned => FeedNotStuck
  BY DEF FeedOwned, FeedNotStuck, HolderAt, Quiescent, At, LoadSteps
<1> QED
  BY <1>1, <1>2, <1>3, InductiveInvariant, PTL DEF Spec
=============================================================================
