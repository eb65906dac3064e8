----------------------- MODULE AccessRestrictionsProofs -----------------------
(***************************************************************************)
(* Safety of AccessRestrictions for any modules, manifests, policies and   *)
(* worker threads.                                                         *)
(*                                                                         *)
(* Both properties speak of moments of rest. Between them the invariant    *)
(* says what is still to come: a target whose entry is out of date is on   *)
(* some thread's or the queue's list and will be read again after the      *)
(* change that outdated it, and the last token queued for a module is the  *)
(* one of its present load.                                                *)
(***************************************************************************)
EXTENDS AccessRestrictions, FiniteSetTheorems, TLAPS

Notices ==
    [kind : {"notify"}, name : Modules, token : Nat] \cup [kind : {"refresh"}, name : Modules]
Pushes == [targets : Seq(All), target : All \cup {None}, callers : CallerSets]
Pcs == {"idle", "start", "explicit", "notify", "refresh", "done"}

\* The registry, the threads, the queue and the broker hold values of their types.
Typed ==
    /\ policy.on \in BOOLEAN
    /\ policy.on => \A t \in DOMAIN policy.explicit : policy.explicit[t] \in CallerSets
    /\ loaded \subseteq All /\ token \in [Modules -> Nat] /\ edges \in [Modules -> Manifest]
    /\ pc \in [Threads -> Pcs] /\ cur \in [Threads -> All \cup {None}]
    /\ \A t \in Threads : pc[t] \in {"notify", "refresh"} => cur[t] \in Modules
    /\ queue \in Seq(Notices) /\ job \in Pushes
    /\ table \in [Modules -> CallerSets \cup {Open}] /\ identity \in [Modules -> Nat]
    /\ died \subseteq Modules /\ informed \subseteq Modules /\ overtaken \subseteq Modules
    /\ initialised \in BOOLEAN

\* Whoever was told anything was told by this capability_module, which only
\* logos_core_start initialises; the owner pushes between calls or at their end.
Broker ==
    /\ informed # {} => Capability \in loaded
    /\ initialised => started /\ Capability \in loaded
    /\ pc[Owner] = "start" => started
    /\ pc[Owner] \notin {"idle", "done"} => job = NoJob

\* The last token on its way to capability_module for m is that of its present
\* load; with none on its way, capability_module has it.
Told(m, i) == queue[i].kind = "notify" /\ queue[i].name = m
LastWord(m) ==
    /\ \A i \in DOMAIN queue :
          Told(m, i) /\ (\A l \in DOMAIN queue : i < l => ~Told(m, l)) =>
              queue[i].token = token[m]
    /\ (\A i \in DOMAIN queue : ~Told(m, i)) => identity[m] = token[m]
Notifying(m) == \E t \in Threads : pc[t] = "notify" /\ cur[t] = m
Identities == \A m \in informed \ overtaken : Notifying(m) \/ LastWord(m)

\* The targets a load or unload of m has its refresh push.
Affected(m) == DependenciesOf(m) \cup {m}

\* The entry of t will be read again.
Pending(t) ==
    \/ pc[Owner] = "explicit"
    \/ \E i \in DOMAIN job.targets : job.targets[i] = t
    \/ \E i \in DOMAIN queue : queue[i].kind = "refresh" /\ t \in Affected(queue[i].name)
    \/ \E u \in Threads : pc[u] \in {"notify", "refresh"} /\ t \in Affected(cur[u])

\* A list of callers that enforces the policy on t.
Accurate(S, t) ==
    /\ S # Open
    /\ Rightful(t) \subseteq S
    /\ S \ Rightful(t) \subseteq {d \in died : Declares(d, t)}

\* What is being sent, if t is being pushed, else what capability_module has.
Entry(t) == IF job.target = t THEN job.callers ELSE table[t]

Enforcing == initialised /\ policy.on

\* The targets whose entry must follow the registry: a rescan that changed a
\* target's dependents is not pushed.
Watched == loaded \ (Exempt \cup redeclared)

Restrictions ==
    Enforcing => \A t \in Watched : Pending(t) \/ Accurate(Entry(t), t)

\* An explicit list is what capability_module has from the start, and what every
\* push of its target carries.
Explicit ==
    Enforcing =>
        /\ pc[Owner] # "explicit" =>
              \A t \in (DOMAIN policy.explicit \cap Modules) \ Exempt : table[t] = policy.explicit[t]
        /\ job.target \in DOMAIN policy.explicit \ {None} => job.callers = policy.explicit[job.target]

\* Nothing is pushed for an exempt target.
NotExempt == job.target # None => job.target \in Modules \ Exempt

IInv == Typed /\ Broker /\ Identities /\ Restrictions /\ Explicit /\ NotExempt

-----------------------------------------------------------------------------
(* Lists of targets.                                                       *)

\* SetToSeq lists a finite set.
LEMMA SetToSeqLists ==
    ASSUME NEW S, IsFiniteSet(S)
    PROVE  SetToSeq(S) \in Seq(S) /\ \A x \in S : \E i \in DOMAIN SetToSeq(S) : SetToSeq(S)[i] = x
<1> DEFINE n == Cardinality(S)
           f == SetToSeq(S)
<1>1. n \in Nat /\ ExistsBijection(1 .. n, S)
  BY FS_CardinalityType
<1>2. PICK g : g \in Bijection(1 .. n, S)
  BY <1>1 DEF ExistsBijection
<1>3. g \in [1 .. n -> S] /\ IsInjective(g)
  BY <1>2 DEF Bijection, Injection, IsInjective
<1>4. f \in [1 .. n -> S] /\ IsInjective(f)
  BY <1>3 DEF SetToSeq
<1>5. f \in Injection(1 .. n, S)
  BY <1>4 DEF Injection
<1>6. IsFiniteSet(1 .. n) /\ Cardinality(1 .. n) = n
  BY <1>1, FS_Interval
<1> HIDE DEF n, f
<1>7. f \in Surjection(1 .. n, S)
  BY <1>5, <1>6, FS_Injection DEF n
<1>8. \A x \in S : \E i \in 1 .. n : f[i] = x
  BY <1>7 DEF Surjection
<1>9. f \in Seq(S) /\ DOMAIN f = 1 .. n
  BY <1>1, <1>4
<1> QED
  BY <1>8, <1>9 DEF f

\* Concatenation keeps the elements of both lists.
LEMMA ConcatLists ==
    ASSUME NEW S, NEW s \in Seq(S), NEW u \in Seq(S)
    PROVE  /\ s \o u \in Seq(S)
           /\ \A i \in DOMAIN s : i \in DOMAIN (s \o u) /\ (s \o u)[i] = s[i]
           /\ \A i \in DOMAIN u : Len(s) + i \in DOMAIN (s \o u) /\ (s \o u)[Len(s) + i] = u[i]
  OBVIOUS

\* The refresh of m pushes every target that m's load or unload affects.
LEMMA TargetsAreAffected ==
    ASSUME Typed, NEW m \in Modules
    PROVE  /\ TargetsOf(m) \in Seq(All)
           /\ \A x \in Affected(m) : \E i \in DOMAIN TargetsOf(m) : TargetsOf(m)[i] = x
<1> DEFINE r == SetToSeq(edges[m].required)
           o == SetToSeq(edges[m].optional)
<1>1. edges[m].required \subseteq Modules /\ edges[m].optional \subseteq Modules
  BY DEF Typed, Manifest
<1>2. IsFiniteSet(edges[m].required) /\ IsFiniteSet(edges[m].optional)
  BY <1>1, AccessAssumption, FS_Subset
<1>3. r \in Seq(Modules) /\ \A x \in edges[m].required : \E i \in DOMAIN r : r[i] = x
  BY <1>1, <1>2, SetToSeqLists
<1>4. o \in Seq(Modules) /\ \A x \in edges[m].optional : \E i \in DOMAIN o : o[i] = x
  BY <1>1, <1>2, SetToSeqLists
<1>5. TargetsOf(m) = (r \o o) \o <<m>>
  BY DEF TargetsOf
<1> HIDE DEF r, o
<1>6. <<m>> \in Seq(Modules) /\ 1 \in DOMAIN <<m>> /\ <<m>>[1] = m
  OBVIOUS
<1>7. r \o o \in Seq(Modules) /\ (r \o o) \o <<m>> \in Seq(Modules)
  BY <1>3, <1>4, <1>6, ConcatLists
<1>8. TargetsOf(m) \in Seq(All)
  <2>1. Modules \subseteq All
    BY DEF All
  <2> QED
    BY <1>5, <1>7, <2>1
<1>9. ASSUME NEW x \in Affected(m)
      PROVE  \E i \in DOMAIN TargetsOf(m) : TargetsOf(m)[i] = x
  <2>1. CASE x \in edges[m].required
    <3>1. PICK i \in DOMAIN r : r[i] = x
      BY <1>3, <2>1
    <3>2. i \in DOMAIN (r \o o) /\ (r \o o)[i] = x
      BY <1>3, <1>4, <3>1, ConcatLists
    <3>3. i \in DOMAIN TargetsOf(m) /\ TargetsOf(m)[i] = x
      BY <1>5, <1>6, <1>7, <3>2, ConcatLists
    <3> QED
      BY <3>3
  <2>2. CASE x \in edges[m].optional
    <3>1. PICK i \in DOMAIN o : o[i] = x
      BY <1>4, <2>2
    <3>2. Len(r) + i \in DOMAIN (r \o o) /\ (r \o o)[Len(r) + i] = x
      BY <1>3, <1>4, <3>1, ConcatLists
    <3>3. Len(r) + i \in DOMAIN TargetsOf(m) /\ TargetsOf(m)[Len(r) + i] = x
      BY <1>5, <1>6, <1>7, <3>2, ConcatLists
    <3> QED
      BY <3>3
  <2>3. CASE x = m
    <3>1. Len(r \o o) + 1 \in DOMAIN TargetsOf(m) /\ TargetsOf(m)[Len(r \o o) + 1] = m
      BY <1>5, <1>6, <1>7, ConcatLists
    <3> QED
      BY <2>3, <3>1
  <2> QED
    BY <2>1, <2>2, <2>3 DEF Affected, DependenciesOf
<1> QED
  BY <1>8, <1>9

\* What can be registered is finite, so the list of loaded modules is complete.
LEMMA LoadedListed ==
    ASSUME Typed
    PROVE  /\ SetToSeq(loaded) \in Seq(All)
           /\ \A x \in loaded : \E i \in DOMAIN SetToSeq(loaded) : SetToSeq(loaded)[i] = x
<1>1. IsFiniteSet(All)
  BY AccessAssumption, FS_AddElement DEF All
<1>2. loaded \subseteq All
  BY DEF Typed
<1>3. IsFiniteSet(loaded)
  BY <1>1, <1>2, FS_Subset
<1> QED
  BY <1>2, <1>3, SetToSeqLists

\* Appending to the queue and taking from it.
LEMMA QueueEnds ==
    ASSUME Typed
    PROVE  /\ \A x \in Notices :
                 /\ Append(queue, x) \in Seq(Notices)
                 /\ DOMAIN Append(queue, x) = DOMAIN queue \cup {Len(queue) + 1}
                 /\ Append(queue, x)[Len(queue) + 1] = x
                 /\ \A i \in DOMAIN queue : Append(queue, x)[i] = queue[i] /\ i < Len(queue) + 1
           /\ queue # <<>> =>
                 /\ Head(queue) \in Notices /\ Head(queue) = queue[1] /\ 1 \in DOMAIN queue
                 /\ Tail(queue) \in Seq(Notices)
                 /\ \A i \in DOMAIN queue : i # 1 =>
                       i - 1 \in DOMAIN Tail(queue) /\ Tail(queue)[i - 1] = queue[i]
                 /\ \A i \in DOMAIN Tail(queue) :
                       i + 1 \in DOMAIN queue /\ Tail(queue)[i] = queue[i + 1]
           /\ \A i \in DOMAIN queue : i \in Nat /\ i # 0
<1>1. queue \in Seq(Notices)
  BY DEF Typed
<1> QED
  BY <1>1

\* The target list of a push.
LEMMA TargetEnds ==
    ASSUME Typed, job.targets # <<>>
    PROVE  /\ job.targets \in Seq(All)
           /\ Head(job.targets) \in All /\ Tail(job.targets) \in Seq(All)
           /\ \A i \in DOMAIN job.targets :
                 \/ job.targets[i] = Head(job.targets)
                 \/ i - 1 \in DOMAIN Tail(job.targets) /\ Tail(job.targets)[i - 1] = job.targets[i]
<1>1. job.targets \in Seq(All)
  BY DEF Typed, Pushes
<1> QED
  BY <1>1

\* What the derivation comes to is a list of callers.
LEMMA DerivedTyped == Typed => \A t : DerivedAllowedCallersFor(t) \in CallerSets
<1> SUFFICES ASSUME Typed, NEW t PROVE DerivedAllowedCallersFor(t) \in CallerSets
  OBVIOUS
<1>1. {} \in CallerSets
  BY DEF CallerSets
<1>2. {d \in loaded \cap Modules : Declares(d, t)} \in SUBSET Modules
  OBVIOUS
<1>3. {d \in loaded \cap Modules : Declares(d, t)} \cup Trusted \in CallerSets
  BY <1>2 DEF CallerSets
<1> QED
  BY <1>1, <1>3 DEF DerivedAllowedCallersFor, Typed

\* Nobody is a list of callers.
LEMMA NoCallers == {} \in CallerSets
  BY DEF CallerSets

\* A push that is about to begin.
LEMMA NewJob == \A q \in Seq(All) : [NoJob EXCEPT !.targets = q] \in Pushes
  BY NoCallers DEF NoJob, Pushes

\* Every step keeps the types.
LEMMA TypeStep == Typed /\ NotExempt /\ [Next]_vars => Typed'
<1> SUFFICES ASSUME Typed, NotExempt, [Next]_vars
             PROVE  Typed'
  OBVIOUS
<1> USE AccessAssumption
<1> USE DEF configVars, threadVars, brokerVars, history, scanVars, Begins, Goto,
            BrokerUp, Pcs
<1>1. ASSUME NEW d \in Documents, SetAccessPolicy(d) PROVE Typed'
  <2>1. \A t \in DOMAIN d.restrictions : d.restrictions[t] \in CallerSets
    BY DEF CallerSets
  <2>2. policy'.on \in BOOLEAN
    BY <1>1 DEF SetAccessPolicy
  <2>3. policy'.on => policy'.explicit = d.restrictions
    BY <1>1 DEF SetAccessPolicy
  <2> QED
    BY <1>1, <2>1, <2>2, <2>3 DEF SetAccessPolicy, Typed
<1>2. ASSUME Start PROVE Typed'
  BY <1>2
  DEF Start, Typed, All
<1>3. ASSUME StartCommits PROVE Typed'
  BY <1>3
  DEF StartCommits, Typed, All
<1>4. ASSUME StartFails PROVE Typed'
  BY <1>4
  DEF StartFails, Typed
<1>5. ASSUME PushExplicit PROVE Typed'
  <2>1. job' \in Pushes
    BY <1>5, LoadedListed, NewJob DEF PushExplicit
  <2>2. table' \in [Modules -> CallerSets \cup {Open}]
    BY <1>5 DEF PushExplicit, Typed
  <2> QED
    BY <1>5, <2>1, <2>2 DEF PushExplicit, Typed
<1>6. ASSUME NEW t \in Threads, BrokerReloads(t) PROVE Typed'
  BY <1>6
  DEF BrokerReloads, Typed, All
<1>7. ASSUME NEW t \in Threads, NEW m \in Modules, LoadCommits(t, m) PROVE Typed'
  BY <1>7
  DEF LoadCommits, Typed, All
<1>8. ASSUME NEW t \in Threads, NEW m \in Modules, UnloadMarks(t, m) PROVE Typed'
  BY <1>8
  DEF UnloadMarks, Typed, All
<1>9. ASSUME NEW t \in Threads, NotifySkips(t) PROVE Typed'
  BY <1>9
  DEF NotifySkips, Typed
<1>10. ASSUME NEW t \in Threads, NotifyPosts(t) PROVE Typed'
  BY <1>10, QueueEnds
  DEF NotifyPosts, Typed, Notices
<1>11. ASSUME NEW t \in Threads, RefreshSkips(t) PROVE Typed'
  BY <1>11
  DEF RefreshSkips, Typed
<1>12. ASSUME NEW t \in Threads, RefreshPosts(t) PROVE Typed'
  BY <1>12, QueueEnds
  DEF RefreshPosts, Typed, Notices
<1>13. ASSUME NEW t \in Threads, Returns(t) PROVE Typed'
  BY <1>13
  DEF Returns, Typed
<1>14. ASSUME NotifyInline PROVE Typed'
  <2>1. cur[Owner] \in Modules /\ Owner \in Threads
    BY <1>14 DEF NotifyInline, Typed, Threads
  <2>2. identity' \in [Modules -> Nat]
    BY <1>14, <2>1 DEF NotifyInline, Typed
  <2>3. informed' \subseteq Modules /\ overtaken' \subseteq Modules
    BY <1>14, <2>1 DEF NotifyInline, Typed
  <2> QED
    BY <1>14, <2>1, <2>2, <2>3 DEF NotifyInline, Typed
<1>15. ASSUME RefreshInline PROVE Typed'
  <2>1. cur[Owner] \in Modules
    BY <1>15 DEF RefreshInline, Typed, Threads
  <2>2. job' \in Pushes
    BY <1>15, <2>1, TargetsAreAffected, NewJob DEF RefreshInline
  <2> QED
    BY <1>15, <2>2 DEF RefreshInline, Typed
<1>16. ASSUME OwnerTakes PROVE Typed'
  <2>1. Head(queue) \in Notices /\ Tail(queue) \in Seq(Notices)
    BY <1>16, QueueEnds DEF OwnerTakes
  <2>2. Head(queue).name \in Modules
    BY <2>1 DEF Notices
  <2>3. job' \in Pushes
    BY <1>16, <2>2, TargetsAreAffected, NewJob DEF OwnerTakes, Typed
  <2>4. Head(queue).kind # "refresh" => Head(queue).token \in Nat
    BY <2>1 DEF Notices
  <2>5. identity' \in [Modules -> Nat]
    BY <1>16, <2>2, <2>4 DEF OwnerTakes, Typed
  <2> QED
    BY <1>16, <2>1, <2>3, <2>5 DEF OwnerTakes, Typed
<1>17. ASSUME PushReads PROVE Typed'
  <2>1. Head(job.targets) \in All /\ Tail(job.targets) \in Seq(All)
    BY <1>17, TargetEnds DEF PushReads
  <2>2. job' \in Pushes
    BY <1>17, <2>1, DerivedTyped, NoCallers DEF PushReads, Pushes
  <2> QED
    BY <1>17, <2>2 DEF PushReads, Typed
<1>18. ASSUME PushSends PROVE Typed'
  <2>1. job.target \in Modules /\ job.callers \in CallerSets
    BY <1>18 DEF PushSends, NotExempt, Typed, Pushes
  <2>2. job' \in Pushes
    BY <1>18, NoCallers DEF PushSends, Typed, Pushes
  <2>3. table' \in [Modules -> CallerSets \cup {Open}]
    BY <1>18, <2>1 DEF PushSends, Typed
  <2> QED
    BY <1>18, <2>2, <2>3 DEF PushSends, Typed
<1>19. ASSUME NEW m \in Modules, Dies(m) PROVE Typed'
  BY <1>19
  DEF Dies, Typed
<1>20. ASSUME BrokerGoes PROVE Typed'
  BY <1>20
  DEF BrokerGoes, Typed
<1>21. ASSUME Clear PROVE Typed'
  BY <1>21
  DEF Clear, Typed
<1>22. ASSUME Finished PROVE Typed'
  BY <1>22
  DEF Finished, Typed, vars
<1>23. CASE UNCHANGED vars
  BY <1>23 DEF vars, Typed
<1>24. ASSUME NEW m \in Modules, NEW e \in Manifests[m], Rescans(m, e) PROVE Typed'
  <2>1. e \in Manifest
    BY DEF AccessAssumption
  <2>2. edges' \in [Modules -> Manifest]
    BY <1>24, <2>1 DEF Rescans, Typed
  <2> QED
    BY <1>24, <2>2 DEF Rescans, Typed
<1> QED
  BY <1>1, <1>2, <1>3, <1>4, <1>5, <1>6, <1>7, <1>8, <1>9, <1>10, <1>11,
     <1>12, <1>13, <1>14, <1>15, <1>16, <1>17, <1>18, <1>19, <1>20, <1>21,
     <1>22, <1>23, <1>24
  DEF Next

\* Only logos_core_start initialises capability_module, and nothing outlives it.
LEMMA BrokerStep == Typed /\ Broker /\ [Next]_vars => Broker'
<1> SUFFICES ASSUME Typed, Broker, [Next]_vars
             PROVE  Broker'
  OBVIOUS
<1> USE AccessAssumption
<1> USE DEF configVars, threadVars, brokerVars, history, scanVars, Begins, Goto,
            BrokerUp, Broker, OwnerIsFree, Typed, Threads
<1>1. ASSUME NEW d \in Documents, SetAccessPolicy(d) PROVE Broker'
  BY <1>1 DEF SetAccessPolicy
<1>2. ASSUME Start PROVE Broker'
  BY <1>2 DEF Start
<1>3. ASSUME StartCommits PROVE Broker'
  BY <1>3 DEF StartCommits
<1>4. ASSUME StartFails PROVE Broker'
  BY <1>4 DEF StartFails
<1>5. ASSUME PushExplicit PROVE Broker'
  BY <1>5 DEF PushExplicit
<1>6. ASSUME NEW t \in Threads, BrokerReloads(t) PROVE Broker'
  BY <1>6 DEF BrokerReloads
<1>7. ASSUME NEW t \in Threads, NEW m \in Modules, LoadCommits(t, m) PROVE Broker'
  BY <1>7 DEF LoadCommits
<1>8. ASSUME NEW t \in Threads, NEW m \in Modules, UnloadMarks(t, m) PROVE Broker'
  BY <1>8 DEF UnloadMarks
<1>9. ASSUME NEW t \in Threads, NotifySkips(t) PROVE Broker'
  BY <1>9 DEF NotifySkips
<1>10. ASSUME NEW t \in Threads, NotifyPosts(t) PROVE Broker'
  BY <1>10 DEF NotifyPosts
<1>11. ASSUME NEW t \in Threads, RefreshSkips(t) PROVE Broker'
  BY <1>11 DEF RefreshSkips
<1>12. ASSUME NEW t \in Threads, RefreshPosts(t) PROVE Broker'
  BY <1>12 DEF RefreshPosts
<1>13. ASSUME NEW t \in Threads, Returns(t) PROVE Broker'
  BY <1>13 DEF Returns
<1>14. ASSUME NotifyInline PROVE Broker'
  BY <1>14 DEF NotifyInline
<1>15. ASSUME RefreshInline PROVE Broker'
  BY <1>15 DEF RefreshInline
<1>16. ASSUME OwnerTakes PROVE Broker'
  BY <1>16 DEF OwnerTakes
<1>17. ASSUME PushReads PROVE Broker'
  BY <1>17 DEF PushReads, NoJob
<1>18. ASSUME PushSends PROVE Broker'
  BY <1>18 DEF PushSends, NoJob
<1>19. ASSUME NEW m \in Modules, Dies(m) PROVE Broker'
  BY <1>19 DEF Dies
<1>20. ASSUME BrokerGoes PROVE Broker'
  BY <1>20 DEF BrokerGoes
<1>21. ASSUME Clear PROVE Broker'
  BY <1>21 DEF Clear
<1>22. ASSUME Finished PROVE Broker'
  BY <1>22 DEF Finished, vars
<1>23. CASE UNCHANGED vars
  BY <1>23 DEF vars
<1>24. ASSUME NEW m \in Modules, NEW e \in Manifests[m], Rescans(m, e) PROVE Broker'
  BY <1>24 DEF Rescans
<1> QED
  BY <1>1, <1>2, <1>3, <1>4, <1>5, <1>6, <1>7, <1>8, <1>9, <1>10, <1>11,
     <1>12, <1>13, <1>14, <1>15, <1>16, <1>17, <1>18, <1>19, <1>20, <1>21,
     <1>22, <1>23, <1>24
  DEF Next

\* A push skips exempt targets.
LEMMA NotExemptStep == Typed /\ NotExempt /\ [Next]_vars => NotExempt'
<1> SUFFICES ASSUME Typed, NotExempt, [Next]_vars
             PROVE  NotExempt'
  OBVIOUS
<1> USE AccessAssumption
<1> USE DEF configVars, threadVars, brokerVars, history, scanVars, Begins, Goto,
            BrokerUp, NotExempt, NoJob, Typed, Pushes, All
<1>1. ASSUME NEW d \in Documents, SetAccessPolicy(d) PROVE NotExempt'
  BY <1>1 DEF SetAccessPolicy
<1>2. ASSUME Start PROVE NotExempt'
  BY <1>2 DEF Start
<1>3. ASSUME StartCommits PROVE NotExempt'
  BY <1>3 DEF StartCommits
<1>4. ASSUME StartFails PROVE NotExempt'
  BY <1>4 DEF StartFails
<1>5. ASSUME PushExplicit PROVE NotExempt'
  BY <1>5 DEF PushExplicit
<1>6. ASSUME NEW t \in Threads, BrokerReloads(t) PROVE NotExempt'
  BY <1>6 DEF BrokerReloads
<1>7. ASSUME NEW t \in Threads, NEW m \in Modules, LoadCommits(t, m) PROVE NotExempt'
  BY <1>7 DEF LoadCommits
<1>8. ASSUME NEW t \in Threads, NEW m \in Modules, UnloadMarks(t, m) PROVE NotExempt'
  BY <1>8 DEF UnloadMarks
<1>9. ASSUME NEW t \in Threads, NotifySkips(t) PROVE NotExempt'
  BY <1>9 DEF NotifySkips
<1>10. ASSUME NEW t \in Threads, NotifyPosts(t) PROVE NotExempt'
  BY <1>10 DEF NotifyPosts
<1>11. ASSUME NEW t \in Threads, RefreshSkips(t) PROVE NotExempt'
  BY <1>11 DEF RefreshSkips
<1>12. ASSUME NEW t \in Threads, RefreshPosts(t) PROVE NotExempt'
  BY <1>12 DEF RefreshPosts
<1>13. ASSUME NEW t \in Threads, Returns(t) PROVE NotExempt'
  BY <1>13 DEF Returns
<1>14. ASSUME NotifyInline PROVE NotExempt'
  BY <1>14 DEF NotifyInline
<1>15. ASSUME RefreshInline PROVE NotExempt'
  BY <1>15 DEF RefreshInline
<1>16. ASSUME OwnerTakes PROVE NotExempt'
  BY <1>16 DEF OwnerTakes
<1>17. ASSUME PushReads PROVE NotExempt'
  BY <1>17, TargetEnds DEF PushReads, DerivedAllowedCallersFor
<1>18. ASSUME PushSends PROVE NotExempt'
  BY <1>18 DEF PushSends
<1>19. ASSUME NEW m \in Modules, Dies(m) PROVE NotExempt'
  BY <1>19 DEF Dies
<1>20. ASSUME BrokerGoes PROVE NotExempt'
  BY <1>20 DEF BrokerGoes
<1>21. ASSUME Clear PROVE NotExempt'
  BY <1>21 DEF Clear
<1>22. ASSUME Finished PROVE NotExempt'
  BY <1>22 DEF Finished, vars
<1>23. CASE UNCHANGED vars
  BY <1>23 DEF vars
<1>24. ASSUME NEW m \in Modules, NEW e \in Manifests[m], Rescans(m, e) PROVE NotExempt'
  BY <1>24 DEF Rescans
<1> QED
  BY <1>1, <1>2, <1>3, <1>4, <1>5, <1>6, <1>7, <1>8, <1>9, <1>10, <1>11,
     <1>12, <1>13, <1>14, <1>15, <1>16, <1>17, <1>18, <1>19, <1>20, <1>21,
     <1>22, <1>23, <1>24
  DEF Next

-----------------------------------------------------------------------------
(* Identities.                                                             *)

\* What leaves the tokens and their way to capability_module alone, and no load
\* past its notification.
LEMMA IdentitiesKept ==
    ASSUME Identities, UNCHANGED <<queue, token, identity, overtaken>>,
           informed' \subseteq informed,
           \A u \in Threads : pc[u] = "notify" => pc'[u] = "notify" /\ cur'[u] = cur[u]
    PROVE  Identities'
<1> SUFFICES ASSUME NEW m \in (informed \ overtaken)' PROVE Notifying(m)' \/ LastWord(m)'
  BY DEF Identities
<1>1. Notifying(m) \/ LastWord(m)
  BY DEF Identities
<1>2. Notifying(m) => Notifying(m)'
  BY DEF Notifying
<1>3. LastWord(m) => LastWord(m)'
  BY DEF LastWord, Told
<1> QED
  BY <1>1, <1>2, <1>3

\* The queue delivers the tokens in the order of the loads, so the last word on a
\* module is its present token, unless an owner-thread load overtook the queue.
LEMMA IdentitiesStep == Typed /\ Broker /\ Identities /\ [Next]_vars => Identities'
<1> SUFFICES ASSUME Typed, Broker, Identities, [Next]_vars
             PROVE  Identities'
  OBVIOUS
<1> USE AccessAssumption
<1> USE DEF configVars, threadVars, brokerVars, history, scanVars, Begins, Goto,
            BrokerUp
<1>1. ASSUME NEW d \in Documents, SetAccessPolicy(d) PROVE Identities'
  BY <1>1, IdentitiesKept DEF SetAccessPolicy
<1>2. ASSUME Start PROVE Identities'
  BY <1>2, IdentitiesKept DEF Start, Typed
<1>3. ASSUME StartCommits PROVE Identities'
  BY <1>3 DEF StartCommits, Identities
<1>4. ASSUME StartFails PROVE Identities'
  BY <1>4, IdentitiesKept DEF StartFails, Typed
<1>5. ASSUME PushExplicit PROVE Identities'
  BY <1>5, IdentitiesKept DEF PushExplicit, Typed
<1>6. ASSUME NEW t \in Threads, BrokerReloads(t) PROVE Identities'
  BY <1>6 DEF BrokerReloads, Identities
<1>7. ASSUME NEW t \in Threads, NEW m \in Modules, LoadCommits(t, m) PROVE Identities'
  <2> SUFFICES ASSUME NEW x \in informed \ overtaken PROVE Notifying(x)' \/ LastWord(x)'
    BY <1>7 DEF LoadCommits, Identities
  <2>1. CASE x = m
    <3>1. pc'[t] = "notify" /\ cur'[t] = m
      BY <1>7 DEF LoadCommits, Typed
    <3> QED
      BY <2>1, <3>1 DEF Notifying
  <2>2. CASE x # m
    <3>1. token'[x] = token[x]
      BY <1>7, <2>2 DEF LoadCommits, Typed
    <3>2. LastWord(x) => LastWord(x)'
      BY <1>7, <3>1 DEF LoadCommits, LastWord, Told
    <3>3. Notifying(x) => Notifying(x)'
      BY <1>7 DEF LoadCommits, Notifying, Typed
    <3> QED
      BY <3>2, <3>3 DEF Identities
  <2> QED
    BY <2>1, <2>2
<1>8. ASSUME NEW t \in Threads, NEW m \in Modules, UnloadMarks(t, m) PROVE Identities'
  BY <1>8, IdentitiesKept DEF UnloadMarks, Typed
<1>9. ASSUME NEW t \in Threads, NotifySkips(t) PROVE Identities'
  BY <1>9 DEF NotifySkips, Identities, Broker
<1>10. ASSUME NEW t \in Threads, NotifyPosts(t) PROVE Identities'
  <2>n. PICK n : n = Len(queue) + 1
    OBVIOUS
  <2>y. PICK y : y = [kind |-> "notify", name |-> cur[t], token |-> token[cur[t]]]
    OBVIOUS
  <2>1. cur[t] \in Modules /\ y \in Notices /\ queue' = Append(queue, y)
    BY <1>10, <2>y DEF NotifyPosts, Typed, Notices
  <2>2. /\ DOMAIN queue' = DOMAIN queue \cup {n} /\ queue'[n] = y
        /\ \A i \in DOMAIN queue : queue'[i] = queue[i] /\ i < n
    BY <2>1, <2>n, QueueEnds
  <2>3. y.kind = "notify" /\ y.name = cur[t] /\ y.token = token[cur[t]]
    BY <2>y
  <2> SUFFICES ASSUME NEW x \in (informed \ overtaken)' PROVE Notifying(x)' \/ LastWord(x)'
    BY DEF Identities
  <2>5. CASE x = cur[t]
    <3>1. Told(x, n)'
      BY <2>2, <2>3, <2>5 DEF Told
    <3>2. ASSUME NEW i \in DOMAIN queue', \A l \in DOMAIN queue' : i < l => ~Told(x, l)'
          PROVE  i = n
      BY <2>2, <3>1, <3>2
    <3>3. LastWord(x)'
      BY <1>10, <2>2, <2>3, <2>5, <3>1, <3>2 DEF LastWord, NotifyPosts
    <3> QED
      BY <3>3
  <2>6. CASE x # cur[t]
    <3>1. x \in informed \ overtaken
      BY <1>10, <2>6 DEF NotifyPosts
    <3>2. \A i \in DOMAIN queue : Told(x, i)' <=> Told(x, i)
      BY <2>2 DEF Told
    <3>3. ~Told(x, n)'
      BY <2>2, <2>3, <2>6 DEF Told
    <3>4. LastWord(x) => LastWord(x)'
      BY <1>10, <2>2, <3>2, <3>3 DEF LastWord, NotifyPosts
    <3>5. Notifying(x) => Notifying(x)'
      BY <1>10, <2>6 DEF NotifyPosts, Notifying, Typed
    <3> QED
      BY <3>1, <3>4, <3>5 DEF Identities
  <2> QED
    BY <2>5, <2>6
<1>11. ASSUME NEW t \in Threads, RefreshSkips(t) PROVE Identities'
  BY <1>11, IdentitiesKept DEF RefreshSkips, Typed
<1>12. ASSUME NEW t \in Threads, RefreshPosts(t) PROVE Identities'
  <2>n. PICK n : n = Len(queue) + 1
    OBVIOUS
  <2>y. PICK y : y = [kind |-> "refresh", name |-> cur[t]]
    OBVIOUS
  <2>1. cur[t] \in Modules /\ y \in Notices /\ queue' = Append(queue, y)
    BY <1>12, <2>y DEF RefreshPosts, Typed, Notices
  <2>2. /\ DOMAIN queue' = DOMAIN queue \cup {n} /\ queue'[n] = y
        /\ \A i \in DOMAIN queue : queue'[i] = queue[i] /\ i < n
    BY <2>1, <2>n, QueueEnds
  <2>3. y.kind = "refresh"
    BY <2>y
  <2> SUFFICES ASSUME NEW x \in informed \ overtaken PROVE Notifying(x)' \/ LastWord(x)'
    BY <1>12 DEF RefreshPosts, Identities
  <2>4. \A i \in DOMAIN queue : Told(x, i)' <=> Told(x, i)
    BY <2>2 DEF Told
  <2>5. ~Told(x, n)'
    BY <2>2, <2>3 DEF Told
  <2>6. LastWord(x) => LastWord(x)'
    BY <1>12, <2>2, <2>4, <2>5 DEF LastWord, RefreshPosts
  <2>7. Notifying(x) => Notifying(x)'
    BY <1>12 DEF RefreshPosts, Notifying, Typed
  <2> QED
    BY <2>6, <2>7 DEF Identities
<1>13. ASSUME NEW t \in Threads, Returns(t) PROVE Identities'
  BY <1>13, IdentitiesKept DEF Returns, Typed
<1>14. ASSUME NotifyInline PROVE Identities'
  <2>1. cur[Owner] \in Modules /\ Owner \in Threads
    BY <1>14 DEF NotifyInline, Typed, Threads
  <2> SUFFICES ASSUME NEW x \in (informed \ overtaken)' PROVE Notifying(x)' \/ LastWord(x)'
    BY DEF Identities
  <2>2. \A i \in DOMAIN queue : Told(x, i)' <=> Told(x, i)
    BY <1>14 DEF NotifyInline, Told
  <2>3. CASE x = cur[Owner]
    <3>1. \A i \in DOMAIN queue : ~Told(x, i)
      BY <1>14, <2>3 DEF NotifyInline, Queued, Told
    <3>2. identity'[x] = token'[x]
      BY <1>14, <2>1, <2>3 DEF NotifyInline, Typed
    <3> QED
      BY <1>14, <2>2, <3>1, <3>2 DEF LastWord, NotifyInline
  <2>4. CASE x # cur[Owner]
    <3>1. x \in informed \ overtaken
      BY <1>14, <2>4 DEF NotifyInline
    <3>2. identity'[x] = identity[x]
      BY <1>14, <2>4, <3>1 DEF NotifyInline, Typed
    <3>3. LastWord(x) => LastWord(x)'
      BY <1>14, <2>2, <3>2 DEF LastWord, NotifyInline
    <3>4. Notifying(x) => Notifying(x)'
      BY <1>14, <2>4 DEF NotifyInline, Notifying, Typed
    <3> QED
      BY <3>1, <3>3, <3>4 DEF Identities
  <2> QED
    BY <2>3, <2>4
<1>15. ASSUME RefreshInline PROVE Identities'
  BY <1>15, IdentitiesKept DEF RefreshInline, Typed
<1>16. ASSUME OwnerTakes PROVE Identities'
  <2> SUFFICES ASSUME NEW x \in informed \ overtaken PROVE Notifying(x)' \/ LastWord(x)'
    BY <1>16 DEF OwnerTakes, Identities
  <2>1. Capability \in loaded
    BY DEF Broker
  <2>2. /\ queue' = Tail(queue) /\ 1 \in DOMAIN queue /\ Head(queue) = queue[1]
        /\ \A i \in DOMAIN queue : i # 1 => i - 1 \in DOMAIN queue' /\ queue'[i - 1] = queue[i]
        /\ \A i \in DOMAIN queue' : i + 1 \in DOMAIN queue /\ queue'[i] = queue[i + 1]
        /\ \A i \in DOMAIN queue : i \in Nat /\ i # 0
    BY <1>16, QueueEnds DEF OwnerTakes
  <2>3. Tail(queue) \in Seq(Notices)
    BY <1>16, QueueEnds DEF OwnerTakes
  <2>4. \A i \in DOMAIN queue' : i \in Nat
    BY <2>2, <2>3
  <2>5. \A i \in DOMAIN queue' : Told(x, i)' <=> Told(x, i + 1)
    BY <2>2 DEF Told
  <2>6. \A i \in DOMAIN queue : i # 1 => (Told(x, i - 1)' <=> Told(x, i))
    BY <2>2 DEF Told
  <2>7. Notifying(x) => Notifying(x)'
    BY <1>16 DEF OwnerTakes, Notifying
  <2>8. ASSUME LastWord(x) PROVE LastWord(x)'
    <3>1. ASSUME NEW i \in DOMAIN queue', Told(x, i)',
                 \A l \in DOMAIN queue' : i < l => ~Told(x, l)'
          PROVE  queue'[i].token = token'[x]
      <4>1. i + 1 \in DOMAIN queue /\ Told(x, i + 1)
        BY <2>2, <2>5, <3>1
      <4>2. ASSUME NEW l \in DOMAIN queue, i + 1 < l PROVE ~Told(x, l)
        <5>1. l # 1 /\ i < l - 1
          BY <2>2, <2>4, <4>2
        <5> QED
          BY <2>2, <2>6, <3>1, <5>1
      <4>3. queue[i + 1].token = token[x]
        BY <2>8, <4>1, <4>2 DEF LastWord
      <4> QED
        BY <1>16, <2>2, <4>3 DEF OwnerTakes
    <3>2. ASSUME \A i \in DOMAIN queue' : ~Told(x, i)' PROVE identity'[x] = token'[x]
      <4>1. \A i \in DOMAIN queue : i # 1 => ~Told(x, i)
        BY <2>2, <2>6, <3>2
      <4>2. CASE Told(x, 1)
        <5>1. queue[1].token = token[x]
          <6>1. \A l \in DOMAIN queue : 1 < l => ~Told(x, l)
            BY <4>1, <2>2
          <6> QED
            BY <2>2, <2>8, <4>2, <6>1 DEF LastWord
        <5>2. identity' = [identity EXCEPT ![x] = queue[1].token]
          BY <1>16, <2>1, <2>2, <4>2 DEF OwnerTakes, Told
        <5>3. identity'[x] = queue[1].token
          BY <5>2 DEF Typed
        <5> QED
          BY <1>16, <5>1, <5>3 DEF OwnerTakes
      <4>3. CASE ~Told(x, 1)
        <5>1. identity[x] = token[x]
          BY <2>8, <4>1, <4>3 DEF LastWord
        <5>2. Head(queue) \in Notices
          BY <1>16, QueueEnds DEF OwnerTakes
        <5>3. queue[1].kind = "refresh" \/ queue[1].name # x
          BY <2>2, <4>3, <5>2 DEF Told, Notices
        <5>4. identity'[x] = identity[x]
          BY <1>16, <2>2, <5>3 DEF OwnerTakes, Typed
        <5> QED
          BY <1>16, <5>1, <5>4 DEF OwnerTakes
      <4> QED
        BY <4>2, <4>3
    <3> QED
      BY <3>1, <3>2 DEF LastWord
  <2> QED
    BY <2>7, <2>8 DEF Identities
<1>17. ASSUME PushReads PROVE Identities'
  BY <1>17, IdentitiesKept DEF PushReads
<1>18. ASSUME PushSends PROVE Identities'
  BY <1>18, IdentitiesKept DEF PushSends
<1>19. ASSUME NEW m \in Modules, Dies(m) PROVE Identities'
  BY <1>19, IdentitiesKept DEF Dies
<1>20. ASSUME BrokerGoes PROVE Identities'
  BY <1>20 DEF BrokerGoes, Identities
<1>21. ASSUME Clear PROVE Identities'
  BY <1>21 DEF Clear, Identities
<1>22. ASSUME Finished PROVE Identities'
  BY <1>22, IdentitiesKept DEF Finished, vars
<1>23. CASE UNCHANGED vars
  BY <1>23, IdentitiesKept DEF vars
<1>24. ASSUME NEW m \in Modules, NEW e \in Manifests[m], Rescans(m, e) PROVE Identities'
  BY <1>24, IdentitiesKept DEF Rescans
<1> QED
  BY <1>1, <1>2, <1>3, <1>4, <1>5, <1>6, <1>7, <1>8, <1>9, <1>10, <1>11,
     <1>12, <1>13, <1>14, <1>15, <1>16, <1>17, <1>18, <1>19, <1>20, <1>21,
     <1>22, <1>23, <1>24
  DEF Next

-----------------------------------------------------------------------------
(* Restrictions.                                                           *)

\* A target waits for its push as long as no thread, no queued refresh and no
\* target list loses it.
LEMMA PendingKept ==
    ASSUME NEW x, Pending(x), UNCHANGED <<queue, job, edges>>,
           pc[Owner] = "explicit" => pc'[Owner] = "explicit",
           \A u \in Threads : pc[u] \in {"notify", "refresh"} =>
               pc'[u] \in {"notify", "refresh"} /\ cur'[u] = cur[u]
    PROVE  Pending(x)'
  BY DEF Pending, Affected, DependenciesOf

\* What changes no entry and no target's callers, and drops no pending target.
LEMMA RestrictionsKept ==
    ASSUME Restrictions, UNCHANGED <<policy, loaded, edges, redeclared, died, table, initialised>>,
           job'.target = job.target, job'.callers = job.callers,
           Enforcing => \A x \in Watched : Pending(x) => Pending(x)'
    PROVE  Restrictions'
<1> SUFFICES ASSUME Enforcing', NEW x \in Watched
             PROVE  Pending(x)' \/ Accurate(Entry(x), x)'
  BY DEF Restrictions, Watched
<1>1. Enforcing
  BY DEF Enforcing
<1>2. Accurate(Entry(x), x) => Accurate(Entry(x), x)'
  BY DEF Accurate, Entry, Rightful, Declares, DependenciesOf
<1> QED
  BY <1>1, <1>2 DEF Restrictions

\* Without an initialised capability_module there is nothing to keep.
LEMMA NotEnforcing == ~initialised' => Restrictions' /\ Explicit'
  BY DEF Restrictions, Explicit, Enforcing

\* A load or unload makes stale only targets its own refresh has still to push,
\* and a push reads the registry when it comes to its target.
LEMMA RestrictionsStep ==
    Typed /\ Broker /\ Restrictions /\ Explicit /\ NotExempt /\ [Next]_vars => Restrictions'
<1> SUFFICES ASSUME Typed, Broker, Restrictions, Explicit, NotExempt,
                    [Next]_vars
             PROVE  Restrictions'
  OBVIOUS
<1> USE AccessAssumption
<1> USE DEF configVars, threadVars, brokerVars, history, scanVars, Begins, Goto,
            BrokerUp, Watched, Affected, Declares, DependenciesOf
<1>1. ASSUME NEW d \in Documents, SetAccessPolicy(d) PROVE Restrictions'
  BY <1>1, NotEnforcing DEF SetAccessPolicy, Broker
<1>2. ASSUME Start PROVE Restrictions'
  BY <1>2, NotEnforcing DEF Start, Broker
<1>3. ASSUME StartCommits PROVE Restrictions'
  <2>1. pc'[Owner] = "explicit"
    BY <1>3 DEF StartCommits, Typed, Threads
  <2> QED
    BY <2>1 DEF Restrictions, Pending
<1>4. ASSUME StartFails PROVE Restrictions'
  BY <1>4, PendingKept, RestrictionsKept DEF StartFails, Typed
<1>5. ASSUME PushExplicit PROVE Restrictions'
  <2>1. job'.targets = SetToSeq(loaded) /\ loaded' = loaded
    BY <1>5 DEF PushExplicit, NoJob
  <2>2. \A x \in loaded' : Pending(x)'
    BY <2>1, LoadedListed DEF Pending
  <2> QED
    BY <2>2 DEF Restrictions
<1>6. ASSUME NEW t \in Threads, BrokerReloads(t) PROVE Restrictions'
  BY <1>6, NotEnforcing DEF BrokerReloads
<1>7. ASSUME NEW t \in Threads, NEW m \in Modules, LoadCommits(t, m) PROVE Restrictions'
  <2> SUFFICES ASSUME Enforcing', NEW x \in Watched'
               PROVE  Pending(x)' \/ Accurate(Entry(x), x)'
    BY DEF Restrictions
  <2>1. Enforcing
    BY <1>7 DEF LoadCommits, Enforcing
  <2>2. pc'[t] = "notify" /\ cur'[t] = m /\ pc[t] = "idle"
    BY <1>7 DEF LoadCommits, Typed
  <2>3. CASE x \in Affected(m)
    BY <1>7, <2>2, <2>3 DEF Pending, LoadCommits
  <2>4. CASE x \notin Affected(m)
    <3>1. x # m /\ ~Declares(m, x)
      BY <2>4 DEF Affected, Declares
    <3>2. x \in Watched
      BY <1>7, <3>1 DEF LoadCommits
    <3>3. ASSUME Pending(x) PROVE Pending(x)'
      <4>1. pc[Owner] = "explicit" => pc'[Owner] = "explicit"
        BY <1>7 DEF LoadCommits, Typed
      <4>2. \A u \in Threads : pc[u] \in {"notify", "refresh"} =>
                pc'[u] \in {"notify", "refresh"} /\ cur'[u] = cur[u]
        BY <1>7 DEF LoadCommits, Typed
      <4>3. UNCHANGED <<queue, job, edges>>
        BY <1>7 DEF LoadCommits
      <4> QED
        BY <3>3, <4>1, <4>2, <4>3, PendingKept
    <3>4. ASSUME Accurate(Entry(x), x) PROVE Accurate(Entry(x), x)'
      <4>1. Rightful(x)' = Rightful(x)
        BY <1>7, <3>1 DEF LoadCommits, Rightful
      <4>2. Entry(x)' = Entry(x)
        BY <1>7 DEF LoadCommits, Entry
      <4>3. {d \in died : Declares(d, x)} \subseteq {d \in died' : Declares(d, x)}
        BY <1>7, <3>1 DEF LoadCommits
      <4>4. UNCHANGED edges
        BY <1>7 DEF LoadCommits
      <4> QED
        BY <3>4, <4>1, <4>2, <4>3, <4>4 DEF Accurate
    <3> QED
      BY <2>1, <3>2, <3>3, <3>4 DEF Restrictions
  <2> QED
    BY <2>3, <2>4
<1>8. ASSUME NEW t \in Threads, NEW m \in Modules, UnloadMarks(t, m) PROVE Restrictions'
  <2> SUFFICES ASSUME Enforcing', NEW x \in Watched'
               PROVE  Pending(x)' \/ Accurate(Entry(x), x)'
    BY DEF Restrictions
  <2>1. Enforcing
    BY <1>8 DEF UnloadMarks, Enforcing
  <2>2. pc'[t] = "refresh" /\ cur'[t] = m /\ pc[t] = "idle"
    BY <1>8 DEF UnloadMarks, Typed
  <2>3. CASE x \in Affected(m)
    BY <1>8, <2>2, <2>3 DEF Pending, UnloadMarks
  <2>4. CASE x \notin Affected(m)
    <3>1. x # m /\ ~Declares(m, x)
      BY <2>4 DEF Affected, Declares
    <3>2. x \in Watched
      BY <1>8, <3>1 DEF UnloadMarks
    <3>3. ASSUME Pending(x) PROVE Pending(x)'
      <4>1. pc[Owner] = "explicit" => pc'[Owner] = "explicit"
        BY <1>8 DEF UnloadMarks, Typed
      <4>2. \A u \in Threads : pc[u] \in {"notify", "refresh"} =>
                pc'[u] \in {"notify", "refresh"} /\ cur'[u] = cur[u]
        BY <1>8 DEF UnloadMarks, Typed
      <4>3. UNCHANGED <<queue, job, edges>>
        BY <1>8 DEF UnloadMarks
      <4> QED
        BY <3>3, <4>1, <4>2, <4>3, PendingKept
    <3>4. ASSUME Accurate(Entry(x), x) PROVE Accurate(Entry(x), x)'
      <4>1. Rightful(x)' = Rightful(x)
        BY <1>8, <3>1 DEF UnloadMarks, Rightful
      <4>2. Entry(x)' = Entry(x)
        BY <1>8 DEF UnloadMarks, Entry
      <4>3. {d \in died : Declares(d, x)} \subseteq {d \in died' : Declares(d, x)}
        BY <1>8, <3>1 DEF UnloadMarks
      <4>4. UNCHANGED edges
        BY <1>8 DEF UnloadMarks
      <4> QED
        BY <3>4, <4>1, <4>2, <4>3, <4>4 DEF Accurate
    <3> QED
      BY <2>1, <3>2, <3>3, <3>4 DEF Restrictions
  <2> QED
    BY <2>3, <2>4
<1>9. ASSUME NEW t \in Threads, NotifySkips(t) PROVE Restrictions'
  BY <1>9, NotEnforcing DEF NotifySkips, Broker
<1>10. ASSUME NEW t \in Threads, NotifyPosts(t) PROVE Restrictions'
  <2>1. PICK y \in Notices : queue' = Append(queue, y)
    BY <1>10 DEF NotifyPosts, Typed, Notices
  <2>2. /\ DOMAIN queue \subseteq DOMAIN queue'
        /\ \A i \in DOMAIN queue : queue'[i] = queue[i]
    BY <2>1, QueueEnds
  <2>3. \A u \in Threads : pc[u] \in {"notify", "refresh"} => pc'[u] \in {"notify", "refresh"}
    BY <1>10 DEF NotifyPosts, Typed
  <2>4. pc[Owner] = "explicit" => pc'[Owner] = "explicit"
    BY <1>10 DEF NotifyPosts, Typed
  <2>5. \A x : Pending(x) => Pending(x)'
    BY <1>10, <2>2, <2>3, <2>4 DEF NotifyPosts, Pending
  <2> QED
    BY <1>10, <2>5, RestrictionsKept DEF NotifyPosts
<1>11. ASSUME NEW t \in Threads, RefreshSkips(t) PROVE Restrictions'
  BY <1>11, NotEnforcing DEF RefreshSkips, Broker
<1>12. ASSUME NEW t \in Threads, RefreshPosts(t) PROVE Restrictions'
  <2>n. PICK n : n = Len(queue) + 1
    OBVIOUS
  <2>y. PICK y : y = [kind |-> "refresh", name |-> cur[t]]
    OBVIOUS
  <2>1. y \in Notices /\ queue' = Append(queue, y) /\ y.kind = "refresh" /\ y.name = cur[t]
    BY <1>12, <2>y DEF RefreshPosts, Typed, Notices
  <2>2. /\ DOMAIN queue' = DOMAIN queue \cup {n} /\ queue'[n] = y
        /\ \A i \in DOMAIN queue : queue'[i] = queue[i]
    BY <2>1, <2>n, QueueEnds
  <2>3. \A u \in Threads : pc[u] \in {"notify", "refresh"} /\ u # t => pc'[u] = pc[u]
    BY <1>12 DEF RefreshPosts, Typed
  <2>4. pc[Owner] = "explicit" => pc'[Owner] = "explicit"
    BY <1>12 DEF RefreshPosts, Typed
  <2>5. ASSUME NEW x, Pending(x) PROVE Pending(x)'
    <3>1. CASE x \in Affected(cur[t])
      BY <1>12, <2>1, <2>2, <3>1 DEF Pending, RefreshPosts
    <3>2. CASE x \notin Affected(cur[t])
      BY <1>12, <2>2, <2>3, <2>4, <2>5, <3>2 DEF RefreshPosts, Pending
    <3> QED
      BY <3>1, <3>2
  <2> QED
    BY <1>12, <2>5, RestrictionsKept DEF RefreshPosts
<1>13. ASSUME NEW t \in Threads, Returns(t) PROVE Restrictions'
  <2>1. pc[Owner] = "explicit" => pc'[Owner] = "explicit"
    BY <1>13 DEF Returns, Typed
  <2>2. \A u \in Threads : pc[u] \in {"notify", "refresh"} =>
            pc'[u] \in {"notify", "refresh"} /\ cur'[u] = cur[u]
    BY <1>13 DEF Returns, Typed
  <2>3. \A x : Pending(x) => Pending(x)'
    BY <1>13, <2>1, <2>2, PendingKept DEF Returns
  <2> QED
    BY <1>13, <2>3, RestrictionsKept DEF Returns
<1>14. ASSUME NotifyInline PROVE Restrictions'
  BY <1>14, PendingKept, RestrictionsKept DEF NotifyInline, Typed
<1>15. ASSUME RefreshInline PROVE Restrictions'
  <2>1. cur[Owner] \in Modules /\ Owner \in Threads /\ job = NoJob
    BY <1>15 DEF RefreshInline, Typed, Threads, Broker
  <2>2. job'.targets = TargetsOf(cur[Owner]) /\ job'.target = None /\ job'.callers = {}
    BY <1>15 DEF RefreshInline, NoJob
  <2>3. \A u \in Threads : pc[u] \in {"notify", "refresh"} /\ u # Owner => pc'[u] = pc[u]
    BY <1>15 DEF RefreshInline, Typed
  <2>4. ASSUME NEW x, Pending(x) PROVE Pending(x)'
    <3>1. CASE x \in Affected(cur[Owner])
      <4>1. PICK i \in DOMAIN TargetsOf(cur[Owner]) : TargetsOf(cur[Owner])[i] = x
        BY <2>1, <3>1, TargetsAreAffected
      <4> QED
        BY <2>2, <4>1 DEF Pending
    <3>2. CASE x \notin Affected(cur[Owner])
      <4>1. pc[Owner] # "explicit" /\ ~\E i \in DOMAIN job.targets : job.targets[i] = x
        BY <1>15, <2>1 DEF RefreshInline, NoJob
      <4> QED
        BY <1>15, <2>3, <2>4, <3>2, <4>1 DEF RefreshInline, Pending
    <3> QED
      BY <3>1, <3>2
  <2> QED
    BY <1>15, <2>1, <2>2, <2>4, RestrictionsKept DEF RefreshInline, NoJob
<1>16. ASSUME OwnerTakes PROVE Restrictions'
  <2>1. /\ queue' = Tail(queue) /\ 1 \in DOMAIN queue /\ Head(queue) = queue[1]
        /\ Head(queue) \in Notices
        /\ \A i \in DOMAIN queue : i # 1 => i - 1 \in DOMAIN queue' /\ queue'[i - 1] = queue[i]
    BY <1>16, QueueEnds DEF OwnerTakes
  <2>2. job = NoJob /\ job'.target = None /\ job'.callers = {}
    BY <1>16 DEF OwnerTakes, OwnerIsFree, NoJob
  <2>3. ASSUME NEW x, Pending(x) PROVE Pending(x)'
    <3>1. ~\E i \in DOMAIN job.targets : job.targets[i] = x
      BY <2>2 DEF NoJob
    <3>2. CASE pc[Owner] = "explicit"
      BY <1>16, <3>2 DEF OwnerTakes
    <3>3. CASE \E u \in Threads : pc[u] \in {"notify", "refresh"} /\ x \in Affected(cur[u])
      BY <1>16, <3>3 DEF OwnerTakes, Pending
    <3>4. ASSUME NEW i \in DOMAIN queue, queue[i].kind = "refresh", x \in Affected(queue[i].name)
          PROVE  Pending(x)'
      <4>1. CASE i = 1
        <5>1. Head(queue).name \in Modules
          BY <2>1 DEF Notices
        <5>2. job'.targets = TargetsOf(Head(queue).name)
          BY <1>16, <2>1, <3>4, <4>1 DEF OwnerTakes, NoJob
        <5>3. PICK l \in DOMAIN TargetsOf(Head(queue).name) : TargetsOf(Head(queue).name)[l] = x
          <6>1. x \in Affected(Head(queue).name)
            BY <2>1, <3>4, <4>1
          <6> HIDE DEF Affected
          <6> QED
            BY <5>1, <6>1, TargetsAreAffected
        <5> QED
          BY <5>2, <5>3 DEF Pending
      <4>2. CASE i # 1
        <5>1. i - 1 \in DOMAIN queue' /\ queue'[i - 1].kind = "refresh"
          BY <2>1, <3>4, <4>2
        <5>2. x \in Affected(queue[i - 1].name)'
          BY <1>16, <2>1, <3>4, <4>2 DEF OwnerTakes
        <5> HIDE DEF Affected
        <5> QED
          BY <5>1, <5>2 DEF Pending
      <4> QED
        BY <4>1, <4>2
    <3> QED
      BY <2>3, <3>1, <3>2, <3>3, <3>4 DEF Pending
  <2> QED
    BY <1>16, <2>2, <2>3, RestrictionsKept DEF OwnerTakes, NoJob
<1>17. ASSUME PushReads PROVE Restrictions'
  <2> SUFFICES ASSUME Enforcing', NEW x \in Watched'
               PROVE  Pending(x)' \/ Accurate(Entry(x), x)'
    BY DEF Restrictions
  <2>1. Enforcing /\ Capability \in loaded
    BY <1>17 DEF PushReads, Enforcing, Broker
  <2>2. x \in Modules /\ x # None
    BY <1>17 DEF PushReads, Typed, All
  <2>3. job.target = None /\ pc[Owner] # "explicit"
    BY <1>17 DEF PushReads, Broker, NoJob
  <2>h. PICK h : h = Head(job.targets)
    OBVIOUS
  <2>4. /\ job'.targets = Tail(job.targets)
        /\ job'.target = IF DerivedAllowedCallersFor(h) = {} THEN None ELSE h
        /\ job'.callers = DerivedAllowedCallersFor(h)
    BY <1>17, <2>1, <2>h DEF PushReads
  <2>5. UNCHANGED <<policy, loaded, edges, table, died, pc, cur, queue>>
    BY <1>17 DEF PushReads
  <2>6. CASE x = h
    <3>1. DerivedAllowedCallersFor(h) = Rightful(h)
      BY <2>1, <2>6 DEF DerivedAllowedCallersFor, Rightful, Enforcing
    <3>2. Rightful(x)' = Rightful(x)
      BY <2>5 DEF Rightful
    <3>3. Entry(x)' = Rightful(x)
      <4>1. CASE Rightful(x) = {}
        <5>1. x \in DOMAIN policy.explicit /\ policy.explicit[x] = {}
          BY <4>1 DEF Rightful
        <5>2. table[x] = {}
          BY <2>1, <2>2, <2>3, <5>1 DEF Explicit
        <5> QED
          BY <2>2, <2>4, <2>5, <2>6, <3>1, <4>1, <5>2 DEF Entry
      <4>2. CASE Rightful(x) # {}
        BY <2>4, <2>6, <3>1, <4>2 DEF Entry
      <4> QED
        BY <4>1, <4>2
    <3>4. Rightful(x) # Open
      BY <2>6, <3>1, DerivedTyped
    <3> QED
      BY <3>2, <3>3, <3>4 DEF Accurate
  <2>7. CASE x # h
    <3>1. Entry(x)' = Entry(x)
      BY <2>2, <2>3, <2>4, <2>5, <2>7 DEF Entry
    <3>2. Accurate(Entry(x), x) => Accurate(Entry(x), x)'
      BY <2>5, <3>1 DEF Accurate, Rightful
    <3>3. \A i \in DOMAIN job.targets : job.targets[i] = x =>
              \E l \in DOMAIN job'.targets : job'.targets[l] = x
      BY <1>17, <2>h, <2>4, <2>7, TargetEnds DEF PushReads
    <3>4. Pending(x) => Pending(x)'
      BY <2>5, <3>3 DEF Pending
    <3>5. x \in Watched
      BY <1>17, <2>5, <2>h, <2>7 DEF PushReads
    <3> QED
      BY <2>1, <3>2, <3>4, <3>5 DEF Restrictions
  <2> QED
    BY <2>6, <2>7
<1>18. ASSUME PushSends PROVE Restrictions'
  <2> SUFFICES ASSUME Enforcing', NEW x \in Watched
               PROVE  Pending(x)' \/ Accurate(Entry(x), x)'
    BY <1>18 DEF PushSends, Restrictions
  <2>1. Enforcing /\ Capability \in loaded
    BY <1>18 DEF PushSends, Enforcing, Broker
  <2>2. x \in Modules /\ x # None
    BY DEF Typed, All
  <2>3. job'.target = None /\ job'.targets = job.targets
    BY <1>18 DEF PushSends, Typed, Pushes
  <2>4. table'[x] = IF x = job.target THEN job.callers ELSE table[x]
    BY <1>18, <2>1, <2>2 DEF PushSends, Typed
  <2>5. Entry(x)' = Entry(x)
    BY <2>2, <2>3, <2>4 DEF Entry
  <2>6. Accurate(Entry(x), x) => Accurate(Entry(x), x)'
    BY <1>18, <2>5 DEF PushSends, Accurate, Rightful
  <2>7. Pending(x) => Pending(x)'
    BY <1>18, <2>3 DEF PushSends, Pending
  <2> QED
    BY <2>1, <2>6, <2>7 DEF Restrictions
<1>19. ASSUME NEW m \in Modules, Dies(m) PROVE Restrictions'
  <2> SUFFICES ASSUME Enforcing', NEW x \in Watched'
               PROVE  Pending(x)' \/ Accurate(Entry(x), x)'
    BY DEF Restrictions
  <2>1. Enforcing /\ x \in Watched
    BY <1>19 DEF Dies, Enforcing
  <2>2. Pending(x) => Pending(x)'
    BY <1>19 DEF Dies, Pending
  <2>3. ASSUME Accurate(Entry(x), x) PROVE Accurate(Entry(x), x)'
    <3>1. Entry(x)' = Entry(x)
      BY <1>19 DEF Dies, Entry
    <3>2. Rightful(x)' \subseteq Rightful(x)
      BY <1>19 DEF Dies, Rightful
    <3>3. Rightful(x) \ Rightful(x)' \subseteq {d \in died' : Declares(d, x)}
      BY <1>19 DEF Dies, Rightful
    <3>4. {d \in died : Declares(d, x)} \subseteq {d \in died' : Declares(d, x)}
      BY <1>19 DEF Dies
    <3>5. UNCHANGED edges
      BY <1>19 DEF Dies
    <3> QED
      BY <2>3, <3>1, <3>2, <3>3, <3>4, <3>5 DEF Accurate
  <2> QED
    BY <2>1, <2>2, <2>3 DEF Restrictions
<1>20. ASSUME BrokerGoes PROVE Restrictions'
  BY <1>20, NotEnforcing DEF BrokerGoes
<1>21. ASSUME Clear PROVE Restrictions'
  BY <1>21, NotEnforcing DEF Clear
<1>22. ASSUME Finished PROVE Restrictions'
  BY <1>22, PendingKept, RestrictionsKept DEF Finished, vars, Typed
<1>23. CASE UNCHANGED vars
  BY <1>23, PendingKept, RestrictionsKept DEF vars, Typed
<1>24. ASSUME NEW m \in Modules, NEW e \in Manifests[m], Rescans(m, e) PROVE Restrictions'
  <2> SUFFICES ASSUME Enforcing', NEW x \in Watched'
               PROVE  Pending(x)' \/ Accurate(Entry(x), x)'
    BY DEF Restrictions
  <2>1. Enforcing /\ x \in Watched
    BY <1>24 DEF Rescans, Enforcing, Watched
  <2>2. x \in Modules
    BY <2>1 DEF Watched, Typed, All
  <2>3. UNCHANGED <<policy, loaded, died, table, job, queue, pc, cur>>
    BY <1>24 DEF Rescans
  <2>4. ASSUME NEW d \in Modules PROVE Declares(d, x)' <=> Declares(d, x)
    <3>1. edges'[d] = IF d = m THEN e ELSE edges[d]
      BY <1>24 DEF Rescans, Typed
    <3>2. Declares(m, x) <=> x \in e.required \cup e.optional
      BY <1>24, <2>2 DEF Rescans, Watched
    <3> QED
      BY <3>1, <3>2
  <2>5. Pending(x) => Pending(x)'
    <3>1. \A d \in Modules : x \in Affected(d) => x \in Affected(d)'
      BY <2>4
    <3>2. \A i \in DOMAIN queue : queue[i].name \in Modules
      BY DEF Typed, Notices
    <3>3. \A u \in Threads : pc[u] \in {"notify", "refresh"} => cur[u] \in Modules
      BY DEF Typed
    <3> HIDE DEF Affected
    <3> QED
      BY <2>3, <3>1, <3>2, <3>3 DEF Pending
  <2>6. Accurate(Entry(x), x) => Accurate(Entry(x), x)'
    <3>1. Entry(x)' = Entry(x)
      BY <2>3 DEF Entry
    <3>2. Rightful(x)' = Rightful(x)
      BY <2>3, <2>4 DEF Rightful
    <3>3. {d \in died : Declares(d, x)} \subseteq {d \in died' : Declares(d, x)'}
      BY <2>3, <2>4 DEF Typed
    <3> QED
      BY <3>1, <3>2, <3>3 DEF Accurate
  <2> QED
    BY <2>1, <2>5, <2>6 DEF Restrictions
<1> QED
  BY <1>1, <1>2, <1>3, <1>4, <1>5, <1>6, <1>7, <1>8, <1>9, <1>10, <1>11,
     <1>12, <1>13, <1>14, <1>15, <1>16, <1>17, <1>18, <1>19, <1>20, <1>21,
     <1>22, <1>23, <1>24
  DEF Next

\* The policy does not change while capability_module enforces it, so explicit lists
\* stay as they were pushed.
LEMMA ExplicitStep == Typed /\ Broker /\ Explicit /\ [Next]_vars => Explicit'
<1> SUFFICES ASSUME Typed, Broker, Explicit, [Next]_vars
             PROVE  Explicit'
  OBVIOUS
<1> USE AccessAssumption
<1> USE DEF configVars, threadVars, brokerVars, history, scanVars, Begins, Goto,
            BrokerUp
<1>1. ASSUME NEW d \in Documents, SetAccessPolicy(d) PROVE Explicit'
  BY <1>1, NotEnforcing DEF SetAccessPolicy, Broker
<1>2. ASSUME Start PROVE Explicit'
  BY <1>2, NotEnforcing DEF Start, Broker
<1>3. ASSUME StartCommits PROVE Explicit'
  <2>1. pc'[Owner] = "explicit" /\ job'.target = None
    BY <1>3 DEF StartCommits, Typed, Threads, Broker, NoJob
  <2> QED
    BY <2>1 DEF Explicit
<1>4. ASSUME StartFails PROVE Explicit'
  BY <1>4 DEF StartFails, Explicit, Enforcing, Typed, Threads
<1>5. ASSUME PushExplicit PROVE Explicit'
  <2> SUFFICES ASSUME Enforcing' PROVE Explicit'
    BY DEF Explicit
  <2>1. Capability \in loaded /\ policy.on
    BY <1>5 DEF PushExplicit, Enforcing, Broker
  <2>2. job'.target = None /\ policy' = policy
    BY <1>5 DEF PushExplicit, NoJob
  <2>3. \A x \in (DOMAIN policy.explicit \cap Modules) \ Exempt : table'[x] = policy.explicit[x]
    BY <1>5, <2>1 DEF PushExplicit
  <2> QED
    BY <2>2, <2>3 DEF Explicit
<1>6. ASSUME NEW t \in Threads, BrokerReloads(t) PROVE Explicit'
  BY <1>6, NotEnforcing DEF BrokerReloads
<1>7. ASSUME NEW t \in Threads, NEW m \in Modules, LoadCommits(t, m) PROVE Explicit'
  BY <1>7 DEF LoadCommits, Explicit, Enforcing, Typed, Threads
<1>8. ASSUME NEW t \in Threads, NEW m \in Modules, UnloadMarks(t, m) PROVE Explicit'
  BY <1>8 DEF UnloadMarks, Explicit, Enforcing, Typed, Threads
<1>9. ASSUME NEW t \in Threads, NotifySkips(t) PROVE Explicit'
  BY <1>9 DEF NotifySkips, Explicit, Enforcing, Typed, Threads
<1>10. ASSUME NEW t \in Threads, NotifyPosts(t) PROVE Explicit'
  BY <1>10 DEF NotifyPosts, Explicit, Enforcing, Typed, Threads
<1>11. ASSUME NEW t \in Threads, RefreshSkips(t) PROVE Explicit'
  BY <1>11 DEF RefreshSkips, Explicit, Enforcing, Typed, Threads
<1>12. ASSUME NEW t \in Threads, RefreshPosts(t) PROVE Explicit'
  BY <1>12 DEF RefreshPosts, Explicit, Enforcing, Typed, Threads
<1>13. ASSUME NEW t \in Threads, Returns(t) PROVE Explicit'
  BY <1>13 DEF Returns, Explicit, Enforcing, Typed, Threads
<1>14. ASSUME NotifyInline PROVE Explicit'
  BY <1>14 DEF NotifyInline, Explicit, Enforcing, Typed, Threads
<1>15. ASSUME RefreshInline PROVE Explicit'
  BY <1>15 DEF RefreshInline, NoJob, Explicit, Enforcing, Typed, Threads
<1>16. ASSUME OwnerTakes PROVE Explicit'
  <2>1. job'.target = None /\ UNCHANGED <<policy, initialised, table, pc>>
    BY <1>16 DEF OwnerTakes, OwnerIsFree, NoJob
  <2> QED
    BY <2>1 DEF Explicit, Enforcing
<1>17. ASSUME PushReads PROVE Explicit'
  <2> SUFFICES ASSUME Enforcing' PROVE Explicit'
    BY DEF Explicit
  <2>1. Enforcing /\ policy.on /\ UNCHANGED <<policy, table, pc>>
    BY <1>17 DEF PushReads, Enforcing
  <2>h. PICK h : h = Head(job.targets)
    OBVIOUS
  <2>2. job'.target # None =>
          job'.target = h /\ job'.callers = DerivedAllowedCallersFor(h) /\ job'.callers # {}
    BY <1>17, <2>h DEF PushReads
  <2>3. job'.target \in DOMAIN policy.explicit \ {None} =>
          job'.callers = policy.explicit[job'.target]
    BY <2>1, <2>2 DEF DerivedAllowedCallersFor
  <2> QED
    BY <2>1, <2>3 DEF Explicit
<1>18. ASSUME PushSends PROVE Explicit'
  <2> SUFFICES ASSUME Enforcing' PROVE Explicit'
    BY DEF Explicit
  <2>1. Enforcing /\ UNCHANGED <<policy, pc>>
    BY <1>18 DEF PushSends, Enforcing
  <2>2. job'.target = None /\ job.target # None
    BY <1>18 DEF PushSends, Typed, Pushes
  <2>3. \A x \in Modules : table'[x] = table[x] \/ (x = job.target /\ table'[x] = job.callers)
    BY <1>18 DEF PushSends, Typed
  <2> QED
    BY <2>1, <2>2, <2>3 DEF Explicit
<1>19. ASSUME NEW m \in Modules, Dies(m) PROVE Explicit'
  BY <1>19 DEF Dies, Explicit, Enforcing, Typed, Threads
<1>20. ASSUME BrokerGoes PROVE Explicit'
  BY <1>20, NotEnforcing DEF BrokerGoes
<1>21. ASSUME Clear PROVE Explicit'
  BY <1>21, NotEnforcing DEF Clear
<1>22. ASSUME Finished PROVE Explicit'
  BY <1>22 DEF Finished, vars, Explicit, Enforcing, Typed, Threads
<1>23. CASE UNCHANGED vars
  BY <1>23 DEF vars, Explicit, Enforcing
<1>24. ASSUME NEW m \in Modules, NEW e \in Manifests[m], Rescans(m, e) PROVE Explicit'
  BY <1>24 DEF Rescans, Explicit, Enforcing
<1> QED
  BY <1>1, <1>2, <1>3, <1>4, <1>5, <1>6, <1>7, <1>8, <1>9, <1>10, <1>11,
     <1>12, <1>13, <1>14, <1>15, <1>16, <1>17, <1>18, <1>19, <1>20, <1>21,
     <1>22, <1>23, <1>24
  DEF Next

-----------------------------------------------------------------------------
(* The theorems.                                                           *)

\* The system starts without policy, broker, loads or queue.
LEMMA InitIInv == Init => IInv
<1> SUFFICES ASSUME Init PROVE IInv
  OBVIOUS
<1> USE AccessAssumption
<1>1. Typed
  <2>1. queue \in Seq(Notices) /\ job \in Pushes
    BY NoCallers DEF Init, NoJob, Pushes
  <2>2. table \in [Modules -> CallerSets \cup {Open}] /\ identity \in [Modules -> Nat]
    BY DEF Init
  <2>3. pc \in [Threads -> Pcs] /\ \A t \in Threads : pc[t] = "idle"
    BY DEF Init, Pcs
  <2>4. cur \in [Threads -> All \cup {None}] /\ token \in [Modules -> Nat] /\ ~policy.on
    BY DEF Init
  <2> QED
    BY <2>1, <2>2, <2>3, <2>4 DEF Init, Typed
<1>2. Broker /\ Identities /\ Restrictions /\ Explicit /\ NotExempt
  BY DEF Init, Broker, Identities, Restrictions, Explicit, NotExempt, Enforcing, NoJob, Threads
<1> QED
  BY <1>1, <1>2 DEF IInv

\* The invariant holds in every reachable state.
THEOREM InductiveInvariant == Spec => []IInv
<1>1. IInv /\ [Next]_vars => IInv'
  BY TypeStep, BrokerStep, NotExemptStep, IdentitiesStep, RestrictionsStep, ExplicitStep DEF IInv
<1> QED
  BY <1>1, InitIInv, PTL DEF Spec

\* Once the pushes of commitLoad, unload and logos_core_start are through,
\* capability_module enforces the policy over the registry of now, whatever the
\* threads and the order in which their refreshes reached the owner, but for the
\* targets whose dependents a rescan changed and nobody has pushed since.
THEOREM RestrictionsAreCurrent == Spec => []RestrictionsCurrent
<1>1. ASSUME IInv PROVE RestrictionsCurrent
  <2> SUFFICES ASSUME AtRest, policy.on, initialised, NEW t \in loaded \ (Exempt \cup redeclared)
               PROVE  /\ table[t] # Open /\ Rightful(t) \subseteq table[t]
                      /\ table[t] \ Rightful(t) \subseteq died
    BY DEF RestrictionsCurrent
  <2>1. t # None
    BY <1>1, AccessAssumption DEF IInv, Typed, All
  <2>2. ~Pending(t)
    BY DEF AtRest, Pending, NoJob, Threads
  <2>3. Entry(t) = table[t]
    BY <2>1 DEF AtRest, NoJob, Entry
  <2>4. Accurate(table[t], t)
    BY <1>1, <2>2, <2>3 DEF IInv, Restrictions, Enforcing, Watched
  <2> QED
    BY <2>4 DEF Accurate
<1> QED
  BY <1>1, InductiveInvariant, PTL

\* At rest capability_module knows every module it was told of by the token of its
\* present load (notifyCapabilityModule), unless an owner-thread load sent its
\* token past a queued one.
THEOREM IdentitiesAreCurrent == Spec => []IdentityCurrent
<1>1. ASSUME IInv PROVE IdentityCurrent
  <2> SUFFICES ASSUME AtRest, NEW m \in loaded \cap informed, m \notin overtaken
               PROVE  identity[m] = token[m]
    BY DEF IdentityCurrent
  <2>1. ~Notifying(m)
    BY DEF AtRest, Notifying
  <2>2. LastWord(m)
    BY <1>1, <2>1 DEF IInv, Identities
  <2> QED
    BY <2>2 DEF LastWord, AtRest
<1> QED
  BY <1>1, InductiveInvariant, PTL

====
