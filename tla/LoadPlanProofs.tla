---------------------------- MODULE LoadPlanProofs ----------------------------
(***************************************************************************)
(* What a load decides before anything is launched: which modules, in      *)
(* which order (DependencyResolver), and whether each may run (LoadGates). *)
(*                                                                         *)
(* The resolver computes what it should, for any finite graph. The walk:   *)
(* what it has found is reachable, and what it has found is closed up to   *)
(* the queue; with the queue empty the two meet. The rounds: whether a     *)
(* branch can be satisfied does not depend on what has been admitted       *)
(* before it, so the order of the visits cannot matter. The sort: degrees  *)
(* count the edges not yet placed, and modules that are left over each     *)
(* need another that is left over, which a finite acyclic graph does not   *)
(* allow.                                                                  *)
(*                                                                         *)
(* The gates (last part, GatesSpec), for any modules, packages, threads    *)
(* and bounds. Each question of a load is answered from another read, so   *)
(* what it established is only good while nothing under it changes. The    *)
(* invariant carries, for a load in progress, what the questions asked so  *)
(* far came to, and says of a module whose grounds have not changed that   *)
(* its package, the registry's entry and what runs are the same thing.     *)
(***************************************************************************)
EXTENDS DependencyResolver, LoadGates, FiniteSetTheorems, WellFoundedInduction, TLAPS

\* All a request needs.
Needed == Reach(Requested, Need)

\* What the walk has found, visited or not.
Found == set \cup missing \cup Range(queue)

Walking ==
    /\ Requested \subseteq Found /\ Found \subseteq Needed
    /\ \A x \in set : req[x] \subseteq Found
    /\ skipped = {} /\ ~grew /\ ~soft

\* Of what is needed, the rest is installed.
Walked ==
    /\ missing = Needed \ known
    /\ mode # "bestEffort" => set = Needed \cap known

\* An optional dependency that can come in, whatever has come in before.
Satisfiable(o) == Reach({o}, req) \subseteq known

\* The round has still to look at every optional dependency that is neither in
\* nor out of reach, or the set grew and another round follows.
Rounds ==
    mode = "bestEffort" /\ missing = {} =>
        /\ Closed(set, req)
        /\ \A p \in skipped : ~Satisfiable(p[2])
        /\ ~(phase = "round" /\ grew) =>
              \A h \in set : \A o \in opt[h] :
                  \/ phase = "round" /\ <<h, o>> \in left
                  \/ o \in set \/ ~Satisfiable(o)

\* Each entry's edges inside S lead to earlier entries.
Before(s, S, edges) ==
    \A i \in DOMAIN s : \A d \in edges[s[i]] \cap S : \E j \in DOMAIN s : j < i /\ s[j] = d

Follow == IF soft THEN Both ELSE req

\* The order so far is sound, and the degrees count what it has not placed.
Sorting ==
    /\ IsInjective(order) /\ Range(order) \subseteq set
    /\ Before(order, set, Follow)
    /\ \A n \in set : degree[n] = Cardinality(Edges(n) \ Range(order))
    /\ \A n \in set : n \in zero <=> n \notin Range(order) /\ Edges(n) \subseteq Range(order)

\* The order by required edges that the second sort falls back on.
Fallback ==
    soft => /\ mode # "teardown"
            /\ IsInjective(hardOrder) /\ Range(hardOrder) = set
            /\ Before(hardOrder, set, req)

Sorted ==
    /\ IsInjective(order) /\ Range(order) \subseteq set
    /\ Before(order, set, req)
    /\ Range(order) = set <=> Acyclic(set, req)
    /\ mode # "teardown" /\ Acyclic(set, Both) => Before(order, set, Both)

IInv ==
    /\ TypeOK
    /\ mode = "teardown" => Target \in known
    /\ phase = "walk" => Walking
    /\ phase # "walk" => Walked
    /\ phase = "round" => mode = "bestEffort" /\ ~soft
    /\ phase # "walk" => Rounds
    /\ phase = "kahn" => Sorting
    /\ Fallback
    /\ phase = "done" => Sorted

-----------------------------------------------------------------------------
(* Graphs.                                                                 *)

Graph == [Nodes -> SUBSET Nodes]

\* Reach is the least closed set around its start.
LEMMA ReachLeast ==
    ASSUME NEW start \in SUBSET Nodes, NEW g \in Graph
    PROVE  /\ Reach(start, g) \subseteq Nodes /\ start \subseteq Reach(start, g)
           /\ Closed(Reach(start, g), g)
           /\ \A C \in SUBSET Nodes :
                 start \subseteq C /\ Closed(C, g) => Reach(start, g) \subseteq C
<1>1. Reach(start, g) \subseteq Nodes /\ start \subseteq Reach(start, g)
  BY DEF Reach
<1>2. ASSUME NEW C \in SUBSET Nodes, start \subseteq C, Closed(C, g)
      PROVE  Reach(start, g) \subseteq C
  BY <1>2 DEF Reach
<1>3. ASSUME NEW x \in Reach(start, g), NEW y \in g[x] PROVE y \in Reach(start, g)
  <2>1. x \in Nodes /\ y \in Nodes
    BY <1>1 DEF Graph
  <2>2. ASSUME NEW C \in SUBSET Nodes, start \subseteq C, Closed(C, g) PROVE y \in C
    <3>1. x \in C
      BY <1>2, <2>2
    <3> QED
      BY <2>2, <3>1 DEF Closed
  <2> QED
    BY <2>1, <2>2 DEF Reach
<1> QED
  BY <1>1, <1>2, <1>3 DEF Closed

\* The part of a graph inside S is a graph.
LEMMA Restricted ==
    ASSUME NEW S \in SUBSET Nodes, NEW edges \in Graph
    PROVE  /\ [x \in Nodes |-> edges[x] \cap S] \in Graph
           /\ \A m \in Nodes : edges[m] \cap S \in SUBSET Nodes
  BY DEF Graph

\* Below m is the least set that holds m's edges and is closed, inside S.
LEMMA BelowLeast ==
    ASSUME NEW S \in SUBSET Nodes, NEW edges \in Graph, NEW m \in S
    PROVE  /\ Below(m, S, edges) \subseteq S /\ edges[m] \cap S \subseteq Below(m, S, edges)
           /\ \A x \in Below(m, S, edges) : edges[x] \cap S \subseteq Below(m, S, edges)
           /\ \A C \in SUBSET S :
                 edges[m] \cap S \subseteq C /\ (\A x \in C : edges[x] \cap S \subseteq C)
                     => Below(m, S, edges) \subseteq C
<1> DEFINE g == [x \in Nodes |-> edges[x] \cap S]
           B == Below(m, S, edges)
           s == edges[m] \cap S
<1>1. g \in Graph /\ s \in SUBSET Nodes /\ B = Reach(s, g)
  BY Restricted DEF Below
<1>2. /\ B \subseteq Nodes /\ s \subseteq B /\ Closed(B, g)
      /\ \A C \in SUBSET Nodes : s \subseteq C /\ Closed(C, g) => B \subseteq C
  <2> HIDE DEF g, s, B
  <2> QED
    BY <1>1, ReachLeast
<1>3. \A C \in SUBSET Nodes : Closed(C, g) <=> \A x \in C : edges[x] \cap S \subseteq C
  BY DEF Closed
<1> HIDE DEF g, s, B
<1>4. \A C \in SUBSET S :
         s \subseteq C /\ (\A x \in C : edges[x] \cap S \subseteq C) => B \subseteq C
  BY <1>2, <1>3
<1>5. B \subseteq S
  <2>1. s \subseteq S /\ \A x \in S : edges[x] \cap S \subseteq S
    BY DEF s
  <2> QED
    BY <1>4, <2>1
<1>6. \A x \in B : edges[x] \cap S \subseteq B
  BY <1>2, <1>3
<1> QED
  BY <1>2, <1>4, <1>5, <1>6 DEF B, s

\* Fewer edges, fewer cycles.
LEMMA FewerEdges ==
    ASSUME NEW S \in SUBSET Nodes, NEW e1 \in Graph, NEW e2 \in Graph,
           \A x \in Nodes : e1[x] \subseteq e2[x], Acyclic(S, e2)
    PROVE  Acyclic(S, e1)
<1> SUFFICES ASSUME NEW m \in S PROVE m \notin Below(m, S, e1)
  BY DEF Acyclic
<1>1. /\ Below(m, S, e2) \subseteq S /\ e2[m] \cap S \subseteq Below(m, S, e2)
      /\ \A x \in Below(m, S, e2) : e2[x] \cap S \subseteq Below(m, S, e2)
  BY BelowLeast
<1>2. /\ e1[m] \cap S \subseteq Below(m, S, e2)
      /\ \A x \in Below(m, S, e2) : e1[x] \cap S \subseteq Below(m, S, e2)
  BY <1>1
<1>3. Below(m, S, e1) \subseteq Below(m, S, e2)
  BY <1>1, <1>2, BelowLeast
<1> QED
  BY <1>3 DEF Acyclic

\* A complete order shows that there is no cycle.
LEMMA OrderedIsAcyclic ==
    ASSUME NEW S \in SUBSET Nodes, NEW edges \in Graph, NEW s \in Seq(Nodes),
           IsInjective(s), Range(s) = S, Before(s, S, edges)
    PROVE  Acyclic(S, edges)
<1> SUFFICES ASSUME NEW m \in S PROVE m \notin Below(m, S, edges)
  BY DEF Acyclic
<1>1. PICK i \in DOMAIN s : s[i] = m
  BY DEF Range
<1> DEFINE C == {s[j] : j \in {j \in DOMAIN s : j < i}}
<1>2. C \subseteq S
  BY DEF Range
<1>3. edges[m] \cap S \subseteq C
  BY <1>1 DEF Before
<1>4. ASSUME NEW x \in C PROVE edges[x] \cap S \subseteq C
  <2>1. PICK j \in DOMAIN s : j < i /\ s[j] = x
    OBVIOUS
  <2>2. \A d \in edges[x] \cap S : \E k \in DOMAIN s : k < j /\ s[k] = d
    BY <2>1 DEF Before
  <2>3. \A k \in DOMAIN s : k < j => k < i
    BY <2>1
  <2> QED
    BY <2>2, <2>3
<1>5. m \notin C
  BY <1>1 DEF IsInjective
<1> HIDE DEF C
<1> QED
  BY <1>2, <1>3, <1>4, <1>5, BelowLeast

\* A set of naturals has a least member.
LEMMA LeastMember ==
    ASSUME NEW T \in SUBSET Nat, T # {}
    PROVE  \E x \in T : \A y \in T : x <= y
<1> DEFINE R == OpToRel(<, Nat)
<1>1. IsWellFoundedOn(R, Nat) /\ \A x, y \in Nat : y < x => <<y, x>> \in R
  BY NatLessThanWellFounded DEF OpToRel
<1> HIDE DEF R
<1>2. PICK x \in T : \A y \in T : ~(<<y, x>> \in R)
  BY <1>1, WFMin
<1>3. \A y \in T : ~(y < x)
  BY <1>1, <1>2
<1> QED
  BY <1>3

\* Modules that each need another of them include a cycle: one that leads to the
\* fewest modules leads to one that leads to as many.
LEMMA StuckIsCyclic ==
    ASSUME NEW S \in SUBSET Nodes, NEW edges \in Graph, NEW U \in SUBSET S, U # {},
           \A m \in U : edges[m] \cap U # {}
    PROVE  ~Acyclic(S, edges)
<1> SUFFICES ASSUME Acyclic(S, edges) PROVE FALSE
  OBVIOUS
<1> DEFINE B(m) == Below(m, S, edges)
           T == {Cardinality(B(m)) : m \in U}
<1>1. \A m \in S : B(m) \subseteq S /\ IsFiniteSet(B(m)) /\ Cardinality(B(m)) \in Nat
  <2>1. IsFiniteSet(S)
    BY ResolverAssumption, FS_Subset
  <2>2. \A m \in S : B(m) \subseteq S
    BY BelowLeast
  <2>3. \A m \in S : IsFiniteSet(B(m))
    BY <2>1, <2>2, FS_Subset
  <2> HIDE DEF B
  <2> QED
    BY <2>2, <2>3, FS_CardinalityType
<1>2. T \subseteq Nat /\ T # {}
  BY <1>1
<1>3. PICK x \in T : \A y \in T : x <= y
  BY <1>2, LeastMember
<1>4. PICK m \in U : \A d \in U : Cardinality(B(m)) <= Cardinality(B(d))
  BY <1>3
<1>5. PICK d \in U : d \in edges[m]
  OBVIOUS
<1>6. d \in B(m) /\ B(d) \subseteq B(m) /\ d \notin B(d)
  <2>1. m \in S /\ d \in S
    OBVIOUS
  <2>2. d \in B(m) /\ \A y \in B(m) : edges[y] \cap S \subseteq B(m)
    BY <1>5, <2>1, BelowLeast
  <2>3. edges[d] \cap S \subseteq B(m) /\ B(m) \in SUBSET S
    BY <1>1, <2>1, <2>2
  <2>4. B(d) \subseteq B(m)
    <3>1. \A C \in SUBSET S :
             edges[d] \cap S \subseteq C /\ (\A y \in C : edges[y] \cap S \subseteq C)
                 => B(d) \subseteq C
      BY <2>1, BelowLeast
    <3> HIDE DEF B
    <3> QED
      BY <2>2, <2>3, <3>1
  <2> QED
    BY <2>1, <2>2, <2>4 DEF Acyclic
<1> HIDE DEF B
<1>7. /\ Cardinality(B(d)) \in Nat /\ Cardinality(B(m)) \in Nat
      /\ Cardinality(B(d)) <= Cardinality(B(m)) /\ Cardinality(B(m)) # Cardinality(B(d))
  <2>1. IsFiniteSet(B(m)) /\ B(d) \in SUBSET B(m) /\ B(m) # B(d)
    BY <1>1, <1>6
  <2> QED
    BY <1>1, <2>1, FS_Subset
<1> QED
  BY <1>4, <1>7

-----------------------------------------------------------------------------
(* Sequences without repetition.                                           *)

\* SetToSeq lists each member once.
LEMMA Listed ==
    ASSUME NEW S, IsFiniteSet(S)
    PROVE  /\ SetToSeq(S) \in Seq(S) /\ IsInjective(SetToSeq(S)) /\ Range(SetToSeq(S)) = S
           /\ Len(SetToSeq(S)) = Cardinality(S)
<1> DEFINE N == Cardinality(S)
           s == SetToSeq(S)
<1>1. N \in Nat /\ \E f \in [1..N -> S] : IsInjective(f)
  BY FS_CardinalityType DEF ExistsBijection, Bijection, Injection
<1>2. s \in [1..N -> S] /\ IsInjective(s)
  BY <1>1, Zenon DEF SetToSeq
<1>3. s \in Injection(1..N, S) /\ Cardinality(1..N) = N /\ IsFiniteSet(1..N)
  <2>1. Cardinality(1..N) = N /\ IsFiniteSet(1..N)
    <3> HIDE DEF N
    <3>1. 1 \in Int /\ N \in Int
      BY <1>1
    <3>2. Cardinality(1..N) = IF 1 > N THEN 0 ELSE N - 1 + 1
      BY <3>1, FS_Interval
    <3>3. IsFiniteSet(1..N)
      BY <3>1, FS_Interval
    <3> QED
      BY <1>1, <3>2, <3>3
  <2> QED
    BY <1>2, <2>1 DEF Injection
<1>4. s \in Surjection(1..N, S)
  BY <1>3, FS_Injection
<1> HIDE DEF N, s
<1>5. s \in Seq(S) /\ Len(s) = N /\ DOMAIN s = 1..N
  BY <1>1, <1>2
<1>6. Range(s) = S
  BY <1>2, <1>4, <1>5 DEF Surjection, Range
<1> QED
  BY <1>2, <1>5, <1>6 DEF N, s

\* Without repetition the length counts the members.
LEMMA Counted ==
    ASSUME NEW S, NEW s \in Seq(S), IsInjective(s)
    PROVE  IsFiniteSet(Range(s)) /\ Cardinality(Range(s)) = Len(s)
<1> DEFINE N == Len(s)
           R == Range(s)
<1>1. N \in Nat /\ DOMAIN s = 1..N /\ s \in [1..N -> R] /\ \A t \in R : \E i \in 1..N : s[i] = t
  BY DEF Range
<1>2. Cardinality(1..N) = N /\ IsFiniteSet(1..N)
  <2> HIDE DEF N
  <2>1. 1 \in Int /\ N \in Int
    BY <1>1
  <2>2. Cardinality(1..N) = IF 1 > N THEN 0 ELSE N - 1 + 1
    BY <2>1, FS_Interval
  <2>3. IsFiniteSet(1..N)
    BY <2>1, FS_Interval
  <2> QED
    BY <1>1, <2>2, <2>3
<1> HIDE DEF N, R
<1>3. s \in Surjection(1..N, R) /\ s \in Injection(1..N, R)
  BY <1>1 DEF Surjection, Injection
<1> QED
  BY <1>2, <1>3, FS_Surjection DEF N, R

\* An order of members of S is complete exactly when it is as long as S is large.
LEMMA CompleteIffAll ==
    ASSUME NEW S \in SUBSET Nodes, NEW s \in Seq(Nodes), IsInjective(s), Range(s) \subseteq S
    PROVE  Len(s) = Cardinality(S) <=> Range(s) = S
<1>1. IsFiniteSet(S)
  BY ResolverAssumption, FS_Subset
<1>2. Cardinality(Range(s)) = Len(s)
  BY Counted
<1>3. Cardinality(S) = Cardinality(Range(s)) => S = Range(s)
  BY <1>1, FS_Subset
<1> QED
  BY <1>2, <1>3

\* Earlier entries, in terms of positions.
LEMMA BeforeRespects ==
    ASSUME NEW S, NEW edges, NEW s \in Seq(Nodes), IsInjective(s), Before(s, S, edges)
    PROVE  Respects(s, S, edges)
<1>1. \A i \in DOMAIN s : Position(s, s[i]) = i
  BY DEF Position, IsInjective
<1>2. DOMAIN s = 1..Len(s)
  OBVIOUS
<1> SUFFICES ASSUME NEW n \in Range(s), NEW d \in edges[n] \cap S
             PROVE  Contains(s, d) /\ Position(s, d) < Position(s, n)
  BY DEF Respects
<1>3. PICK i \in DOMAIN s : s[i] = n
  BY DEF Range
<1>4. PICK j \in DOMAIN s : j < i /\ s[j] = d
  BY <1>3 DEF Before
<1>5. Contains(s, d)
  BY <1>2, <1>4 DEF Contains
<1> QED
  BY <1>1, <1>3, <1>4, <1>5

\* One more entry, whose edges are all placed, keeps an order sound.
LEMMA BeforeAppend ==
    ASSUME NEW S, NEW edges, NEW s \in Seq(Nodes), NEW n \in Nodes,
           IsInjective(s), n \notin Range(s), Before(s, S, edges),
           edges[n] \cap S \subseteq Range(s)
    PROVE  /\ Append(s, n) \in Seq(Nodes) /\ IsInjective(Append(s, n))
           /\ Range(Append(s, n)) = Range(s) \cup {n}
           /\ Before(Append(s, n), S, edges)
<1> DEFINE t == Append(s, n)
           N == Len(s)
<1>1. /\ N \in Nat /\ DOMAIN s = 1..N /\ t \in Seq(Nodes) /\ DOMAIN t = 1..(N + 1)
      /\ t[N + 1] = n /\ \A i \in 1..N : t[i] = s[i]
  OBVIOUS
<1> HIDE DEF t, N
<1>2. \A i \in 1..(N + 1) : i \in 1..N \/ i = N + 1
  BY <1>1
<1>3. \A i \in 1..N : i \in 1..(N + 1) /\ i < N + 1 /\ i # N + 1
  BY <1>1
<1>3a. N + 1 \in 1..(N + 1)
  BY <1>1
<1>4. Range(t) = Range(s) \cup {n}
  BY <1>1, <1>2, <1>3, <1>3a DEF Range
<1>5. IsInjective(t)
  <2>1. \A i \in 1..N : s[i] # n
    BY <1>1 DEF Range
  <2> QED
    BY <1>1, <1>2, <1>3, <2>1 DEF IsInjective
<1>6. ASSUME NEW i \in DOMAIN t, NEW d \in edges[t[i]] \cap S
      PROVE  \E j \in DOMAIN t : j < i /\ t[j] = d
  <2>1. CASE i = N + 1
    <3>1. PICK j \in 1..N : s[j] = d
      BY <1>1, <2>1 DEF Range
    <3> QED
      BY <1>1, <1>3, <2>1, <3>1
  <2>2. CASE i \in 1..N
    <3>1. PICK j \in 1..N : j < i /\ s[j] = d
      BY <1>1, <2>2 DEF Before
    <3> QED
      BY <1>1, <1>3, <3>1
  <2> QED
    BY <1>1, <1>2, <2>1, <2>2
<1> QED
  BY <1>1, <1>4, <1>5, <1>6 DEF Before, t

\* t is s at the positions I, in increasing order, each once.
Picks(t, s, I) ==
    \E f \in [1..Cardinality(I) -> I] :
        /\ \A j \in 1..Cardinality(I) : t[j] = s[f[j]]
        /\ \A i \in I : \E j \in 1..Cardinality(I) : f[j] = i
        /\ \A i, j \in 1..Cardinality(I) : i < j <=> f[i] < f[j]

\* Keep picks the positions it is given.
LEMMA KeepPicks ==
    ASSUME NEW S, NEW s \in Seq(S), NEW I \in SUBSET DOMAIN s
    PROVE  /\ Keep(s, I) \in Seq(S) /\ Len(Keep(s, I)) = Cardinality(I)
           /\ Picks(Keep(s, I), s, I)
<1> DEFINE N == Cardinality(I)
           R(i) == Rank(I, i)
           U(i) == {x \in I : x <= i}
           t == Keep(s, I)
<1>1. /\ DOMAIN s = 1..Len(s) /\ Len(s) \in Nat /\ I \subseteq Nat /\ IsFiniteSet(I)
      /\ N \in Nat /\ Cardinality(1..N) = N /\ IsFiniteSet(1..N)
  <2>1. DOMAIN s = 1..Len(s) /\ Len(s) \in Nat
    OBVIOUS
  <2>2. IsFiniteSet(1..Len(s))
    BY <2>1, FS_Interval
  <2>3. I \subseteq Nat /\ IsFiniteSet(I)
    BY <2>1, <2>2, FS_Subset
  <2>4. N \in Nat
    BY <2>3, FS_CardinalityType
  <2> HIDE DEF N
  <2>5. Cardinality(1..N) = (IF 1 > N THEN 0 ELSE N - 1 + 1) /\ IsFiniteSet(1..N)
    BY <2>4, FS_Interval
  <2>6. Cardinality(1..N) = N
    BY <2>4, <2>5
  <2> QED
    BY <2>1, <2>3, <2>4, <2>5, <2>6
<1>2. \A i \in I : IsFiniteSet(U(i)) /\ R(i) = Cardinality(U(i)) /\ R(i) \in 1..N
  <2> SUFFICES ASSUME NEW i \in I
               PROVE  IsFiniteSet(U(i)) /\ R(i) = Cardinality(U(i)) /\ R(i) \in 1..N
    OBVIOUS
  <2>1. R(i) = Cardinality(U(i))
    BY DEF Rank
  <2>2. U(i) \subseteq I /\ i \in U(i)
    BY <1>1
  <2> HIDE DEF U, R, N
  <2>3. IsFiniteSet(U(i)) /\ Cardinality(U(i)) <= Cardinality(I) /\ Cardinality(U(i)) \in Nat
    BY <1>1, <2>2, FS_Subset, FS_CardinalityType
  <2>4. Cardinality(U(i)) # 0
    BY <2>2, <2>3, FS_EmptySet
  <2> QED
    BY <1>1, <2>1, <2>3, <2>4 DEF N
<1>3. ASSUME NEW i \in I, NEW k \in I, i < k PROVE R(i) < R(k)
  <2>1. U(i) \subseteq U(k) /\ k \in U(k) /\ k \notin U(i)
    BY <1>1, <1>3
  <2> HIDE DEF U
  <2>2. Cardinality(U(i)) <= Cardinality(U(k)) /\ Cardinality(U(k)) # Cardinality(U(i))
    BY <1>2, <2>1, FS_Subset
  <2> HIDE DEF R, N
  <2>3. R(i) <= R(k) /\ R(k) # R(i) /\ R(i) \in Nat /\ R(k) \in Nat
    BY <1>1, <1>2, <2>2
  <2> QED
    BY <2>3
<1> HIDE DEF R, N
<1>4. \A i, k \in I : (i < k <=> R(i) < R(k)) /\ (R(i) = R(k) => i = k)
  <2>1. \A i \in I : R(i) \in 1..N
    BY <1>2
  <2>2. \A i \in I : i \in Nat /\ R(i) \in Nat
    <3> HIDE DEF U, t
    <3> QED
      BY <1>1, <2>1
  <2> QED
    BY <1>3, <2>2
<1>5. \A j \in 1..N : \E i \in I : R(i) = j
  <2> DEFINE r == [i \in I |-> R(i)]
  <2>1. r \in Injection(I, 1..N)
    BY <1>2, <1>4 DEF Injection, IsInjective
  <2>2. r \in Surjection(I, 1..N)
    <3> HIDE DEF r
    <3> QED
      BY <1>1, <2>1, FS_Injection DEF N
  <2> QED
    BY <2>2 DEF Surjection
<1> DEFINE f == [j \in 1..N |-> CHOOSE i \in I : R(i) = j]
<1>6. f \in [1..N -> I] /\ \A j \in 1..N : R(f[j]) = j
  BY <1>5, Zenon
<1>7. t = [j \in 1..N |-> s[f[j]]]
  BY DEF Keep, R, N
<1> HIDE DEF f
<1>8. \A i \in I : \E j \in 1..N : f[j] = i
  <2> SUFFICES ASSUME NEW i \in I PROVE \E j \in 1..N : f[j] = i
    OBVIOUS
  <2>1. R(i) \in 1..N /\ f[R(i)] \in I /\ R(f[R(i)]) = R(i)
    BY <1>2, <1>6
  <2> QED
    BY <1>4, <2>1
<1>9. \A i, j \in 1..N : i < j <=> f[i] < f[j]
  BY <1>4, <1>6
<1>10. t \in Seq(S) /\ Len(t) = N /\ \A j \in 1..N : t[j] = s[f[j]]
  <2>1. \A j \in 1..N : s[f[j]] \in S
    BY <1>1, <1>6
  <2> HIDE DEF t
  <2>2. t \in [1..N -> S]
    BY <1>7, <2>1
  <2> QED
    BY <1>1, <1>7, <2>2
<1>11. Picks(t, s, I)
  <2> HIDE DEF t
  <2> QED
    BY <1>6, <1>8, <1>9, <1>10 DEF N, Picks
<1> QED
  BY <1>10, <1>11 DEF N

\* What a queue holds: its head, and the rest.
LEMMA QueueHead ==
    ASSUME NEW S, NEW q \in Seq(S), q # <<>>
    PROVE  Head(q) \in S /\ Tail(q) \in Seq(S) /\ Range(q) = {Head(q)} \cup Range(Tail(q))
<1> DEFINE N == Len(q)
           t == Tail(q)
<1>1. /\ N \in Nat /\ N > 0 /\ DOMAIN q = 1..N /\ Head(q) = q[1]
      /\ t \in Seq(S) /\ DOMAIN t = 1..(N - 1)
  OBVIOUS
<1>2. \A i \in 1..(N - 1) : t[i] = q[i + 1]
  OBVIOUS
<1> HIDE DEF N, t
<1>3. \A i \in 1..N : i = 1 \/ i - 1 \in 1..(N - 1)
  BY <1>1
<1>4. 1 \in 1..N /\ \A i \in 1..(N - 1) : i + 1 \in 1..N
  BY <1>1
<1>5. Range(q) \subseteq {Head(q)} \cup Range(t)
  <2> SUFFICES ASSUME NEW i \in 1..N, i # 1 PROVE q[i] \in Range(t)
    BY <1>1 DEF Range
  <2>1. i - 1 \in 1..(N - 1) /\ t[i - 1] = q[i]
    BY <1>1, <1>2, <1>3
  <2> QED
    BY <1>1, <2>1 DEF Range
<1>6. {Head(q)} \cup Range(t) \subseteq Range(q)
  BY <1>1, <1>2, <1>4 DEF Range
<1>7. Head(q) \in S
  OBVIOUS
<1> QED
  BY <1>1, <1>5, <1>6, <1>7 DEF t

\* What two sequences hold together.
LEMMA Concatenated ==
    ASSUME NEW S, NEW a \in Seq(S), NEW b \in Seq(S)
    PROVE  /\ a \o b \in Seq(S) /\ Range(a \o b) = Range(a) \cup Range(b)
           /\ IsInjective(a) /\ IsInjective(b) /\ Range(a) \cap Range(b) = {} => IsInjective(a \o b)
<1> DEFINE A == Len(a)
           B == Len(b)
           c == a \o b
<1>1. /\ A \in Nat /\ B \in Nat /\ DOMAIN a = 1..A /\ DOMAIN b = 1..B
      /\ c \in Seq(S) /\ DOMAIN c = 1..(A + B)
  OBVIOUS
<1>2. /\ \A i \in 1..A : c[i] = a[i]
      /\ \A i \in 1..B : c[A + i] = b[i]
  OBVIOUS
<1> HIDE DEF A, B, c
<1>3. \A i \in 1..(A + B) : i \in 1..A \/ (i - A \in 1..B /\ i = A + (i - A))
  BY <1>1
<1>4. \A i \in 1..A : i \in 1..(A + B)
  BY <1>1
<1>5. \A i \in 1..B : A + i \in 1..(A + B)
  BY <1>1
<1>6. Range(c) = Range(a) \cup Range(b)
  <2>1. Range(c) \subseteq Range(a) \cup Range(b)
    <3> SUFFICES ASSUME NEW i \in 1..(A + B) PROVE c[i] \in Range(a) \cup Range(b)
      BY <1>1 DEF Range
    <3>1. CASE i \in 1..A
      BY <1>1, <1>2, <3>1 DEF Range
    <3>2. CASE i - A \in 1..B /\ i = A + (i - A)
      <4>1. c[i] = b[i - A]
        BY <1>2, <3>2
      <4> QED
        BY <1>1, <3>2, <4>1 DEF Range
    <3> QED
      BY <1>3, <3>1, <3>2
  <2>2. Range(a) \subseteq Range(c)
    BY <1>1, <1>2, <1>4 DEF Range
  <2>3. Range(b) \subseteq Range(c)
    BY <1>1, <1>2, <1>5 DEF Range
  <2> QED
    BY <2>1, <2>2, <2>3
<1>7. ASSUME IsInjective(a), IsInjective(b), Range(a) \cap Range(b) = {} PROVE IsInjective(c)
  <2> SUFFICES ASSUME NEW i \in 1..(A + B), NEW j \in 1..(A + B), c[i] = c[j] PROVE i = j
    BY <1>1 DEF IsInjective
  <2>1. CASE i \in 1..A /\ j \in 1..A
    BY <1>1, <1>2, <1>7, <2>1 DEF IsInjective
  <2>2. CASE i - A \in 1..B /\ j - A \in 1..B
    <3>1. c[i] = b[i - A] /\ c[j] = b[j - A]
      <4>1. i = A + (i - A) /\ j = A + (j - A)
        BY <1>1
      <4> QED
        BY <1>2, <2>2, <4>1
    <3>2. i - A = j - A
      BY <1>1, <1>7, <2>2, <3>1 DEF IsInjective
    <3> QED
      BY <1>1, <3>2
  <2>3. ASSUME NEW x \in 1..A, NEW y \in 1..(A + B), y - A \in 1..B PROVE c[x] # c[y]
    <3>1. y = A + (y - A)
      BY <1>1
    <3>2. c[x] = a[x] /\ c[y] = b[y - A]
      BY <1>2, <2>3, <3>1
    <3>3. a[x] \in Range(a) /\ b[y - A] \in Range(b)
      BY <1>1, <2>3 DEF Range
    <3> QED
      BY <1>7, <3>2, <3>3
  <2> QED
    BY <1>3, <2>1, <2>2, <2>3
<1> QED
  BY <1>1, <1>6, <1>7 DEF c

-----------------------------------------------------------------------------
(* The inputs.                                                             *)

\* Everything the resolver works over is a graph or a set of modules.
LEMMA Typed ==
    ASSUME TypeOK
    PROVE  /\ req \in Graph /\ opt \in Graph /\ Both \in Graph /\ Need \in Graph /\ Follow \in Graph
           /\ known \subseteq Nodes /\ set \in SUBSET Nodes /\ Requested \in SUBSET Nodes
           /\ TeardownSet \subseteq Nodes /\ IsFiniteSet(set)
           /\ \A S \in SUBSET Nodes : IsFiniteSet(S)
<1>1. req \in Graph /\ opt \in Graph /\ known \subseteq Nodes /\ set \in SUBSET Nodes
  BY ResolverAssumption DEF TypeOK, Graph
<1>2. Both \in Graph /\ Need \in Graph
  BY <1>1 DEF Both, Need, Graph
<1>3. TeardownSet \subseteq Nodes
  <2>1. loaded \subseteq Nodes
    BY <1>1 DEF TypeOK
  <2> QED
    BY <2>1, ResolverAssumption DEF TeardownSet
<1>4. Requested \in SUBSET Nodes
  BY <1>3, ResolverAssumption DEF Requested
<1>5. \A S \in SUBSET Nodes : IsFiniteSet(S)
  BY ResolverAssumption, FS_Subset
<1> QED
  BY <1>1, <1>2, <1>3, <1>4, <1>5 DEF Follow

\* The inputs fix what is needed, what can be satisfied and what is torn down.
LEMMA InputsFix ==
    ASSUME UNCHANGED inputs
    PROVE  /\ Needed' = Needed /\ Requested' = Requested /\ TeardownSet' = TeardownSet
           /\ Both' = Both /\ Need' = Need
           /\ \A o : Satisfiable(o)' = Satisfiable(o)
<1>1. mode' = mode /\ req' = req /\ opt' = opt /\ known' = known /\ loaded' = loaded
  BY DEF inputs
<1>2. Both' = Both /\ Need' = Need
  BY <1>1 DEF Both, Need
<1>3. TeardownSet' = TeardownSet
  BY <1>1 DEF TeardownSet, Dependents, Reach, Closed
<1>4. Requested' = Requested
  BY <1>1, <1>3 DEF Requested
<1>5. Needed' = Needed
  BY <1>2, <1>4 DEF Needed, Reach, Closed
<1>6. \A o : Satisfiable(o)' = Satisfiable(o)
  BY <1>1 DEF Satisfiable, Reach, Closed
<1> QED
  BY <1>2, <1>3, <1>4, <1>5, <1>6

\* Whether a branch is blocked does not depend on what has been admitted.
LEMMA BlockedIffUnsatisfiable ==
    ASSUME TypeOK, Closed(set, req), NEW o \in Nodes
    PROVE  /\ Blocked(o) <=> ~Satisfiable(o)
           /\ o \in set => Satisfiable(o)
           /\ ~Blocked(o) => Closed(set \cup Branch(o), req)
<1> DEFINE g == [x \in Nodes |-> IF x \in known THEN req[x] \ set ELSE {}]
           B == Branch(o)
           R == Reach({o}, req)
<1>1. /\ g \in Graph /\ req \in Graph /\ {o} \in SUBSET Nodes
      /\ set \subseteq known /\ known \subseteq Nodes
  BY Typed DEF Graph, TypeOK
<1>2. B = Reach({o}, g)
  BY DEF Branch
<1>3. /\ R \subseteq Nodes /\ o \in R /\ Closed(R, req)
      /\ \A C \in SUBSET Nodes : o \in C /\ Closed(C, req) => R \subseteq C
  <2>1. /\ R \subseteq Nodes /\ {o} \subseteq R /\ Closed(R, req)
        /\ \A C \in SUBSET Nodes : {o} \subseteq C /\ Closed(C, req) => R \subseteq C
    BY <1>1, ReachLeast
  <2> HIDE DEF R
  <2> QED
    BY <2>1
<1>4. /\ B \subseteq Nodes /\ o \in B /\ Closed(B, g)
      /\ \A C \in SUBSET Nodes : o \in C /\ Closed(C, g) => B \subseteq C
  <2> HIDE DEF g, B
  <2>1. /\ B \subseteq Nodes /\ {o} \subseteq B /\ Closed(B, g)
        /\ \A C \in SUBSET Nodes : {o} \subseteq C /\ Closed(C, g) => B \subseteq C
    BY <1>1, <1>2, ReachLeast
  <2> QED
    BY <2>1
<1> HIDE DEF B, R
<1>5. B \subseteq R
  <2>1. Closed(R, g)
    BY <1>1, <1>3 DEF Closed
  <2> HIDE DEF g
  <2> QED
    BY <1>3, <1>4, <2>1
<1>6. ASSUME B \subseteq known PROVE Closed(set \cup B, req) /\ R \subseteq known
  <2>1. \A x \in B : req[x] \ set \subseteq B
    <3>1. \A x \in B : g[x] = req[x] \ set
      BY <1>4, <1>6
    <3> HIDE DEF g
    <3> QED
      BY <1>4, <3>1 DEF Closed
  <2>2. Closed(set \cup B, req)
    BY <2>1 DEF Closed
  <2>3. R \subseteq set \cup B
    <3>1. set \cup B \in SUBSET Nodes
      BY <1>1, <1>4
    <3> QED
      BY <1>3, <1>4, <2>2, <3>1
  <2> QED
    BY <1>1, <1>6, <2>2, <2>3
<1>7. o \in set => R \subseteq known
  BY <1>1, <1>3
<1> QED
  BY <1>5, <1>6, <1>7 DEF Blocked, Satisfiable, B, R

-----------------------------------------------------------------------------
(* The walk.                                                               *)

\* A step of the walk that finds only what is needed and loses nothing.
LEMMA WalkStep ==
    ASSUME IInv, phase = "walk",
           UNCHANGED <<inputs, phase, hard, optVars, soft, kahnVars, order, hardOrder>>,
           queue' \in Seq(Nodes), set \subseteq set', set' \subseteq known,
           missing' \subseteq Nodes \ known, Found \subseteq Found', Found' \subseteq Needed,
           \A x \in set' : req[x] \subseteq Found'
    PROVE  IInv'
<1>1. TypeOK /\ Walking /\ (mode = "teardown" => Target \in known)
  BY DEF IInv
<1>2. /\ mode' = mode /\ req' = req /\ opt' = opt /\ known' = known /\ loaded' = loaded
      /\ phase' = phase /\ hard' = hard /\ left' = left /\ grew' = grew /\ skipped' = skipped
      /\ soft' = soft /\ degree' = degree /\ zero' = zero /\ order' = order
      /\ hardOrder' = hardOrder
  BY DEF inputs, optVars, kahnVars
<1>3. TypeOK'
  BY <1>1, <1>2 DEF TypeOK
<1>4. Needed' = Needed /\ Requested' = Requested
  BY InputsFix
<1>5. Walking'
  <2>1. Requested' \subseteq Found' /\ Found' \subseteq Needed'
    BY <1>1, <1>4 DEF Walking
  <2>2. \A x \in set' : req'[x] \subseteq Found'
    BY <1>2
  <2>3. skipped' = {} /\ ~grew' /\ ~soft'
    BY <1>1, <1>2 DEF Walking
  <2> QED
    BY <2>1, <2>2, <2>3 DEF Walking
<1>6. Fallback'
  BY <1>5 DEF Fallback, Walking
<1> QED
  BY <1>1, <1>2, <1>3, <1>5, <1>6 DEF IInv

LEMMA WalkSkipsKeeps ==
    ASSUME IInv, WalkSkips
    PROVE  IInv'
<1>1. TypeOK /\ Walking /\ phase = "walk"
  BY DEF IInv, WalkSkips
<1>2. Tail(queue) \in Seq(Nodes) /\ Range(queue) = {Head(queue)} \cup Range(Tail(queue))
  BY <1>1, QueueHead DEF TypeOK, WalkSkips
<1>3. queue' = Tail(queue) /\ set' = set /\ missing' = missing /\ Head(queue) \in set
  BY DEF WalkSkips
<1>4. Found' = Found
  BY <1>2, <1>3 DEF Found
<1>5. set' \subseteq known /\ missing' \subseteq Nodes \ known
  BY <1>1, <1>3 DEF TypeOK
<1>6. Found' \subseteq Needed /\ \A x \in set' : req[x] \subseteq Found'
  BY <1>1, <1>3, <1>4 DEF Walking
<1>7. UNCHANGED <<inputs, phase, hard, optVars, soft, kahnVars, order, hardOrder>>
  BY DEF WalkSkips
<1> QED
  BY <1>1, <1>2, <1>3, <1>4, <1>5, <1>6, <1>7, WalkStep

LEMMA WalkMissesKeeps ==
    ASSUME IInv, WalkMisses
    PROVE  IInv'
<1>1. TypeOK /\ Walking /\ phase = "walk"
  BY DEF IInv, WalkMisses
<1>2. /\ Head(queue) \in Nodes /\ Tail(queue) \in Seq(Nodes)
      /\ Range(queue) = {Head(queue)} \cup Range(Tail(queue))
  BY <1>1, QueueHead DEF TypeOK, WalkMisses
<1>3. /\ queue' = Tail(queue) /\ set' = set /\ missing' = missing \cup {Head(queue)}
      /\ Head(queue) \notin known
  BY DEF WalkMisses
<1>4. Found' = Found
  BY <1>2, <1>3 DEF Found
<1>5. set' \subseteq known /\ missing' \subseteq Nodes \ known
  BY <1>1, <1>2, <1>3 DEF TypeOK
<1>6. Found' \subseteq Needed /\ \A x \in set' : req[x] \subseteq Found'
  BY <1>1, <1>3, <1>4 DEF Walking
<1>7. UNCHANGED <<inputs, phase, hard, optVars, soft, kahnVars, order, hardOrder>>
  BY DEF WalkMisses
<1> QED
  BY <1>1, <1>2, <1>3, <1>4, <1>5, <1>6, <1>7, WalkStep

LEMMA WalkVisitsKeeps ==
    ASSUME IInv, WalkVisits
    PROVE  IInv'
<1> DEFINE h == Head(queue)
           new == req[h] \ set'
           l == SetToSeq(new)
<1>1. TypeOK /\ Walking /\ phase = "walk"
  BY DEF IInv, WalkVisits
<1>2. /\ h \in Nodes /\ Tail(queue) \in Seq(Nodes)
      /\ Range(queue) = {h} \cup Range(Tail(queue))
  BY <1>1, QueueHead DEF TypeOK, WalkVisits
<1>3. /\ queue' = Tail(queue) \o l /\ set' = set \cup {h} /\ missing' = missing
      /\ h \in known
  BY DEF WalkVisits
<1>4. /\ req \in Graph /\ Need \in Graph /\ Requested \in SUBSET Nodes /\ known \subseteq Nodes
      /\ \A S \in SUBSET Nodes : IsFiniteSet(S)
  BY <1>1, Typed
<1>5. req[h] \subseteq Nodes /\ new \in SUBSET Nodes
  BY <1>2, <1>4 DEF Graph
<1>6. l \in Seq(Nodes) /\ Range(l) = new
  <2> HIDE DEF new
  <2>1. l \in Seq(new) /\ Range(l) = new
    BY <1>4, <1>5, Listed
  <2> HIDE DEF l
  <2> QED
    BY <1>5, <2>1
<1> HIDE DEF l
<1>7. queue' \in Seq(Nodes) /\ Range(queue') = Range(Tail(queue)) \cup new
  <2> HIDE DEF new
  <2> DEFINE t == Tail(queue)
  <2>1. t \in Seq(Nodes) /\ queue' = t \o l
    BY <1>2, <1>3
  <2> HIDE DEF t
  <2>2. t \o l \in Seq(Nodes) /\ Range(t \o l) = Range(t) \cup Range(l)
    BY <1>6, <2>1, Concatenated, Zenon
  <2> QED
    BY <1>6, <2>1, <2>2 DEF t
<1>8. Found' = Found \cup req[h]
  <2>1. Found = set \cup missing \cup {h} \cup Range(Tail(queue))
    BY <1>2 DEF Found
  <2>2. Found' = set \cup {h} \cup missing \cup Range(Tail(queue)) \cup new
    BY <1>3, <1>7 DEF Found
  <2>3. new \cup set \cup {h} = req[h] \cup set \cup {h}
    BY <1>3
  <2> HIDE DEF new, h
  <2> QED
    BY <2>1, <2>2, <2>3
<1>9. req[h] \subseteq Needed
  <2>1. Closed(Needed, Need)
    BY <1>4, ReachLeast DEF Needed
  <2>2. h \in Needed
    BY <1>1, <1>2 DEF Walking, Found
  <2>3. Need[h] = req[h]
    BY <1>2, <1>3 DEF Need
  <2> HIDE DEF h
  <2> QED
    BY <2>1, <2>2, <2>3 DEF Closed
<1>10. set \subseteq set' /\ set' \subseteq known /\ missing' \subseteq Nodes \ known
  BY <1>1, <1>3 DEF TypeOK
<1>11. /\ Found \subseteq Found' /\ Found' \subseteq Needed
       /\ \A x \in set' : req[x] \subseteq Found'
  <2> HIDE DEF h
  <2> QED
    BY <1>1, <1>3, <1>8, <1>9 DEF Walking
<1>12. UNCHANGED <<inputs, phase, hard, optVars, soft, kahnVars, order, hardOrder>>
  BY DEF WalkVisits
<1> QED
  BY <1>1, <1>7, <1>10, <1>11, <1>12, WalkStep

\* With the queue empty, what was found is closed, hence all that is needed.
LEMMA WalkEndsKeeps ==
    ASSUME IInv, WalkEnds
    PROVE  IInv'
<1>1. TypeOK /\ Walking /\ (mode = "teardown" => Target \in known)
  BY DEF IInv, WalkEnds
<1>2. /\ mode' = mode /\ req' = req /\ opt' = opt /\ known' = known /\ loaded' = loaded
      /\ hard' = set /\ left' = RoundPairs(set) /\ queue' = queue /\ set' = set
      /\ phase' = (IF mode = "bestEffort" THEN "round" ELSE "count")
      /\ missing' = missing /\ grew' = grew /\ skipped' = skipped
      /\ soft' = soft /\ degree' = degree /\ zero' = zero /\ order' = order
      /\ hardOrder' = hardOrder /\ queue = <<>>
  BY DEF WalkEnds, inputs, kahnVars
<1>3. /\ req \in Graph /\ Need \in Graph /\ Requested \in SUBSET Nodes /\ known \subseteq Nodes
      /\ set \in SUBSET Nodes
  BY <1>1, Typed
<1>4. RoundPairs(set) \subseteq Nodes \X Nodes
  BY <1>3 DEF RoundPairs
<1>5. TypeOK'
  BY <1>1, <1>2, <1>4 DEF TypeOK
<1>6. Needed = set \cup missing
  <2>1. Found = set \cup missing
    BY <1>2 DEF Found, Range
  <2>2. Found \in SUBSET Nodes /\ Requested \subseteq Found /\ Found \subseteq Needed
    BY <1>1, <1>3, <2>1 DEF Walking, TypeOK
  <2>3. Closed(Found, Need)
    <3> SUFFICES ASSUME NEW x \in Found PROVE Need[x] \subseteq Found
      BY DEF Closed
    <3>1. CASE x \in set
      <4>1. x \in known /\ x \in Nodes /\ req[x] \subseteq Found
        BY <1>1, <1>3, <3>1 DEF TypeOK, Walking
      <4> QED
        BY <4>1 DEF Need
    <3>2. CASE x \in missing
      <4>1. x \in Nodes /\ x \notin known
        BY <1>1, <3>2 DEF TypeOK
      <4> QED
        BY <4>1 DEF Need
    <3> QED
      BY <2>1, <3>1, <3>2
  <2>4. Needed \subseteq Found
    BY <1>3, <2>2, <2>3, ReachLeast DEF Needed
  <2> QED
    BY <2>1, <2>2, <2>4
<1>7. missing = Needed \ known /\ set = Needed \cap known
  BY <1>1, <1>6 DEF TypeOK
<1>8. Needed' = Needed /\ Requested' = Requested
  BY <1>2, InputsFix DEF inputs
<1>9. Walked'
  BY <1>2, <1>7, <1>8 DEF Walked
<1>10. Rounds'
  <2> SUFFICES ASSUME mode = "bestEffort", missing = {}
               PROVE  /\ Closed(set, req)
                      /\ \A h \in set : \A o \in opt[h] : <<h, o>> \in RoundPairs(set)
    <3>1. skipped' = {} /\ ~grew'
      BY <1>1, <1>2 DEF Walking
    <3>2. mode' = "bestEffort" => phase' = "round"
      BY <1>2
    <3>3. Closed(set, req) => Closed(set', req')
      BY <1>2
    <3> QED
      BY <1>2, <3>1, <3>2, <3>3 DEF Rounds
  <2>1. Closed(set, req)
    <3>1. Found = set
      BY <1>2 DEF Found, Range
    <3> QED
      BY <1>1, <3>1 DEF Closed, Walking
  <2>2. ASSUME NEW h \in set, NEW o \in opt[h] PROVE <<h, o>> \in RoundPairs(set)
    <3>1. opt \in Graph
      BY <1>1, Typed
    <3>2. o \in Nodes
      BY <1>3, <3>1 DEF Graph
    <3> QED
      BY <3>2 DEF RoundPairs
  <2> QED
    BY <2>1, <2>2
<1>11. ~soft' /\ Fallback'
  BY <1>1, <1>2 DEF Walking, Fallback
<1>12. phase' \in {"round", "count"} /\ (phase' = "round" => mode' = "bestEffort")
  BY <1>2
<1> QED
  BY <1>1, <1>2, <1>5, <1>9, <1>10, <1>11, <1>12 DEF IInv

-----------------------------------------------------------------------------
(* The rounds.                                                             *)

\* A step of a round leaves what the walk found out.
LEMMA RoundStep ==
    ASSUME IInv, phase = "round", phase' \in {"round", "count"}, TypeOK', Rounds',
           UNCHANGED <<inputs, missing, soft>>
    PROVE  IInv'
<1>1. mode' = mode /\ req' = req /\ known' = known /\ missing' = missing /\ soft' = soft
  BY DEF inputs
<1>2. Walked /\ mode = "bestEffort" /\ ~soft /\ (mode = "teardown" => Target \in known)
  BY DEF IInv
<1>3. Needed' = Needed
  BY InputsFix
<1>4. Walked'
  BY <1>1, <1>2, <1>3 DEF Walked
<1>5. Fallback'
  BY <1>1, <1>2 DEF Fallback
<1> QED
  BY <1>1, <1>2, <1>4, <1>5 DEF IInv

LEMMA OptionalPresentKeeps ==
    ASSUME IInv, OptionalPresent
    PROVE  IInv'
<1>1. TypeOK /\ Rounds /\ phase = "round" /\ mode = "bestEffort"
  BY DEF IInv, OptionalPresent
<1>2. PICK p \in left : p[2] \in set /\ left' = left \ {p}
  BY DEF OptionalPresent
<1>3. /\ mode' = mode /\ req' = req /\ opt' = opt /\ known' = known /\ loaded' = loaded
      /\ phase' = phase /\ queue' = queue /\ set' = set /\ missing' = missing /\ hard' = hard
      /\ grew' = grew /\ skipped' = skipped /\ soft' = soft /\ degree' = degree /\ zero' = zero
      /\ order' = order /\ hardOrder' = hardOrder
  BY DEF OptionalPresent, inputs, kahnVars
<1>4. TypeOK'
  BY <1>1, <1>2, <1>3 DEF TypeOK
<1>5. \A o : Satisfiable(o)' = Satisfiable(o)
  BY <1>3, InputsFix DEF inputs
<1>6. Rounds'
  <2> SUFFICES ASSUME missing = {}
               PROVE  /\ Closed(set, req)' /\ \A q \in skipped : ~Satisfiable(q[2])
                      /\ ~grew => \A h \in set : \A o \in opt[h] :
                            <<h, o>> \in left' \/ o \in set \/ ~Satisfiable(o)
    BY <1>1, <1>3, <1>5 DEF Rounds
  <2>1. Closed(set, req)'
    BY <1>1, <1>3 DEF Rounds
  <2>2. \A q \in skipped : ~Satisfiable(q[2])
    BY <1>1 DEF Rounds
  <2>3. ASSUME ~grew, NEW h \in set, NEW o \in opt[h]
        PROVE  <<h, o>> \in left' \/ o \in set \/ ~Satisfiable(o)
    <3>1. <<h, o>> \in left \/ o \in set \/ ~Satisfiable(o)
      BY <1>1, <2>3 DEF Rounds
    <3>2. <<h, o>> = p => o \in set
      BY <1>2
    <3> QED
      BY <1>2, <3>1, <3>2
  <2> QED
    BY <2>1, <2>2, <2>3
<1> QED
  BY <1>1, <1>3, <1>4, <1>6, RoundStep DEF inputs

LEMMA OptionalDeclinedKeeps ==
    ASSUME IInv, OptionalDeclined
    PROVE  IInv'
<1>1. TypeOK /\ Rounds /\ phase = "round" /\ mode = "bestEffort"
  BY DEF IInv, OptionalDeclined
<1>2. PICK p \in left : /\ p[2] \notin set /\ Blocked(p[2]) /\ left' = left \ {p}
                        /\ skipped' = skipped \cup {p}
  BY DEF OptionalDeclined
<1>3. /\ mode' = mode /\ req' = req /\ opt' = opt /\ known' = known /\ loaded' = loaded
      /\ phase' = phase /\ queue' = queue /\ set' = set /\ missing' = missing /\ hard' = hard
      /\ grew' = grew /\ soft' = soft /\ degree' = degree /\ zero' = zero
      /\ order' = order /\ hardOrder' = hardOrder
  BY DEF OptionalDeclined, inputs, kahnVars
<1>4. p \in Nodes \X Nodes /\ p[2] \in Nodes
  BY <1>1, <1>2 DEF TypeOK
<1>5. TypeOK'
  BY <1>1, <1>2, <1>3, <1>4 DEF TypeOK
<1>6. \A o : Satisfiable(o)' = Satisfiable(o)
  BY <1>3, InputsFix DEF inputs
<1>7. Rounds'
  <2> SUFFICES ASSUME missing = {}
               PROVE  /\ Closed(set, req)' /\ \A q \in skipped' : ~Satisfiable(q[2])
                      /\ ~grew => \A h \in set : \A o \in opt[h] :
                            <<h, o>> \in left' \/ o \in set \/ ~Satisfiable(o)
    BY <1>1, <1>3, <1>6 DEF Rounds
  <2>1. Closed(set, req)
    BY <1>1 DEF Rounds
  <2>2. ~Satisfiable(p[2])
    BY <1>1, <1>2, <1>4, <2>1, BlockedIffUnsatisfiable
  <2>3. \A q \in skipped' : ~Satisfiable(q[2])
    <3>1. \A q \in skipped : ~Satisfiable(q[2])
      BY <1>1 DEF Rounds
    <3> QED
      BY <1>2, <2>2, <3>1
  <2>4. ASSUME ~grew, NEW h \in set, NEW o \in opt[h]
        PROVE  <<h, o>> \in left' \/ o \in set \/ ~Satisfiable(o)
    <3>1. <<h, o>> \in left \/ o \in set \/ ~Satisfiable(o)
      BY <1>1, <2>4 DEF Rounds
    <3>2. <<h, o>> = p => p[2] = o
      OBVIOUS
    <3> QED
      BY <1>2, <2>2, <3>1, <3>2
  <2>5. Closed(set, req)'
    BY <1>3, <2>1
  <2> QED
    BY <2>3, <2>4, <2>5
<1> QED
  BY <1>1, <1>3, <1>5, <1>7, RoundStep DEF inputs

LEMMA OptionalAdmittedKeeps ==
    ASSUME IInv, OptionalAdmitted
    PROVE  IInv'
<1>1. TypeOK /\ Rounds /\ phase = "round" /\ mode = "bestEffort"
  BY DEF IInv, OptionalAdmitted
<1>2. PICK p \in left : /\ p[2] \notin set /\ ~Blocked(p[2]) /\ left' = left \ {p}
                        /\ set' = set \cup Branch(p[2])
  BY DEF OptionalAdmitted
<1>3. /\ mode' = mode /\ req' = req /\ opt' = opt /\ known' = known /\ loaded' = loaded
      /\ phase' = phase /\ queue' = queue /\ missing' = missing /\ hard' = hard
      /\ grew' = TRUE /\ soft' = soft /\ degree' = degree /\ zero' = zero
      /\ order' = order /\ hardOrder' = hardOrder /\ skipped' = skipped
  BY DEF OptionalAdmitted, inputs, kahnVars
<1>4. p \in Nodes \X Nodes /\ p[2] \in Nodes
  BY <1>1, <1>2 DEF TypeOK
<1>5. TypeOK'
  <2>1. Branch(p[2]) \subseteq known
    BY <1>2 DEF Blocked
  <2>2. set' \subseteq known' /\ zero' \subseteq set'
    BY <1>1, <1>2, <1>3, <2>1 DEF TypeOK
  <2> QED
    BY <1>1, <1>2, <1>3, <2>2 DEF TypeOK
<1>6. \A o : Satisfiable(o)' = Satisfiable(o)
  BY <1>3, InputsFix DEF inputs
<1>7. Rounds'
  <2> SUFFICES ASSUME missing = {}
               PROVE  Closed(set, req)' /\ \A q \in skipped : ~Satisfiable(q[2])
    BY <1>1, <1>3, <1>6 DEF Rounds
  <2>1. Closed(set, req) /\ \A q \in skipped : ~Satisfiable(q[2])
    BY <1>1 DEF Rounds
  <2>2. Closed(set \cup Branch(p[2]), req)
    BY <1>1, <1>2, <1>4, <2>1, BlockedIffUnsatisfiable
  <2>3. Closed(set', req')
    BY <1>2, <1>3, <2>2
  <2> QED
    BY <2>1, <2>3
<1> QED
  BY <1>1, <1>3, <1>5, <1>7, RoundStep DEF inputs

LEMMA RoundEndsKeeps ==
    ASSUME IInv, RoundEnds
    PROVE  IInv'
<1>1. TypeOK /\ Rounds /\ phase = "round" /\ mode = "bestEffort" /\ left = {} /\ grew' = FALSE
  BY DEF IInv, RoundEnds
<1>2. \/ grew /\ left' = RoundPairs(set) /\ phase' = phase
      \/ ~grew /\ left' = left /\ phase' = "count"
  BY DEF RoundEnds
<1>3. /\ mode' = mode /\ req' = req /\ opt' = opt /\ known' = known /\ loaded' = loaded
      /\ queue' = queue /\ set' = set /\ missing' = missing /\ hard' = hard
      /\ soft' = soft /\ degree' = degree /\ zero' = zero
      /\ order' = order /\ hardOrder' = hardOrder /\ skipped' = skipped
  BY DEF RoundEnds, inputs, kahnVars
<1>4. opt \in Graph /\ set \in SUBSET Nodes
  BY <1>1, Typed
<1>5. TypeOK'
  <2>1. RoundPairs(set) \subseteq Nodes \X Nodes
    BY <1>4 DEF RoundPairs
  <2> QED
    BY <1>1, <1>2, <1>3, <2>1 DEF TypeOK
<1>6. \A o : Satisfiable(o)' = Satisfiable(o)
  BY <1>3, InputsFix DEF inputs
<1>7. Rounds'
  <2> SUFFICES ASSUME missing = {}
               PROVE  /\ Closed(set, req)' /\ \A q \in skipped : ~Satisfiable(q[2])
                      /\ \A h \in set : \A o \in opt[h] :
                            (phase' = "round" /\ <<h, o>> \in left') \/ o \in set \/ ~Satisfiable(o)
    BY <1>1, <1>3, <1>6 DEF Rounds
  <2>1. Closed(set, req) /\ \A q \in skipped : ~Satisfiable(q[2])
    BY <1>1 DEF Rounds
  <2>2. Closed(set, req)'
    BY <1>3, <2>1
  <2>3. ASSUME NEW h \in set, NEW o \in opt[h]
        PROVE  (phase' = "round" /\ <<h, o>> \in left') \/ o \in set \/ ~Satisfiable(o)
    <3>1. CASE grew
      <4>1. o \in Nodes
        BY <1>4 DEF Graph
      <4>2. <<h, o>> \in RoundPairs(set)
        BY <4>1 DEF RoundPairs
      <4> QED
        BY <1>1, <1>2, <3>1, <4>2
    <3>2. CASE ~grew
      BY <1>1, <3>2 DEF Rounds
    <3> QED
      BY <3>1, <3>2
  <2> QED
    BY <2>1, <2>2, <2>3
<1>8. phase' \in {"round", "count"}
  BY <1>1, <1>2
<1> QED
  BY <1>1, <1>3, <1>5, <1>7, <1>8, RoundStep DEF inputs

-----------------------------------------------------------------------------
(* The sort.                                                               *)

\* What the sort follows are the edges of one graph, cut off at the set.
LEMMA EdgesFollow ==
    ASSUME TypeOK
    PROVE  \A n \in set : Edges(n) = Follow[n] \cap set /\ IsFiniteSet(Edges(n))
<1>1. set \in SUBSET Nodes /\ IsFiniteSet(set)
  BY Typed
<1>2. ASSUME NEW n \in set PROVE Edges(n) = Follow[n] \cap set
  BY <1>1 DEF Edges, Follow, Both
<1>3. \A n \in set : Edges(n) \subseteq set
  BY DEF Edges
<1> QED
  BY <1>1, <1>2, <1>3, FS_Subset

\* A step of the sort leaves the set and what is known of it.
LEMMA SortStep ==
    ASSUME IInv, phase \in {"count", "kahn"}, phase' \in {"count", "kahn", "done"}, TypeOK',
           UNCHANGED <<inputs, missing, set, skipped>>, Fallback',
           phase' = "kahn" => Sorting', phase' = "done" => Sorted'
    PROVE  IInv'
<1>1. /\ mode' = mode /\ req' = req /\ opt' = opt /\ known' = known /\ missing' = missing
      /\ set' = set /\ skipped' = skipped
  BY DEF inputs
<1>2. Walked /\ Rounds /\ (mode = "teardown" => Target \in known)
  BY DEF IInv
<1>3. Needed' = Needed /\ \A o : Satisfiable(o)' = Satisfiable(o)
  BY InputsFix
<1>4. Walked'
  BY <1>1, <1>2, <1>3 DEF Walked
<1>5. Rounds'
  <2>1. Closed(set, req)' <=> Closed(set, req)
    BY <1>1 DEF Closed
  <2> QED
    BY <1>1, <1>2, <1>3, <2>1 DEF Rounds
<1> QED
  BY <1>1, <1>2, <1>4, <1>5 DEF IInv

\* The fallback is fixed while the second sort runs.
LEMMA FallbackFixed ==
    ASSUME Fallback, mode' = mode, req' = req, set' = set, soft' = soft, hardOrder' = hardOrder
    PROVE  Fallback'
<1>1. Before(hardOrder, set, req)' = Before(hardOrder, set, req)
  BY DEF Before
<1>2. IsInjective(hardOrder)' = IsInjective(hardOrder) /\ Range(hardOrder)' = Range(hardOrder)
  BY DEF IsInjective, Range
<1> QED
  BY <1>1, <1>2 DEF Fallback

LEMMA CountDegreesKeeps ==
    ASSUME IInv, CountDegrees
    PROVE  IInv'
<1>1. TypeOK /\ Fallback /\ phase = "count"
  BY DEF IInv, CountDegrees
<1>2. /\ mode' = mode /\ req' = req /\ opt' = opt /\ known' = known /\ loaded' = loaded
      /\ queue' = queue /\ set' = set /\ missing' = missing /\ hard' = hard
      /\ left' = left /\ grew' = grew /\ skipped' = skipped
      /\ soft' = soft /\ hardOrder' = hardOrder /\ phase' = "kahn" /\ order' = <<>>
      /\ degree' = [n \in Nodes |-> Cardinality(Edges(n))]
      /\ zero' = {n \in set : Edges(n) = {}}
  BY DEF CountDegrees, inputs, optVars
<1>3. set \in SUBSET Nodes /\ IsFiniteSet(set)
  BY <1>1, Typed
<1>4. \A n : IsFiniteSet(Edges(n)) /\ Cardinality(Edges(n)) \in Nat
  <2>1. \A n : Edges(n) \subseteq set
    BY DEF Edges
  <2>2. \A n : IsFiniteSet(Edges(n))
    BY <1>3, <2>1, FS_Subset
  <2> QED
    BY <2>2, FS_CardinalityType
<1>5. TypeOK'
  <2>1. degree' \in [Nodes -> Nat] /\ zero' \subseteq set' /\ order' \in Seq(Nodes)
    BY <1>2, <1>4
  <2> QED
    BY <1>1, <1>2, <2>1 DEF TypeOK
<1>6. \A n : Edges(n)' = Edges(n)
  BY <1>2 DEF Edges
<1>7. Sorting'
  <2>1. Range(order') = {} /\ IsInjective(order') /\ \A S, e : Before(order', S, e)
    BY <1>2 DEF Range, IsInjective, Before
  <2>2. \A n \in set : degree'[n] = Cardinality(Edges(n)' \ Range(order'))
    <3>1. \A n \in set : Edges(n)' \ Range(order') = Edges(n)
      BY <1>6, <2>1
    <3>2. \A n \in set : degree'[n] = Cardinality(Edges(n))
      BY <1>2, <1>3
    <3> QED
      BY <3>1, <3>2
  <2>3. \A n \in set : n \in zero' <=> n \notin Range(order') /\ Edges(n)' \subseteq Range(order')
    BY <1>2, <1>6, <2>1
  <2>4. Before(order', set', Follow')
    BY <2>1
  <2> QED
    BY <1>2, <2>1, <2>2, <2>3, <2>4 DEF Sorting
<1>8. Fallback'
  BY <1>1, <1>2, FallbackFixed
<1> QED
  BY <1>1, <1>2, <1>5, <1>7, <1>8, SortStep DEF inputs

LEMMA KahnTakesKeeps ==
    ASSUME IInv, KahnTakes
    PROVE  IInv'
<1>1. TypeOK /\ Fallback /\ Sorting /\ phase = "kahn"
  BY DEF IInv, KahnTakes
<1> DEFINE deps(n) == {d \in set : n \in Edges(d)}
<1>2. PICK n \in zero :
         /\ order' = Append(order, n)
         /\ degree' = [d \in Nodes |-> IF d \in deps(n) THEN degree[d] - 1 ELSE degree[d]]
         /\ zero' = (zero \ {n}) \cup {d \in deps(n) : degree[d] = 1}
  BY DEF KahnTakes
<1>3. /\ mode' = mode /\ req' = req /\ opt' = opt /\ known' = known /\ loaded' = loaded
      /\ queue' = queue /\ set' = set /\ missing' = missing /\ hard' = hard
      /\ left' = left /\ grew' = grew /\ skipped' = skipped
      /\ soft' = soft /\ hardOrder' = hardOrder /\ phase' = phase
  BY DEF KahnTakes, inputs, optVars
<1>4. set \in SUBSET Nodes /\ n \in set /\ n \in Nodes /\ order \in Seq(Nodes)
  BY <1>1, Typed DEF TypeOK
<1> DEFINE O == Range(order)
           E(d) == Edges(d)
<1>5. /\ n \notin O /\ E(n) \subseteq O
      /\ \A d \in set : degree[d] = Cardinality(E(d) \ O)
      /\ \A d \in set : d \in zero <=> d \notin O /\ E(d) \subseteq O
      /\ IsInjective(order) /\ O \subseteq set /\ Before(order, set, Follow)
  BY <1>1, <1>4 DEF Sorting
<1>6. \A d \in set : E(d) = Follow[d] \cap set /\ IsFiniteSet(E(d))
  BY <1>1, EdgesFollow
<1>7. /\ order' \in Seq(Nodes) /\ IsInjective(order') /\ Range(order') = O \cup {n}
      /\ Before(order', set, Follow)
  <2>1. Follow[n] \cap set \subseteq Range(order)
    BY <1>4, <1>5, <1>6
  <2> QED
    BY <1>2, <1>4, <1>5, <2>1, BeforeAppend
<1>8. \A d \in O : E(d) \subseteq O
  <2> SUFFICES ASSUME NEW d \in O, NEW x \in E(d) PROVE x \in O
    OBVIOUS
  <2>1. PICK i \in DOMAIN order : order[i] = d
    BY DEF Range
  <2>2. x \in Follow[order[i]] \cap set
    BY <1>5, <1>6, <2>1
  <2>3. \E j \in DOMAIN order : order[j] = x
    BY <1>5, <2>1, <2>2 DEF Before
  <2> QED
    BY <2>3 DEF Range
<1>9. /\ \A d : Edges(d)' = Edges(d)
      /\ Follow' = Follow
  BY <1>3 DEF Edges, Follow, Both
<1>10. \A d \in set : /\ IsFiniteSet(E(d) \ O) /\ Cardinality(E(d) \ O) \in Nat
                      /\ Cardinality(E(d) \ O) = 0 <=> E(d) \ O = {}
  <2>1. \A d \in set : IsFiniteSet(E(d) \ O)
    <3>1. \A d \in set : E(d) \ O \subseteq E(d)
      OBVIOUS
    <3> HIDE DEF E, O
    <3> QED
      BY <1>6, <3>1, FS_Subset
  <2> HIDE DEF E, O
  <2> QED
    BY <2>1, FS_CardinalityType, FS_EmptySet
<1>11. \A d \in set \ deps(n) : E(d) \ (O \cup {n}) = E(d) \ O
  OBVIOUS
<1>12. \A d \in deps(n) :
          /\ Cardinality(E(d) \ (O \cup {n})) = degree[d] - 1
          /\ degree[d] - 1 \in Nat
          /\ degree[d] = 1 <=> E(d) \subseteq O \cup {n}
          /\ d \notin O /\ d # n
  <2> SUFFICES ASSUME NEW d \in set, n \in E(d)
               PROVE  /\ Cardinality(E(d) \ (O \cup {n})) = degree[d] - 1
                      /\ degree[d] - 1 \in Nat
                      /\ degree[d] = 1 <=> E(d) \subseteq O \cup {n}
                      /\ d \notin O /\ d # n
    OBVIOUS
  <2> DEFINE X == E(d) \ O
  <2>1. n \in X /\ X \ {n} = E(d) \ (O \cup {n})
    BY <1>5
  <2>2. d \notin O /\ d # n
    BY <1>5, <1>8
  <2>3. degree[d] = Cardinality(X) /\ IsFiniteSet(X) /\ Cardinality(X) \in Nat
    BY <1>5, <1>10
  <2> HIDE DEF X, E, O
  <2>4. Cardinality(X \ {n}) = Cardinality(X) - 1 /\ IsFiniteSet(X \ {n})
    BY <2>1, <2>3, FS_RemoveElement
  <2>5. Cardinality(X \ {n}) \in Nat /\ (Cardinality(X \ {n}) = 0 <=> X \ {n} = {})
    BY <2>4, FS_CardinalityType, FS_EmptySet
  <2>6. X \ {n} = {} <=> E(d) \subseteq O \cup {n}
    BY <2>1
  <2>7. degree[d] = 1 <=> Cardinality(X \ {n}) = 0
    BY <2>3, <2>4
  <2> QED
    BY <2>1, <2>2, <2>3, <2>4, <2>5, <2>6, <2>7
<1>13. TypeOK'
  <2>1. degree' \in [Nodes -> Nat]
    <3>1. \A d \in Nodes : degree[d] \in Nat
      BY <1>1 DEF TypeOK
    <3> HIDE DEF deps, E, O
    <3> QED
      BY <1>2, <1>12, <3>1
  <2>2. zero' \subseteq set'
    BY <1>1, <1>2, <1>3 DEF TypeOK
  <2> QED
    BY <1>1, <1>3, <1>7, <2>1, <2>2 DEF TypeOK
<1>14. \A d \in set : degree'[d] = Cardinality(E(d) \ (O \cup {n}))
  <2> SUFFICES ASSUME NEW d \in set PROVE degree'[d] = Cardinality(E(d) \ (O \cup {n}))
    OBVIOUS
  <2>1. degree'[d] = IF d \in deps(n) THEN degree[d] - 1 ELSE degree[d]
    BY <1>2, <1>4
  <2>2. degree[d] = Cardinality(E(d) \ O)
    BY <1>5
  <2> HIDE DEF deps, E, O
  <2> QED
    BY <1>11, <1>12, <2>1, <2>2
<1>15. \A d \in set : d \in zero' <=> d \notin O \cup {n} /\ E(d) \subseteq O \cup {n}
  <2> SUFFICES ASSUME NEW d \in set
               PROVE  d \in zero' <=> d \notin O \cup {n} /\ E(d) \subseteq O \cup {n}
    OBVIOUS
  <2>1. CASE d \in deps(n)
    <3>1. d \notin zero
      BY <1>5, <2>1
    <3> HIDE DEF deps, E, O
    <3> QED
      BY <1>2, <1>12, <2>1, <3>1
  <2>2. CASE d \notin deps(n)
    <3>1. E(d) \subseteq O \cup {n} <=> E(d) \subseteq O
      BY <2>2
    <3> HIDE DEF deps, E, O
    <3> QED
      BY <1>2, <1>5, <2>2, <3>1
  <2> QED
    BY <2>1, <2>2
<1>16. Sorting'
  <2>1. \A d \in set' : degree'[d] = Cardinality(Edges(d)' \ Range(order'))
    BY <1>3, <1>7, <1>9, <1>14
  <2>2. \A d \in set' : d \in zero' <=> d \notin Range(order') /\ Edges(d)' \subseteq Range(order')
    BY <1>3, <1>7, <1>9, <1>15
  <2>3. Before(order', set', Follow')
    BY <1>3, <1>7, <1>9
  <2>4. Range(order') \subseteq set'
    BY <1>3, <1>4, <1>5, <1>7
  <2> QED
    BY <1>7, <2>1, <2>2, <2>3, <2>4 DEF Sorting
<1>17. Fallback'
  BY <1>1, <1>3, FallbackFixed
<1> QED
  BY <1>1, <1>3, <1>13, <1>16, <1>17, SortStep DEF inputs

\* Kahn's verdict: with nothing ready, the order is complete exactly when the
\* edges the sort followed have no cycle in the set.
LEMMA KahnVerdict ==
    ASSUME TypeOK, Sorting, zero = {}
    PROVE  /\ Complete <=> Range(order) = set
           /\ Complete <=> Acyclic(set, Follow)
<1>1. /\ set \in SUBSET Nodes /\ Follow \in Graph /\ order \in Seq(Nodes) /\ IsInjective(order)
      /\ Range(order) \subseteq set /\ Before(order, set, Follow)
  BY Typed DEF TypeOK, Sorting
<1>2. Complete <=> Range(order) = set
  BY <1>1, CompleteIffAll DEF Complete
<1>3. ASSUME Range(order) = set PROVE Acyclic(set, Follow)
  BY <1>1, <1>3, OrderedIsAcyclic
<1>4. ASSUME Range(order) # set PROVE ~Acyclic(set, Follow)
  <2> DEFINE U == set \ Range(order)
  <2>1. U \in SUBSET set /\ U # {}
    BY <1>1, <1>4
  <2>2. ASSUME NEW m \in U PROVE Follow[m] \cap U # {}
    <3>1. ~(Edges(m) \subseteq Range(order))
      BY DEF Sorting
    <3>2. Edges(m) = Follow[m] \cap set
      BY EdgesFollow
    <3> QED
      BY <3>1, <3>2
  <2> HIDE DEF U
  <2> QED
    BY <1>1, <2>1, <2>2, StuckIsCyclic
<1> QED
  BY <1>2, <1>3, <1>4

LEMMA KahnEndsKeeps ==
    ASSUME IInv, KahnEnds
    PROVE  IInv'
<1>1. TypeOK /\ Fallback /\ Sorting /\ phase = "kahn" /\ zero = {}
  BY DEF IInv, KahnEnds
<1>2. /\ mode' = mode /\ req' = req /\ opt' = opt /\ known' = known /\ loaded' = loaded
      /\ queue' = queue /\ set' = set /\ missing' = missing /\ hard' = hard
      /\ left' = left /\ grew' = grew /\ skipped' = skipped /\ degree' = degree /\ zero' = zero
  BY DEF KahnEnds, inputs, optVars, kahnVars
<1>3. \/ /\ ~soft /\ mode # "teardown" /\ Complete
         /\ soft' = TRUE /\ phase' = "count" /\ hardOrder' = order /\ order' = order
      \/ /\ ~(~soft /\ mode # "teardown" /\ Complete)
         /\ phase' = "done" /\ soft' = soft /\ hardOrder' = hardOrder
         /\ order' = IF soft /\ ~Complete THEN hardOrder ELSE order
  BY DEF KahnEnds
<1>4. TypeOK'
  BY <1>1, <1>2, <1>3 DEF TypeOK
<1>5. /\ Complete <=> Range(order) = set
      /\ Complete <=> Acyclic(set, Follow)
      /\ IsInjective(order) /\ Range(order) \subseteq set /\ Before(order, set, Follow)
  BY <1>1, KahnVerdict DEF Sorting
<1>6. /\ req \in Graph /\ Both \in Graph /\ set \in SUBSET Nodes
      /\ \A n \in Nodes : req[n] \subseteq Both[n]
  BY <1>1, Typed DEF Both
<1>7. Acyclic(set, Both) => Acyclic(set, req)
  BY <1>6, FewerEdges
<1>8. phase' \in {"count", "kahn", "done"}
  BY <1>3
<1>9. ASSUME phase' = "done", IsInjective(order'), Range(order') \subseteq set,
             Before(order', set, req), Range(order') = set <=> Acyclic(set, req),
             mode # "teardown" /\ Acyclic(set, Both) => Before(order', set, Both), Fallback'
      PROVE  IInv'
  <2>1. Both' = Both
    BY <1>2 DEF Both
  <2>2. Sorted'
    BY <1>2, <1>9, <2>1 DEF Sorted
  <2> QED
    BY <1>1, <1>2, <1>4, <1>9, <2>2, SortStep DEF inputs
<1>10. CASE ~soft /\ mode # "teardown" /\ Complete
  <2>1. soft' = TRUE /\ phase' = "count" /\ hardOrder' = order
    BY <1>3, <1>10
  <2>2. Before(order, set, req)
    BY <1>5, <1>10 DEF Follow
  <2>3. Fallback'
    BY <1>2, <1>5, <1>10, <2>1, <2>2 DEF Fallback
  <2> QED
    BY <1>1, <1>2, <1>4, <2>1, <2>3, SortStep DEF inputs
<1>11. ASSUME ~(~soft /\ mode # "teardown" /\ Complete)
       PROVE  /\ phase' = "done" /\ Fallback'
              /\ order' = IF soft /\ ~Complete THEN hardOrder ELSE order
  <2>1. /\ phase' = "done" /\ soft' = soft /\ hardOrder' = hardOrder
        /\ order' = IF soft /\ ~Complete THEN hardOrder ELSE order
    BY <1>3, <1>11
  <2> QED
    BY <1>1, <1>2, <2>1, FallbackFixed
<1>12. CASE ~soft /\ ~(mode # "teardown" /\ Complete)
  <2>1. order' = order /\ phase' = "done" /\ Fallback'
    BY <1>11, <1>12
  <2>2. Follow = req
    BY <1>12 DEF Follow
  <2>3. Before(order, set, req) /\ (Range(order) = set <=> Acyclic(set, req))
    BY <1>5, <2>2
  <2>4. ~(mode # "teardown" /\ Acyclic(set, Both))
    BY <1>5, <1>7, <1>12, <2>3
  <2> QED
    BY <1>5, <1>9, <2>1, <2>3, <2>4
<1>13. CASE soft /\ Complete
  <2>1. order' = order /\ phase' = "done" /\ Fallback'
    BY <1>11, <1>13
  <2>2. Follow = Both
    BY <1>13 DEF Follow
  <2>3. Before(order, set, Both) /\ Range(order) = set /\ Acyclic(set, req)
    BY <1>5, <1>7, <1>13, <2>2
  <2>4. Before(order, set, req)
    <3>1. \A i \in DOMAIN order : order[i] \in Nodes
      BY <1>1 DEF TypeOK
    <3>2. \A i \in DOMAIN order : req[order[i]] \cap set \subseteq Both[order[i]] \cap set
      BY <1>6, <3>1
    <3> QED
      BY <2>3, <3>2 DEF Before
  <2> QED
    BY <1>5, <1>9, <2>1, <2>3, <2>4
<1>14. CASE soft /\ ~Complete
  <2>1. order' = hardOrder /\ phase' = "done" /\ Fallback'
    BY <1>11, <1>14
  <2>2. Follow = Both
    BY <1>14 DEF Follow
  <2>3. IsInjective(hardOrder) /\ Range(hardOrder) = set /\ Before(hardOrder, set, req)
    BY <1>1, <1>14 DEF Fallback
  <2>4. ~Acyclic(set, Both)
    BY <1>5, <1>14, <2>2
  <2>5. Acyclic(set, req)
    <3>1. hardOrder \in Seq(Nodes)
      BY <1>1 DEF TypeOK
    <3> QED
      BY <1>6, <2>3, <3>1, OrderedIsAcyclic
  <2> QED
    BY <1>9, <2>1, <2>3, <2>4, <2>5
<1> QED
  BY <1>10, <1>12, <1>13, <1>14

-----------------------------------------------------------------------------
(* The invariant.                                                          *)

\* Nothing moves, nothing changes.
LEMMA StutterKeeps ==
    ASSUME IInv, UNCHANGED vars
    PROVE  IInv'
<1>1. /\ UNCHANGED inputs /\ mode' = mode /\ req' = req /\ opt' = opt /\ known' = known
      /\ loaded' = loaded /\ phase' = phase /\ queue' = queue /\ set' = set
      /\ missing' = missing /\ hard' = hard /\ left' = left /\ grew' = grew
      /\ skipped' = skipped /\ soft' = soft /\ degree' = degree /\ zero' = zero
      /\ order' = order /\ hardOrder' = hardOrder
  BY DEF vars, inputs, optVars, kahnVars
<1>2. /\ Needed' = Needed /\ Requested' = Requested /\ Both' = Both /\ Need' = Need
      /\ \A o : Satisfiable(o)' = Satisfiable(o)
  BY <1>1, InputsFix
<1>3. TypeOK' = TypeOK
  BY <1>1 DEF TypeOK
<1>4. Walking' = Walking /\ Walked' = Walked
  BY <1>1, <1>2 DEF Walking, Walked, Found
<1>5. Rounds' = Rounds
  BY <1>1, <1>2 DEF Rounds
<1>6. Sorting' = Sorting /\ Fallback' = Fallback /\ Sorted' = Sorted
  <2>1. Follow' = Follow /\ \A n : Edges(n)' = Edges(n)
    BY <1>1, <1>2 DEF Follow, Edges
  <2> QED
    BY <1>1, <1>2, <2>1 DEF Sorting, Fallback, Sorted
<1> QED
  BY <1>1, <1>3, <1>4, <1>5, <1>6 DEF IInv

LEMMA InitHolds ==
    ASSUME Init
    PROVE  IInv
<1>1. known \subseteq Nodes /\ loaded \subseteq known /\ Requested \in SUBSET Nodes
  <2>1. known \subseteq Nodes /\ loaded \subseteq known
    BY ResolverAssumption DEF Init
  <2> QED
    BY <2>1, ResolverAssumption DEF Requested, TeardownSet
<1>2. IsFiniteSet(Requested)
  BY <1>1, ResolverAssumption, FS_Subset
<1>3. queue \in Seq(Nodes) /\ Range(queue) = Requested
  <2>1. SetToSeq(Requested) \in Seq(Requested) /\ Range(SetToSeq(Requested)) = Requested
    BY <1>2, Listed
  <2>2. queue = SetToSeq(Requested)
    BY DEF Init
  <2>3. queue \in Seq(Requested)
    BY <2>1, <2>2
  <2> QED
    BY <1>1, <2>1, <2>2, <2>3
<1>4. TypeOK
  <2>1. degree \in [Nodes -> Nat] /\ order \in Seq(Nodes) /\ hardOrder \in Seq(Nodes)
    BY DEF Init
  <2>2. mode \in Modes /\ req \in ReqGraphs /\ opt \in OptGraphs /\ known \in KnownSets
    BY DEF Init
  <2>3. /\ phase = "walk" /\ set = {} /\ missing = {} /\ hard = {} /\ left = {} /\ skipped = {}
        /\ grew = FALSE /\ soft = FALSE /\ zero = {}
    BY DEF Init
  <2> QED
    BY <1>1, <1>3, <2>1, <2>2, <2>3 DEF TypeOK
<1>5. Walking
  <2>1. Found = Requested
    BY <1>3 DEF Init, Found
  <2>2. Requested \subseteq Needed
    BY <1>4, Typed, ReachLeast DEF Needed
  <2> QED
    BY <2>1, <2>2 DEF Walking, Init
<1> QED
  BY <1>4, <1>5 DEF IInv, Init, Fallback

\* resolve, whatever graph, installed set and mode it is given: what the walk, the
\* rounds and the two sorts have established at each turn of their loops.
THEOREM InductiveInvariant == Spec => []IInv
<1>1. Init => IInv
  BY InitHolds
<1>2. IInv /\ [Next]_vars => IInv'
  <2> SUFFICES ASSUME IInv, [Next]_vars PROVE IInv'
    OBVIOUS
  <2>1. CASE WalkSkips
    BY <2>1, WalkSkipsKeeps
  <2>2. CASE WalkMisses
    BY <2>2, WalkMissesKeeps
  <2>3. CASE WalkVisits
    BY <2>3, WalkVisitsKeeps
  <2>4. CASE WalkEnds
    BY <2>4, WalkEndsKeeps
  <2>5. CASE OptionalPresent
    BY <2>5, OptionalPresentKeeps
  <2>6. CASE OptionalDeclined
    BY <2>6, OptionalDeclinedKeeps
  <2>7. CASE OptionalAdmitted
    BY <2>7, OptionalAdmittedKeeps
  <2>8. CASE RoundEnds
    BY <2>8, RoundEndsKeeps
  <2>9. CASE CountDegrees
    BY <2>9, CountDegreesKeeps
  <2>10. CASE KahnTakes
    BY <2>10, KahnTakesKeeps
  <2>11. CASE KahnEnds
    BY <2>11, KahnEndsKeeps
  <2>12. CASE UNCHANGED vars
    BY <2>12, StutterKeeps
  <2> QED
    BY <2>1, <2>2, <2>3, <2>4, <2>5, <2>6, <2>7, <2>8, <2>9, <2>10, <2>11, <2>12
       DEF Next, Finished
<1> QED
  BY <1>1, <1>2, PTL DEF Spec

\* resolve keeps its inputs and its working state in their types.
THEOREM TypeCorrect == Spec => []TypeOK
<1>1. IInv => TypeOK
  BY DEF IInv
<1> QED
  BY <1>1, InductiveInvariant, PTL

\* topoSort: no module comes before what it requires, none comes twice, a cyclic
\* graph's partial order included, and the optional edges order where they can.
THEOREM OrderIsSound == Spec => []OrderSound
<1>1. IInv => OrderSound
  <2> SUFFICES ASSUME IInv, Done
               PROVE  /\ Respects(order, set, req) /\ IsInjective(order)
                      /\ mode # "teardown" /\ Acyclic(set, Both) => Respects(order, set, Both)
    BY DEF OrderSound
  <2>1. Sorted /\ order \in Seq(Nodes)
    BY DEF IInv, TypeOK, Done
  <2> QED
    BY <2>1, BeforeRespects DEF Sorted
<1> QED
  BY <1>1, InductiveInvariant, PTL

\* resolve's verdict: out.missing is exactly what is needed and not installed, and
\* hasCycle says exactly whether the modules to load require each other in a circle.
THEOREM VerdictIsExact == Spec => []VerdictExact
<1>1. IInv => VerdictExact
  <2> SUFFICES ASSUME IInv, Done
               PROVE  missing = Needed \ known /\ (HasCycle <=> ~Acyclic(set, req))
    BY DEF VerdictExact, Needed
  <2>1. TypeOK /\ Walked /\ Sorted
    BY DEF IInv, Done
  <2>2. set \in SUBSET Nodes /\ order \in Seq(Nodes)
    BY <2>1, Typed DEF TypeOK
  <2>3. Complete <=> Range(order) = set
    BY <2>1, <2>2, CompleteIffAll DEF Sorted, Complete
  <2> QED
    BY <2>1, <2>3 DEF Walked, Sorted, HasCycle
<1> QED
  BY <1>1, InductiveInvariant, PTL

\* The optional rounds, in whatever order an unordered_set yields the holders: the
\* set stays closed under required edges, and an optional dependency of a member
\* is in it exactly when all it requires is installed.
THEOREM BestEffortIsClosed == Spec => []BestEffortClosed
<1>1. IInv => BestEffortClosed
  <2> SUFFICES ASSUME IInv, Done, mode = "bestEffort", missing = {}
               PROVE  /\ \A n \in set : req[n] \subseteq set
                      /\ \A p \in skipped : p[2] \notin set
                      /\ \A n \in set : \A o \in opt[n] : o \in set <=> Satisfiable(o)
    BY DEF BestEffortClosed, Satisfiable
  <2>1. TypeOK /\ Rounds
    BY DEF IInv, Done
  <2>2. Closed(set, req) /\ \A p \in skipped : ~Satisfiable(p[2])
    BY <2>1 DEF Rounds
  <2>3. \A o \in Nodes : o \in set => Satisfiable(o)
    BY <2>1, <2>2, BlockedIffUnsatisfiable
  <2>4. \A n \in set : \A o \in opt[n] : o \in set \/ ~Satisfiable(o)
    BY <2>1 DEF Rounds, Done
  <2>5. opt \in Graph /\ set \in SUBSET Nodes
    BY <2>1, Typed
  <2>6. \A p \in skipped : p[2] \in Nodes
    BY <2>1 DEF TypeOK
  <2>7. \A n \in set : req[n] \subseteq set
    BY <2>2 DEF Closed
  <2> QED
    BY <2>2, <2>3, <2>4, <2>5, <2>6, <2>7 DEF Graph
<1> QED
  BY <1>1, InductiveInvariant, PTL

-----------------------------------------------------------------------------
(* The teardown order.                                                     *)

\* A sequence read backwards.
LEMMA Reversed ==
    ASSUME NEW S, NEW s \in Seq(S), IsInjective(s)
    PROVE  /\ Reverse(s) \in Seq(S) /\ Len(Reverse(s)) = Len(s) /\ DOMAIN Reverse(s) = 1..Len(s)
           /\ \A i \in 1..Len(s) : Reverse(s)[i] = s[Len(s) - i + 1]
           /\ IsInjective(Reverse(s)) /\ Range(Reverse(s)) = Range(s)
<1> DEFINE N == Len(s)
           t == Reverse(s)
<1>1. N \in Nat /\ DOMAIN s = 1..N /\ s \in [1..N -> S]
  OBVIOUS
<1>2. t = [i \in 1..N |-> s[N - i + 1]]
  BY DEF Reverse
<1> HIDE DEF N, t
<1>3. \A i \in 1..N : N - i + 1 \in 1..N /\ N - (N - i + 1) + 1 = i
  BY <1>1
<1>4. t \in [1..N -> S] /\ DOMAIN t = 1..N /\ \A i \in 1..N : t[i] = s[N - i + 1]
  BY <1>1, <1>2, <1>3
<1>5. t \in Seq(S) /\ Len(t) = N
  BY <1>1, <1>4
<1>6. IsInjective(t)
  <2> SUFFICES ASSUME NEW i \in 1..N, NEW j \in 1..N, t[i] = t[j] PROVE i = j
    BY <1>4 DEF IsInjective
  <2>1. N - i + 1 = N - j + 1
    BY <1>1, <1>3, <1>4 DEF IsInjective
  <2> QED
    BY <1>1, <2>1
<1>7. Range(t) = Range(s)
  <2>1. Range(t) \subseteq Range(s)
    BY <1>1, <1>3, <1>4 DEF Range
  <2>2. Range(s) \subseteq Range(t)
    <3> SUFFICES ASSUME NEW i \in 1..N PROVE s[i] \in Range(t)
      BY <1>1 DEF Range
    <3>1. N - i + 1 \in 1..N /\ t[N - i + 1] = s[i]
      BY <1>3, <1>4
    <3> QED
      BY <1>4, <3>1 DEF Range
  <2> QED
    BY <2>1, <2>2
<1> QED
  BY <1>4, <1>5, <1>6, <1>7 DEF N, t

\* The members of T in the order, backwards: each once, and read forwards again
\* they are as sound as the order was.
LEMMA ResolvedPart ==
    ASSUME NEW T \in SUBSET Nodes, NEW s \in Seq(Nodes), IsInjective(s),
           NEW r, r = Keep(Reverse(s), {i \in DOMAIN s : Reverse(s)[i] \in T})
    PROVE  /\ r \in Seq(Nodes) /\ IsInjective(r) /\ Range(r) = Range(s) \cap T
           /\ \A S \in SUBSET Nodes : \A e \in Graph :
                 T \subseteq S /\ Before(s, S, e) => Before(Reverse(r), T, e)
<1> DEFINE L == Len(s)
           t == Reverse(s)
           I == {i \in DOMAIN s : t[i] \in T}
           N == Cardinality(I)
<1>1. /\ L \in Nat /\ DOMAIN s = 1..L /\ t \in Seq(Nodes) /\ DOMAIN t = 1..L
      /\ \A i \in 1..L : t[i] = s[L - i + 1]
      /\ IsInjective(t) /\ Range(t) = Range(s)
  BY Reversed
<1>2. I \in SUBSET DOMAIN t /\ I \subseteq 1..L /\ \A i \in 1..L : i \in I <=> t[i] \in T
  BY <1>1
<1>3. r = Keep(t, I)
  OBVIOUS
<1> HIDE DEF L, t, I
<1>4. r \in Seq(Nodes) /\ Len(r) = N
  BY <1>1, <1>2, <1>3, KeepPicks
<1>5. PICK f \in [1..N -> I] :
         /\ \A j \in 1..N : r[j] = t[f[j]]
         /\ \A i \in I : \E j \in 1..N : f[j] = i
         /\ \A i, j \in 1..N : i < j <=> f[i] < f[j]
  <2>1. Picks(r, t, I)
    BY <1>1, <1>2, <1>3, KeepPicks
  <2> QED
    BY <2>1 DEF Picks
<1> HIDE DEF N
<1>6. N \in Nat /\ DOMAIN r = 1..N
  BY <1>4
<1>7. \A j \in 1..N : f[j] \in I /\ f[j] \in 1..L
  BY <1>2, <1>5
<1>8. IsInjective(r)
  <2> SUFFICES ASSUME NEW i \in 1..N, NEW j \in 1..N, r[i] = r[j] PROVE i = j
    BY <1>6 DEF IsInjective
  <2>1. f[i] = f[j]
    <3>1. t[f[i]] = t[f[j]] /\ f[i] \in DOMAIN t /\ f[j] \in DOMAIN t
      BY <1>1, <1>5, <1>7
    <3> QED
      BY <1>1, <3>1, Zenon DEF IsInjective
  <2>2. ~(f[i] < f[j]) /\ ~(f[j] < f[i])
    BY <1>1, <1>7, <2>1
  <2>3. ~(i < j) /\ ~(j < i)
    BY <1>5, <2>2
  <2> QED
    BY <1>6, <2>3
<1>9. Range(r) = Range(s) \cap T
  <2>1. Range(r) \subseteq Range(t) \cap T
    <3> SUFFICES ASSUME NEW j \in 1..N PROVE r[j] \in Range(t) \cap T
      BY <1>6 DEF Range
    <3>1. r[j] = t[f[j]] /\ f[j] \in 1..L /\ t[f[j]] \in T
      BY <1>2, <1>5, <1>7
    <3> QED
      BY <1>1, <3>1 DEF Range
  <2>2. Range(t) \cap T \subseteq Range(r)
    <3> SUFFICES ASSUME NEW i \in 1..L, t[i] \in T PROVE t[i] \in Range(r)
      BY <1>1 DEF Range
    <3>1. PICK j \in 1..N : f[j] = i
      BY <1>2, <1>5
    <3> QED
      BY <1>5, <1>6, <3>1 DEF Range
  <2> QED
    BY <1>1, <2>1, <2>2
<1>10. ASSUME NEW S \in SUBSET Nodes, NEW e \in Graph, T \subseteq S, Before(s, S, e)
       PROVE  Before(Reverse(r), T, e)
  <2> DEFINE q == Reverse(r)
  <2>1. DOMAIN q = 1..N /\ \A i \in 1..N : q[i] = r[N - i + 1]
    BY <1>4, <1>8, Reversed
  <2> SUFFICES Before(q, T, e)
    OBVIOUS
  <2> HIDE DEF q
  <2> SUFFICES ASSUME NEW i \in 1..N, NEW d \in e[q[i]] \cap T
               PROVE  \E j \in 1..N : j < i /\ q[j] = d
    BY <2>1 DEF Before
  <2> DEFINE m == N - i + 1
             x == f[m]
             a == L - x + 1
  <2>2. m \in 1..N /\ i \in Nat /\ m \in Nat
    BY <1>6
  <2>3. q[i] = t[x] /\ x \in 1..L
    BY <1>5, <1>7, <2>1, <2>2
  <2>4. a \in 1..L /\ q[i] = s[a]
    <3> HIDE DEF x
    <3>1. a \in 1..L
      BY <1>1, <2>3
    <3> QED
      BY <1>1, <2>3, <3>1
  <2>5. PICK k \in 1..L : k < a /\ s[k] = d
    <3> HIDE DEF a
    <3> QED
      BY <1>1, <1>10, <2>4 DEF Before
  <2> DEFINE y == L - k + 1
  <2>6. y \in 1..L /\ t[y] = d /\ x < y
    <3> HIDE DEF x
    <3>1. y \in 1..L /\ L - y + 1 = k /\ x < y
      BY <1>1, <2>3, <2>5
    <3> HIDE DEF y
    <3> QED
      BY <1>1, <2>5, <3>1
  <2> HIDE DEF y
  <2>7. PICK j \in 1..N : f[j] = y
    BY <1>2, <1>5, <2>6
  <2>8. m < j
    BY <1>5, <2>2, <2>6, <2>7
  <2>9. N - j + 1 \in 1..N /\ N - j + 1 < i /\ N - (N - j + 1) + 1 = j
    BY <1>6, <2>2, <2>8
  <2>10. q[N - j + 1] = d
    <3>1. q[N - j + 1] = r[N - (N - j + 1) + 1]
      BY <2>1, <2>9
    <3> QED
      BY <1>5, <2>6, <2>7, <2>9, <3>1
  <2> QED
    BY <2>9, <2>10
<1> QED
  BY <1>4, <1>8, <1>9, <1>10

\* unloadModuleWithDependents: the order it tears down in names the target and
\* each loaded dependent exactly once, those a cycle kept out of the resolver's
\* order included, and with no cycle a dependent goes before what it requires.
THEOREM TeardownIsExact == Spec => []TeardownExact
<1>1. IInv => TeardownExact
  <2> DEFINE T == TeardownSet
             I == {i \in DOMAIN order : Reverse(order)[i] \in T}
             r == Keep(Reverse(order), I)
             rest == T \ Range(r)
             own == IF Target \in rest THEN <<Target>> ELSE <<>>
             tail == SetToSeq(rest \ {Target})
             out == TeardownOrder
  <2> SUFFICES ASSUME IInv, Done, mode = "teardown"
               PROVE  /\ Range(out) = T /\ Len(out) = Cardinality(T)
                      /\ Complete => Respects(Reverse(out), T, req)
    BY DEF TeardownExact
  <2>1. TypeOK /\ Walked /\ Sorted /\ Target \in known
    BY DEF IInv, Done
  <2>2. /\ T \in SUBSET Nodes /\ set \in SUBSET Nodes /\ order \in Seq(Nodes)
        /\ req \in Graph /\ Need \in Graph /\ IsInjective(order)
        /\ \A S \in SUBSET Nodes : IsFiniteSet(S)
    BY <2>1, Typed DEF TypeOK, Sorted
  <2>3. out = r \o own \o tail
    BY DEF TeardownOrder
  <2>4. /\ r \in Seq(Nodes) /\ IsInjective(r) /\ Range(r) = Range(order) \cap T
        /\ T \subseteq set => Before(Reverse(r), T, req)
    <3>1. /\ r \in Seq(Nodes) /\ IsInjective(r) /\ Range(r) = Range(order) \cap T
          /\ \A S \in SUBSET Nodes : \A e \in Graph :
                T \subseteq S /\ Before(order, S, e) => Before(Reverse(r), T, e)
      <4> HIDE DEF T
      <4> QED
        BY <2>2, ResolvedPart
    <3> HIDE DEF r, T
    <3> QED
      BY <2>1, <2>2, <3>1 DEF Sorted
  <2> HIDE DEF r, T, out
  <2>5. own \in Seq(Nodes) /\ IsInjective(own) /\ Range(own) = rest \cap {Target}
    <3>1. Target \in Nodes
      BY ResolverAssumption
    <3>2. CASE Target \in rest
      <4>1. own = <<Target>>
        BY <3>2
      <4> HIDE DEF own, rest
      <4> QED
        BY <3>1, <3>2, <4>1 DEF IsInjective, Range
    <3>3. CASE Target \notin rest
      <4>1. own = <<>>
        BY <3>3
      <4> HIDE DEF own, rest
      <4> QED
        BY <3>3, <4>1 DEF IsInjective, Range
    <3> QED
      BY <3>2, <3>3
  <2>6. tail \in Seq(Nodes) /\ IsInjective(tail) /\ Range(tail) = rest \ {Target}
    <3> DEFINE left2 == rest \ {Target}
    <3>1. left2 \in SUBSET Nodes /\ tail = SetToSeq(left2)
      BY <2>2
    <3> HIDE DEF left2, tail
    <3>2. tail \in Seq(left2) /\ IsInjective(tail) /\ Range(tail) = left2
      BY <2>2, <3>1, Listed
    <3>3. tail \in Seq(Nodes)
      BY <3>1, <3>2
    <3> QED
      BY <3>2, <3>3 DEF left2
  <2> HIDE DEF own, tail
  <2>7. /\ r \o own \in Seq(Nodes) /\ IsInjective(r \o own)
        /\ Range(r \o own) = Range(r) \cup (rest \cap {Target})
    <3>1. Range(r) \cap Range(own) = {}
      BY <2>5
    <3>2. /\ r \o own \in Seq(Nodes) /\ Range(r \o own) = Range(r) \cup Range(own)
          /\ IsInjective(r) /\ IsInjective(own) /\ Range(r) \cap Range(own) = {}
                => IsInjective(r \o own)
      BY <2>4, <2>5, Concatenated, Zenon
    <3> QED
      BY <2>4, <2>5, <3>1, <3>2
  <2> DEFINE front == r \o own
  <2> HIDE DEF front
  <2>8. /\ out \in Seq(Nodes) /\ IsInjective(out)
        /\ Range(out) = Range(front) \cup (rest \ {Target})
    <3>1. front \in Seq(Nodes) /\ IsInjective(front) /\ out = front \o tail
      BY <2>3, <2>7 DEF front
    <3>2. Range(front) \cap Range(tail) = {}
      BY <2>6, <2>7 DEF front
    <3>3. /\ front \o tail \in Seq(Nodes) /\ Range(front \o tail) = Range(front) \cup Range(tail)
          /\ IsInjective(front) /\ IsInjective(tail) /\ Range(front) \cap Range(tail) = {}
                => IsInjective(front \o tail)
      BY <2>6, <3>1, Concatenated, Zenon
    <3> QED
      BY <2>6, <3>1, <3>2, <3>3
  <2>9. Range(out) = T
    BY <2>4, <2>7, <2>8 DEF front
  <2>10. Len(out) = Cardinality(T)
    BY <2>8, <2>9, Counted
  <2>11. ASSUME Complete PROVE Respects(Reverse(out), T, req)
    <3>1. Range(order) = set
      BY <2>1, <2>2, <2>11, CompleteIffAll DEF Sorted, Complete
    <3>2. T \subseteq set
      <4>1. T \subseteq Needed
        BY <2>1, Typed, ReachLeast DEF Needed, Requested, T
      <4>2. T \subseteq known
        BY <2>1 DEF T, TeardownSet, TypeOK
      <4> QED
        BY <2>1, <4>1, <4>2 DEF Walked
    <3>3. rest = {}
      BY <2>4, <3>1, <3>2
    <3>4. out = r
      <4>1. own = <<>>
        BY <3>3 DEF own
      <4>2. tail = <<>>
        <5>1. Range(tail) = {}
          BY <2>6, <3>3
        <5> QED
          BY <2>6, <5>1 DEF Range
      <4> QED
        BY <2>3, <2>4, <4>1, <4>2
    <3>5. Before(Reverse(out), T, req)
      BY <2>4, <3>2, <3>4
    <3>6. Reverse(out) \in Seq(Nodes) /\ IsInjective(Reverse(out))
      BY <2>8, Reversed
    <3> QED
      BY <3>5, <3>6, BeforeRespects
  <2> QED
    BY <2>9, <2>10, <2>11
<1> QED
  BY <1>1, InductiveInvariant, PTL

-----------------------------------------------------------------------------
(* The gates.                                                              *)

\* A load past the policy, and one whose entries are being walked.
Judged ==
    [pc : {"protocol", "entries"}, mod : Modules, path : Paths,
     format : Formats, under : Policies]
Asking ==
    [pc : {"deps"}, mod : Modules, path : Paths, format : Formats,
     under : Policies, deps : Seq(DependencyEntries)]

\* The load a thread is in: a local of loadModuleInternal is there once read.
LoadStates ==
    {Idle} \cup [pc : {"format"}, mod : Modules, path : Paths] \cup Judged \cup Asking

\* The disk, the registry, the policy and the loads hold values of their types.
GatesTyped ==
    /\ disk \in [Modules -> PackageRecords] /\ table \in [Modules -> PackageRecords]
    /\ policy \in Policies
    /\ load \in [Threads -> LoadStates]
    /\ inst \in [Running -> [pkg : PackageRecords, found : PackageRecords, under : Policies]]
    /\ Running \subseteq Modules

Current(m) == m \notin outdated

\* What the questions a load has asked so far came to, as long as the grounds of
\* its module have not changed: the registry is level with the disk and names
\* the file the load started from; the format is what the policy demands; a
\* plugin's stamp was admissible; every entry has passed or is still to come.
LevelHeld(l) ==
    Current(l.mod) => table[l.mod] = disk[l.mod] /\ l.path = disk[l.mod].path
PolicyHeld(l) ==
    \/ l.mod \in Exempt \/ l.under = "auto"
    \/ l.format = Demands[l.under]
StampHeld(l) ==
    Current(l.mod) /\ l.path = "plugin.so" => ~ProtocolRefuses(disk[l.mod].major)
EntriesHeld(l) ==
    Current(l.mod) =>
        \A i \in DOMAIN disk[l.mod].deps :
            \/ ~EntryRefused(disk[l.mod].deps[i])
            \/ \E j \in DOMAIN l.deps : l.deps[j] = disk[l.mod].deps[i]

LoadHeld(l) ==
    /\ l.pc # "idle" => l.path # "" /\ LevelHeld(l)
    /\ l.pc \in {"protocol", "entries", "deps"} => PolicyHeld(l)
    /\ l.pc \in {"entries", "deps"} => StampHeld(l)
    /\ l.pc = "deps" => EntriesHeld(l)

LoadsHeld == \A t \in Threads : LoadHeld(load[t])

\* What a running module was found as, while its grounds have not changed, is what
\* is on disk and in the registry, and would pass the dependency gate again.
RunsHeld ==
    \A m \in Running : Current(m) =>
        /\ inst[m].found = disk[m] /\ table[m] = disk[m]
        /\ \A i \in DOMAIN disk[m].deps : ~EntryRefused(disk[m].deps[i])

\* What is kept mapped is a bare module's image.
ImagesHeld ==
    /\ mapped \in [Modules -> PackageRecords]
    /\ \A m \in Modules : mapped[m] = NoPackage \/ mapped[m].path = "image.so"

GatesInv == GatesTyped /\ ImagesHeld /\ LoadsHeld /\ RunsHeld /\ AdmittedOnly

\* No package is a package record, with no file.
LEMMA NothingInstalled == NoPackage \in PackageRecords
<1>1. <<>> \in Seq(DependencyEntries) /\ 0 \in Nat
  OBVIOUS
<1> QED
  BY <1>1 DEF NoPackage, PackageRecords, Paths

\* Nothing runs and no load has begun.
LEMMA GatesInitially ==
    GatesInit => GatesInv
<1> SUFFICES ASSUME GatesInit PROVE GatesInv
  OBVIOUS
<1> USE GatesAssumption DEF GatesInit
<1>1. Running = {}
  BY DEF Running
<1>3. GatesTyped
  <2>1. disk \in [Modules -> PackageRecords] /\ table \in [Modules -> PackageRecords]
    OBVIOUS
  <2>2. policy \in Policies /\ load \in [Threads -> LoadStates]
    BY DEF Policies, LoadStates
  <2>3. inst \in [Running -> [pkg : PackageRecords, found : PackageRecords, under : Policies]]
    BY <1>1
  <2> QED
    BY <1>1, <2>1, <2>2, <2>3 DEF GatesTyped
<1>4. \A t \in Threads : load[t].pc = "idle"
  BY DEF Idle
<1>5. LoadsHeld
  BY <1>4 DEF LoadsHeld, LoadHeld
<1>6. RunsHeld /\ AdmittedOnly
  BY <1>1 DEF RunsHeld, AdmittedOnly
<1>7. ImagesHeld
  BY NothingInstalled DEF ImagesHeld
<1> QED
  BY <1>3, <1>5, <1>6, <1>7 DEF GatesInv

\* The locals of a load that has got as far as reading them.
LEMMA LoadFields ==
    ASSUME NEW l \in LoadStates
    PROVE  /\ l.pc \in {"idle", "format", "protocol", "entries", "deps"}
           /\ l.pc # "idle" => l.mod \in Modules /\ l.path \in Paths
           /\ l.pc \in {"protocol", "entries"} => l \in Judged
           /\ l.pc = "deps" => l \in Asking
  BY DEF LoadStates, Idle, Judged, Asking

\* One thread's load moves on: the others' do not.
LEMMA OneThread ==
    ASSUME GatesTyped, NEW t \in Threads, NEW r \in LoadStates, Goes(t, r)
    PROVE  /\ load'[t] = r /\ \A s \in Threads \ {t} : load'[s] = load[s]
           /\ load' \in [Threads -> LoadStates]
  BY DEF GatesTyped, Goes

\* A step that leaves the images alone leaves them in order.
LEMMA SameImages == GatesInv /\ mapped' = mapped => ImagesHeld'
  BY DEF GatesInv, ImagesHeld

\* A step of a load that changes only where the load is, and perhaps an image that
\* is kept, keeps the invariant if what the load now carries holds.
LEMMA LoadGoes ==
    ASSUME GatesInv, NEW t \in Threads, NEW r \in LoadStates, LoadHeld(r), Goes(t, r),
           UNCHANGED <<disk, table, policy, inst, outdated>>, ImagesHeld'
    PROVE  GatesInv'
<1>1. /\ load'[t] = r /\ \A s \in Threads \ {t} : load'[s] = load[s]
      /\ load' \in [Threads -> LoadStates]
  BY OneThread DEF GatesInv
<1>2. Running' = Running
  BY DEF Running
<1>3. GatesTyped'
  BY <1>1, <1>2 DEF GatesInv, GatesTyped
<1>4. LoadsHeld'
  <2> SUFFICES ASSUME NEW s \in Threads PROVE LoadHeld(load[s])'
    BY DEF LoadsHeld
  <2>1. LoadHeld(load'[s])
    BY <1>1 DEF GatesInv, LoadsHeld
  <2>2. EntriesHeld(load'[s]) => EntriesHeld(load[s])'
    BY DEF EntriesHeld, Current, EntryRefused
  <2>3. LevelHeld(load'[s]) => LevelHeld(load[s])'
    BY DEF LevelHeld, Current
  <2>4. StampHeld(load'[s]) => StampHeld(load[s])'
    BY DEF StampHeld, Current
  <2> QED
    BY <2>1, <2>2, <2>3, <2>4 DEF LoadHeld, PolicyHeld
<1>5. RunsHeld'
  BY <1>2 DEF GatesInv, RunsHeld, Current, EntryRefused
<1>6. AdmittedOnly'
  BY <1>2 DEF GatesInv, AdmittedOnly
<1> QED
  BY <1>3, <1>4, <1>5, <1>6 DEF GatesInv

\* A step of a load on its own.
LEMMA LoadMoves ==
    ASSUME GatesInv, NEW t \in Threads, NEW r \in LoadStates, LoadHeld(r), Goes(t, r),
           OnlyLoadMoves
    PROVE  GatesInv'
<1>1. ImagesHeld' /\ UNCHANGED <<disk, table, policy, inst, outdated>>
  BY SameImages DEF OnlyLoadMoves
<1> QED
  BY <1>1, LoadGoes

\* A load that is refused, or fails, leaves no more behind than an image.
LEMMA LoadQuits ==
    ASSUME GatesInv, NEW t \in Threads, Refused(t),
           UNCHANGED <<disk, table, policy, inst, outdated>>, ImagesHeld'
    PROVE  GatesInv'
<1>1. Idle \in LoadStates /\ LoadHeld(Idle)
  BY DEF LoadStates, LoadHeld, Idle
<1> QED
  BY <1>1, LoadGoes DEF Refused

\* The code a launch runs is a package record at the path the load goes by; what it
\* retains is an image.
LEMMA CodeHeld ==
    ASSUME GatesInv, NEW l \in Asking, disk[l.mod].path = l.path, FormatOf(l.path) = l.format
    PROVE  /\ CodeOf(l) \in PackageRecords /\ CodeOf(l).path = l.path
           /\ l.format # "bare" => CodeOf(l) = disk[l.mod]
           /\ l.format = "bare" /\ Retains(l) => ImagesHeld'
<1>1. l.mod \in Modules /\ l.path \in Paths
  BY DEF Asking
<1>2. disk[l.mod] \in PackageRecords /\ mapped[l.mod] \in PackageRecords
  BY <1>1 DEF GatesInv, GatesTyped, ImagesHeld
<1>3. l.format = "bare" => l.path = "image.so"
  BY <1>1 DEF FormatOf, Paths
<1>4. CodeOf(l) \in PackageRecords /\ CodeOf(l).path = l.path
  BY <1>1, <1>2, <1>3 DEF CodeOf, GatesInv, ImagesHeld
<1>5. ASSUME l.format = "bare", Retains(l) PROVE ImagesHeld'
  BY <1>1, <1>3, <1>4, <1>5 DEF Retains, GatesInv, ImagesHeld
<1> QED
  BY <1>4, <1>5 DEF CodeOf

\* A launch that fails leaves at most an image behind.
LEMMA FailsStep ==
    ASSUME GatesInv, NEW t \in Threads, LaunchFails(t)
    PROVE  GatesInv'
<1>1. load[t] \in Asking
  BY LoadFields DEF LaunchFails, At, GatesInv, GatesTyped
<1>2. ImagesHeld'
  <2>1. CASE mapped' = mapped
    BY <2>1, SameImages
  <2>2. CASE Opens(load[t]) /\ Retains(load[t])
    BY <1>1, <2>2, CodeHeld DEF Opens
  <2> QED
    BY <2>1, <2>2 DEF LaunchFails
<1> QED
  BY <1>2, LoadQuits DEF LaunchFails

\* What the package manager, a scan and a new policy may do to a load or to what
\* runs: nothing, to a module that is not outdated by it.
LEMMA WorldChanges ==
    ASSUME GatesInv, GatesTyped', load' = load, mapped' = mapped, inst' = inst,
           outdated \subseteq outdated',
           \A k \in Modules : k \notin outdated' =>
               /\ disk'[k] = disk[k] /\ table'[k] = table[k]
               /\ \A i \in DOMAIN disk[k].deps :
                     table'[disk[k].deps[i].name].version = table[disk[k].deps[i].name].version
    PROVE  GatesInv'
<1>1. Running' = Running /\ Running \subseteq Modules
  BY DEF Running, GatesInv, GatesTyped
<1>2. ASSUME NEW k \in Modules, k \notin outdated', NEW i \in DOMAIN disk[k].deps
      PROVE  EntryRefused(disk[k].deps[i])' => EntryRefused(disk[k].deps[i])
  BY <1>2 DEF EntryRefused
<1>3. LoadsHeld'
  <2> SUFFICES ASSUME NEW t \in Threads PROVE LoadHeld(load[t])'
    BY DEF LoadsHeld
  <2>1. LoadHeld(load[t])
    BY DEF GatesInv, LoadsHeld
  <2>2. load[t].pc # "idle" => load[t].mod \in Modules
    BY LoadFields DEF GatesInv, GatesTyped
  <2>3. CASE load[t].pc # "idle" /\ load[t].mod \notin outdated'
    <3>1. /\ disk'[load[t].mod] = disk[load[t].mod]
          /\ table'[load[t].mod] = table[load[t].mod] /\ load[t].mod \notin outdated
      BY <2>2, <2>3
    <3>2. EntriesHeld(load[t]) => EntriesHeld(load[t])'
      BY <1>2, <2>2, <2>3, <3>1 DEF EntriesHeld, Current
    <3> QED
      BY <2>1, <3>1, <3>2 DEF LoadHeld, LevelHeld, PolicyHeld, StampHeld, Current,
                              ProtocolRefuses
  <2>4. CASE load[t].pc # "idle" /\ load[t].mod \in outdated'
    BY <2>1, <2>4 DEF LoadHeld, LevelHeld, PolicyHeld, StampHeld, EntriesHeld, Current
  <2>5. CASE load[t].pc = "idle"
    BY <2>5 DEF LoadHeld
  <2> QED
    BY <2>3, <2>4, <2>5
<1>4. RunsHeld'
  BY <1>1, <1>2 DEF GatesInv, RunsHeld, Current
<1>5. AdmittedOnly'
  BY <1>1 DEF GatesInv, AdmittedOnly
<1> QED
  BY <1>3, <1>4, <1>5, SameImages DEF GatesInv

\* Reading the path begins a load with the grounds it has.
LEMMA BeginsStep ==
    ASSUME GatesInv, NEW t \in Threads, NEW m \in Modules, LoadBegins(t, m)
    PROVE  GatesInv'
<1> USE DEF LoadBegins
<1> DEFINE r == [pc |-> "format", mod |-> m, path |-> table[m].path]
<1>1. r \in LoadStates
  BY DEF LoadStates, GatesInv, GatesTyped, PackageRecords
<1>0. r.pc = "format" /\ r.mod = m /\ r.path = table[m].path
  OBVIOUS
<1>2. /\ load'[t] = r /\ \A s \in Threads \ {t} : load'[s] = load[s]
      /\ load' \in [Threads -> LoadStates]
  BY <1>1, OneThread DEF GatesInv
<1> HIDE DEF r
<1>3. Running' = Running /\ m \notin Running
  BY DEF Running
<1>4. GatesTyped'
  BY <1>2, <1>3 DEF GatesInv, GatesTyped
<1>5. \A k : k # m => (Current(k)' <=> Current(k))
  BY DEF Current
<1>6. Current(m)' => table[m] = disk[m]
  BY DEF Current
<1>7. LoadsHeld'
  <2> SUFFICES ASSUME NEW s \in Threads PROVE LoadHeld(load[s])'
    BY DEF LoadsHeld
  <2>1. CASE s = t
    <3>1. load'[s].pc = "format" /\ load'[s].mod = m /\ load'[s].path = table[m].path
      BY <1>0, <1>2, <2>1
    <3>2. table[m].path # "" /\ UNCHANGED <<disk, table>>
      OBVIOUS
    <3> QED
      BY <1>6, <3>1, <3>2 DEF LoadHeld, LevelHeld
  <2>2. CASE s # t
    <3>1. load'[s] = load[s] /\ LoadHeld(load[s])
      BY <1>2, <2>2 DEF GatesInv, LoadsHeld
    <3>2. load[s].pc # "idle" => load[s].mod # m
      BY DEF Locked
    <3>3. load[s].pc # "idle" => (Current(load[s].mod)' <=> Current(load[s].mod))
      BY <1>5, <3>1, <3>2
    <3>4. load[s].pc # "idle" /\ EntriesHeld(load[s]) => EntriesHeld(load[s])'
      BY <3>1, <3>3 DEF EntriesHeld, EntryRefused
    <3> QED
      BY <3>1, <3>3, <3>4 DEF LoadHeld, LevelHeld, PolicyHeld, StampHeld
  <2> QED
    BY <2>1, <2>2
<1>8. RunsHeld'
  BY <1>3, <1>5 DEF GatesInv, RunsHeld, EntryRefused
<1>9. AdmittedOnly'
  BY <1>3 DEF GatesInv, AdmittedOnly
<1> QED
  BY <1>4, <1>7, <1>8, <1>9, SameImages DEF GatesInv

\* The format a load goes on with is the one the policy was asked about
\* (containerPolicyMismatch).
LEMMA PolicyPassesStep ==
    ASSUME GatesInv, NEW t \in Threads, PolicyPasses(t)
    PROVE  GatesInv'
<1> DEFINE l == load[t]
           f == FormatOf(table[l.mod].path)
           r == [pc |-> "protocol", mod |-> l.mod, path |-> l.path, format |-> f,
                 under |-> policy]
<1>1. /\ l.pc = "format" /\ ~ContainerPolicyMismatch(policy, l.mod, f)
      /\ Goes(t, r) /\ OnlyLoadMoves
  BY DEF PolicyPasses, At
<1>2. LoadHeld(l) /\ l \in LoadStates /\ policy \in Policies
  BY DEF GatesInv, LoadsHeld, GatesTyped
<1>3. l.mod \in Modules /\ l.path \in Paths
  BY <1>1, <1>2, LoadFields
<1>4. f \in Formats
  BY DEF FormatOf, Formats
<1> HIDE DEF f
<1>5. r \in LoadStates
  BY <1>2, <1>3, <1>4 DEF LoadStates, Judged
<1>6. PolicyHeld(r)
  BY <1>1, <1>2, <1>4 DEF PolicyHeld, ContainerPolicyMismatch, Demands, Policies
<1>7. LoadHeld(r)
  BY <1>1, <1>2, <1>6 DEF LoadHeld, LevelHeld
<1> HIDE DEF r
<1> QED
  BY <1>1, <1>5, <1>7, LoadMoves

\* A plugin goes on only past an admissible stamp (evaluateProtocolGate).
LEMMA ProtocolStep ==
    ASSUME GatesInv, NEW t \in Threads, ProtocolGate(t)
    PROVE  GatesInv'
<1> DEFINE l == load[t]
           r == [pc |-> "entries", mod |-> l.mod, path |-> l.path,
                 format |-> l.format, under |-> l.under]
<1>1. l.pc = "protocol" /\ OnlyLoadMoves
  BY DEF ProtocolGate, At
<1>2. CASE ProtocolRefuses(StampAt(l.mod, l.path))
  BY <1>1, <1>2, SameImages, LoadQuits DEF ProtocolGate, OnlyLoadMoves
<1>3. CASE ~ProtocolRefuses(StampAt(l.mod, l.path))
  <2>1. Goes(t, r)
    BY <1>3 DEF ProtocolGate
  <2>2. LoadHeld(l) /\ l \in Judged
    BY <1>1, LoadFields DEF GatesInv, LoadsHeld, GatesTyped
  <2>3. r \in LoadStates
    BY <2>2 DEF LoadStates, Judged
  <2>4. StampHeld(r)
    BY <1>1, <1>3, <2>2 DEF LoadHeld, LevelHeld, StampHeld, StampAt
  <2>5. LoadHeld(r)
    BY <1>1, <2>2, <2>4 DEF LoadHeld, LevelHeld, PolicyHeld
  <2> HIDE DEF r
  <2> QED
    BY <1>1, <2>1, <2>3, <2>5, LoadMoves
<1> QED
  BY <1>2, <1>3

\* With the entries read, all of them are still to come (dependencyGateFor).
LEMMA EntriesStep ==
    ASSUME GatesInv, NEW t \in Threads, ReadEntries(t)
    PROVE  GatesInv'
<1> DEFINE l == load[t]
           r == [pc |-> "deps", mod |-> l.mod, path |-> l.path, format |-> l.format,
                 under |-> l.under, deps |-> table[l.mod].deps]
<1>1. l.pc = "entries" /\ OnlyLoadMoves /\ Goes(t, r)
  BY DEF ReadEntries, At
<1>2. LoadHeld(l) /\ l \in Judged
  BY <1>1, LoadFields DEF GatesInv, LoadsHeld, GatesTyped
<1>3. l.mod \in Modules
  BY <1>2 DEF Judged
<1>4. table[l.mod].deps \in Seq(DependencyEntries)
  BY <1>3 DEF GatesInv, GatesTyped, PackageRecords
<1>5. r \in LoadStates
  BY <1>2, <1>4 DEF LoadStates, Judged, Asking
<1>6. EntriesHeld(r)
  BY <1>1, <1>2 DEF LoadHeld, LevelHeld, EntriesHeld
<1>7. LoadHeld(r)
  BY <1>1, <1>2, <1>6 DEF LoadHeld, LevelHeld, PolicyHeld, StampHeld
<1> HIDE DEF r
<1> QED
  BY <1>1, <1>5, <1>7, LoadMoves

\* An entry that passes leaves the walk, and no other does.
LEMMA ContinuesStep ==
    ASSUME GatesInv, NEW t \in Threads, GateContinues(t)
    PROVE  GatesInv'
<1> DEFINE l == load[t]
           r == [l EXCEPT !.deps = Tail(@)]
<1>1. /\ l.pc = "deps" /\ l.deps # <<>> /\ ~EntryRefused(Head(l.deps))
      /\ OnlyLoadMoves /\ Goes(t, r)
  BY DEF GateContinues, At
<1>2. LoadHeld(l) /\ l \in Asking
  BY <1>1, LoadFields DEF GatesInv, LoadsHeld, GatesTyped
<1>3. l.deps \in Seq(DependencyEntries)
  BY <1>2 DEF Asking
<1>4. Tail(l.deps) \in Seq(DependencyEntries)
  BY <1>1, <1>3
<1>5. /\ r \in Asking /\ r.mod = l.mod /\ r.path = l.path /\ r.format = l.format
      /\ r.under = l.under /\ r.pc = "deps" /\ r.deps = Tail(l.deps)
  BY <1>1, <1>2, <1>4 DEF Asking
<1>6. \A j \in DOMAIN l.deps :
          \/ l.deps[j] = Head(l.deps)
          \/ \E k \in DOMAIN Tail(l.deps) : Tail(l.deps)[k] = l.deps[j]
  <2> SUFFICES ASSUME NEW j \in DOMAIN l.deps, j # 1
               PROVE  \E k \in DOMAIN Tail(l.deps) : Tail(l.deps)[k] = l.deps[j]
    BY <1>1, <1>3
  <2>1. j - 1 \in DOMAIN Tail(l.deps) /\ Tail(l.deps)[j - 1] = l.deps[j]
    BY <1>1, <1>3
  <2> QED
    BY <2>1
<1> HIDE DEF r
<1>7. EntriesHeld(r)
  <2> SUFFICES ASSUME Current(l.mod), NEW i \in DOMAIN disk[l.mod].deps,
                      EntryRefused(disk[l.mod].deps[i])
               PROVE  \E k \in DOMAIN Tail(l.deps) : Tail(l.deps)[k] = disk[l.mod].deps[i]
    BY <1>5 DEF EntriesHeld
  <2>1. PICK j \in DOMAIN l.deps : l.deps[j] = disk[l.mod].deps[i]
    BY <1>1, <1>2 DEF LoadHeld, EntriesHeld
  <2>2. l.deps[j] # Head(l.deps)
    BY <1>1, <2>1
  <2> QED
    BY <1>6, <2>1, <2>2
<1>8. LoadHeld(r)
  BY <1>1, <1>2, <1>5, <1>7 DEF LoadHeld, LevelHeld, PolicyHeld, StampHeld
<1>9. r \in LoadStates
  BY <1>5 DEF LoadStates
<1> QED
  BY <1>1, <1>8, <1>9, LoadMoves

\* What is launched is at the path that was judged: the file on disk, or the image
\* mapped from there before.
LEMMA LaunchesStep ==
    ASSUME HostMajor \in Nat, GatesInv, NEW t \in Threads, Launches(t)
    PROVE  GatesInv'
<1> DEFINE l == load[t]
           pkg == CodeOf(l)
           new == [pkg |-> pkg, found |-> disk[l.mod], under |-> l.under]
<1>1. /\ l.pc = "deps" /\ l.deps = <<>> /\ disk[l.mod].path = l.path
      /\ FormatOf(l.path) = l.format
      /\ IF l.format = "bare" THEN BareCompatible(pkg) /\ Retains(l) ELSE mapped' = mapped
      /\ inst' = [m \in Running \cup {l.mod} |-> IF m = l.mod THEN new ELSE inst[m]]
      /\ Goes(t, Idle) /\ UNCHANGED <<disk, table, policy, outdated>>
  BY DEF Launches, At
<1>2. LoadHeld(l) /\ l \in Asking
  BY <1>1, LoadFields DEF GatesInv, LoadsHeld, GatesTyped
<1>3. l.mod \in Modules /\ l.under \in Policies /\ l.path \in Paths
  BY <1>2 DEF Asking
<1>4. /\ pkg \in PackageRecords /\ disk[l.mod] \in PackageRecords /\ pkg.path = l.path
      /\ l.format # "bare" => pkg = disk[l.mod]
      /\ ImagesHeld'
  <2>1. disk[l.mod] \in PackageRecords
    BY <1>3 DEF GatesInv, GatesTyped
  <2> QED
    BY <1>1, <1>2, <2>1, CodeHeld, SameImages
<1> HIDE DEF pkg
<1>5. /\ Running' = Running \cup {l.mod} /\ inst'[l.mod] = new
      /\ \A m \in Running \ {l.mod} : inst'[m] = inst[m]
  BY <1>1 DEF Running
<1>6. Idle \in LoadStates /\ Idle.pc = "idle"
  BY DEF LoadStates, Idle
<1>7. /\ load'[t].pc = "idle" /\ \A s \in Threads \ {t} : load'[s] = load[s]
      /\ load' \in [Threads -> LoadStates]
  BY <1>1, <1>6, OneThread DEF GatesInv
<1>8. GatesTyped'
  <2>1. inst' \in [Running' -> [pkg : PackageRecords, found : PackageRecords,
                                 under : Policies]]
    BY <1>1, <1>3, <1>4, <1>5 DEF GatesInv, GatesTyped
  <2> QED
    BY <1>1, <1>3, <1>5, <1>7, <2>1 DEF GatesInv, GatesTyped
<1>9. LoadsHeld'
  <2> SUFFICES ASSUME NEW s \in Threads PROVE LoadHeld(load[s])'
    BY DEF LoadsHeld
  <2>1. CASE s = t
    BY <1>7, <2>1 DEF LoadHeld
  <2>2. CASE s # t
    <3>1. load'[s] = load[s] /\ LoadHeld(load[s]) /\ UNCHANGED <<disk, table, outdated>>
      BY <1>1, <1>7, <2>2 DEF GatesInv, LoadsHeld
    <3>2. EntriesHeld(load[s]) => EntriesHeld(load[s])'
      BY <3>1 DEF EntriesHeld, Current, EntryRefused
    <3> QED
      BY <3>1, <3>2 DEF LoadHeld, LevelHeld, PolicyHeld, StampHeld, Current
  <2> QED
    BY <2>1, <2>2
<1>10. RunsHeld'
  <2>1. ASSUME NEW m \in Running', Current(m)
        PROVE  /\ inst'[m].found = disk[m] /\ table[m] = disk[m]
               /\ \A i \in DOMAIN disk[m].deps : ~EntryRefused(disk[m].deps[i])
    <3>1. CASE m = l.mod
      <4>1. LevelHeld(l) /\ EntriesHeld(l)
        BY <1>1, <1>2 DEF LoadHeld
      <4>2. DOMAIN l.deps = {}
        BY <1>1
      <4>3. \A i \in DOMAIN disk[m].deps : ~EntryRefused(disk[m].deps[i])
        BY <2>1, <3>1, <4>1, <4>2 DEF EntriesHeld
      <4>4. table[m] = disk[m] /\ inst'[m].found = disk[m]
        BY <1>5, <2>1, <3>1, <4>1 DEF LevelHeld
      <4> QED
        BY <4>3, <4>4
    <3>2. CASE m # l.mod
      BY <1>5, <2>1, <3>2 DEF GatesInv, RunsHeld
    <3> QED
      BY <3>1, <3>2
  <2> QED
    BY <1>1, <2>1 DEF RunsHeld, Current, EntryRefused
<1>11. AdmittedOnly'
  <2>1. \/ l.mod \in Exempt \/ l.under = "auto"
        \/ FormatOf(pkg.path) = Demands[l.under]
    BY <1>1, <1>2, <1>4 DEF LoadHeld, PolicyHeld
  <2>2. pkg.major \in Nat \cup {Legacy}
    BY <1>4 DEF PackageRecords
  <2>3. ~ProtocolRefuses(pkg.major) => pkg.major \in {Legacy, HostMajor}
    BY <2>2 DEF ProtocolRefuses
  <2>4. \/ FormatOf(pkg.path) = "web"
        \/ FormatOf(pkg.path) = "qt-plugin" /\ l.mod \in outdated
        \/ pkg.major \in {Legacy, HostMajor}
    <3>1. l.path = "plugin.so" \/ FormatOf(l.path) \in {"bare", "web"}
      BY <1>1, <1>2, <1>3 DEF Paths, FormatOf, LoadHeld
    <3>2. l.path = "plugin.so" => FormatOf(l.path) = "qt-plugin"
      BY DEF FormatOf
    <3>3. l.path = "plugin.so" /\ l.mod \notin outdated => ~ProtocolRefuses(pkg.major)
      BY <1>1, <1>2, <1>4, <3>2 DEF LoadHeld, StampHeld, Current
    <3> QED
      BY <1>1, <1>4, <2>3, <3>1, <3>2, <3>3 DEF BareCompatible
  <2>5. ASSUME NEW m \in Running'
        PROVE  /\ \/ m \in Exempt \/ inst'[m].under = "auto"
                  \/ FormatOf(inst'[m].pkg.path) = Demands[inst'[m].under]
               /\ \/ FormatOf(inst'[m].pkg.path) = "web"
                  \/ FormatOf(inst'[m].pkg.path) = "qt-plugin" /\ m \in outdated
                  \/ inst'[m].pkg.major \in {Legacy, HostMajor}
    <3>1. CASE m = l.mod
      BY <1>5, <2>1, <2>4, <3>1
    <3>2. CASE m # l.mod
      BY <1>5, <3>2 DEF GatesInv, AdmittedOnly
    <3> QED
      BY <3>1, <3>2
  <2> QED
    BY <1>1, <2>5 DEF AdmittedOnly
<1> QED
  BY <1>4, <1>8, <1>9, <1>10, <1>11 DEF GatesInv

\* An unload or a death takes one module out of what runs.
LEMMA StopsStep ==
    ASSUME GatesInv, NEW m \in Modules, Stops(m)
    PROVE  GatesInv'
<1>1. inst' = Without(inst, m) /\ UNCHANGED <<disk, table, policy, load, mapped, outdated>>
  BY DEF Stops
<1>2. Running' = Running \ {m} /\ \A k \in Running' : inst'[k] = inst[k]
  BY <1>1 DEF Running, Without
<1>3. GatesTyped'
  <2>1. inst' \in [Running' -> [pkg : PackageRecords, found : PackageRecords,
                                 under : Policies]]
    BY <1>1, <1>2 DEF GatesInv, GatesTyped, Without, Running
  <2> QED
    BY <1>1, <1>2, <2>1 DEF GatesInv, GatesTyped
<1>4. LoadsHeld'
  <2> SUFFICES ASSUME NEW s \in Threads PROVE LoadHeld(load[s])'
    BY DEF LoadsHeld
  <2>1. LoadHeld(load[s])
    BY DEF GatesInv, LoadsHeld
  <2>2. EntriesHeld(load[s]) => EntriesHeld(load[s])'
    BY <1>1 DEF EntriesHeld, Current, EntryRefused
  <2> QED
    BY <1>1, <2>1, <2>2 DEF LoadHeld, LevelHeld, PolicyHeld, StampHeld, Current
<1>5. RunsHeld'
  BY <1>1, <1>2 DEF GatesInv, RunsHeld, Current, EntryRefused
<1>6. AdmittedOnly'
  BY <1>1, <1>2 DEF GatesInv, AdmittedOnly
<1> QED
  BY <1>1, <1>3, <1>4, <1>5, <1>6, SameImages DEF GatesInv

\* A package that replaces another outdates its module and the ones that declare
\* a dependency on it.
LEMMA InstallStep ==
    ASSUME GatesInv, NEW m \in Modules, Packages[m] \subseteq PackageRecords,
           NEW pkg \in Packages[m] \cup {NoPackage}, Install(m, pkg)
    PROVE  GatesInv'
<1>1. /\ disk' = [disk EXCEPT ![m] = pkg] /\ outdated' = outdated \cup Grounded(m)
      /\ UNCHANGED <<table, policy, load, mapped, inst>>
  BY DEF Install
<1>2. pkg \in PackageRecords
  BY NothingInstalled
<1>3. Running' = Running
  BY <1>1 DEF Running
<1>4. GatesTyped'
  BY <1>1, <1>2, <1>3 DEF GatesInv, GatesTyped
<1>5. \A k \in Modules : k \notin outdated' => disk'[k] = disk[k] /\ table'[k] = table[k]
  BY <1>1 DEF Grounded, GatesInv, GatesTyped
<1> QED
  BY <1>1, <1>4, <1>5, WorldChanges

\* A scan that changes an entry outdates its module and the ones that declare a
\* dependency on it.
LEMMA RescanStep ==
    ASSUME GatesInv, Rescan
    PROVE  GatesInv'
<1> DEFINE changed == {k \in Modules : table'[k] # table[k]}
<1>1. /\ table' = [m \in Modules |-> Scanned(m)]
      /\ outdated' = outdated \cup UNION {Grounded(m) : m \in changed}
      /\ UNCHANGED <<disk, policy, load, mapped, inst>>
  BY DEF Rescan
<1>2. Running' = Running
  BY <1>1 DEF Running
<1>3. GatesTyped'
  <2>1. \A m \in Modules : Scanned(m) \in PackageRecords
    BY DEF GatesInv, GatesTyped, Scanned
  <2>2. table' \in [Modules -> PackageRecords]
    BY <1>1, <2>1
  <2> QED
    BY <1>1, <1>2, <2>2 DEF GatesInv, GatesTyped
<1>4. ASSUME NEW k \in Modules, k \notin outdated'
      PROVE  /\ disk'[k] = disk[k] /\ table'[k] = table[k]
             /\ \A i \in DOMAIN disk[k].deps :
                   table'[disk[k].deps[i].name].version = table[disk[k].deps[i].name].version
  <2>1. \A m \in changed : k \notin Grounded(m)
    BY <1>1, <1>4
  <2>2. table'[k] = table[k]
    BY <2>1 DEF Grounded
  <2>3. ASSUME NEW i \in DOMAIN disk[k].deps
        PROVE  disk[k].deps[i].name \in Modules
    <3>1. disk[k].deps \in Seq(DependencyEntries)
      BY DEF GatesInv, GatesTyped, PackageRecords
    <3>2. disk[k].deps[i] \in DependencyEntries
      BY <3>1
    <3> QED
      BY <3>2 DEF DependencyEntries
  <2>4. ASSUME NEW i \in DOMAIN disk[k].deps
        PROVE  disk[k].deps[i].name \notin changed
    BY <2>1 DEF Grounded
  <2> QED
    BY <1>1, <2>2, <2>3, <2>4
<1> QED
  BY <1>1, <1>3, <1>4, WorldChanges

\* Every step keeps the invariant.
LEMMA GatesStep ==
    GatesInv /\ [GatesNext]_gatesVars => GatesInv'
<1> SUFFICES ASSUME GatesInv, [GatesNext]_gatesVars PROVE GatesInv'
  OBVIOUS
<1>1. ASSUME NEW t \in Threads, PolicyRefuses(t) PROVE GatesInv'
  BY <1>1, SameImages, LoadQuits DEF PolicyRefuses, OnlyLoadMoves
<1>2. ASSUME NEW t \in Threads, GateRefuses(t) PROVE GatesInv'
  BY <1>2, SameImages, LoadQuits DEF GateRefuses, OnlyLoadMoves
<1>3. ASSUME NEW t \in Threads, NoLoader(t) PROVE GatesInv'
  BY <1>3, SameImages, LoadQuits DEF NoLoader, OnlyLoadMoves
<1>4. ASSUME NEW t \in Threads, LaunchFails(t) PROVE GatesInv'
  BY <1>4, FailsStep
<1>5. ASSUME NEW p \in Policies, SetContainerPolicy(p) PROVE GatesInv'
  <2>1. policy' \in Policies /\ UNCHANGED <<disk, table, load, mapped, inst, outdated>>
    BY <1>5 DEF SetContainerPolicy
  <2>2. GatesTyped'
    BY <2>1 DEF GatesInv, GatesTyped, Running
  <2> QED
    BY <2>1, <2>2, WorldChanges
<1>6. CASE UNCHANGED gatesVars
  <2>1. UNCHANGED <<disk, table, policy, load, mapped, inst, outdated>>
    BY <1>6 DEF gatesVars
  <2>2. GatesTyped'
    BY <2>1 DEF GatesInv, GatesTyped, Running
  <2> QED
    BY <2>1, <2>2, WorldChanges
<1>7. HostMajor \in Nat /\ \A m \in Modules : Packages[m] \subseteq PackageRecords
  BY GatesAssumption
<1> QED
  BY <1>1, <1>2, <1>3, <1>4, <1>5, <1>6, <1>7, BeginsStep, PolicyPassesStep, ProtocolStep,
     EntriesStep, ContinuesStep, LaunchesStep, StopsStep, InstallStep, RescanStep
  DEF GatesNext, Loading

\* The gates keep the invariant in every behaviour.
THEOREM GatesInvariant ==
    GatesSpec => []GatesInv
  BY GatesInitially, GatesStep, PTL DEF GatesSpec

\* What runs was admitted by the container policy it was judged under and by the
\* protocol gate, whatever was reinstalled, rescanned or reconfigured meanwhile and
\* whatever image is still mapped; a plugin whose package, or whose dependency's,
\* changed since its load began may be of another protocol.
THEOREM OnlyAdmitted ==
    GatesSpec => []AdmittedOnly
<1>1. GatesInv => AdmittedOnly
  BY DEF GatesInv
<1> QED
  BY GatesInvariant, <1>1, PTL

\* What a module declares is met by what the registry has, and two modules that run
\* together, neither of them outdated, satisfy the version constraint the one
\* declares on the other (evaluateDependencyGate), unless the other runs the
\* retained image of an earlier package.
THEOREM DependenciesAreInRange ==
    GatesSpec => []DependenciesInRange
<1>1. GatesInv => DependenciesInRange
  <2> SUFFICES ASSUME GatesInv, NEW m \in Running \ outdated,
                      NEW i \in DOMAIN inst[m].found.deps
               PROVE  LET e == inst[m].found.deps[i]
                      IN  /\ ~e.malformed /\ e.range # "unparseable"
                          /\ e.range = "range" =>
                                 /\ table[e.name].version \in e.accepts
                                 /\ (e.name \in Running \ outdated /\ ~Retained(e.name)) =>
                                        inst[e.name].pkg.version \in e.accepts
    BY DEF DependenciesInRange
  <2>1. ~EntryRefused(inst[m].found.deps[i])
    BY DEF GatesInv, RunsHeld, Current
  <2>2. \A k \in Running \ outdated : ~Retained(k) => inst[k].pkg = table[k]
    BY DEF GatesInv, RunsHeld, Current, Retained
  <2> QED
    BY <2>1, <2>2 DEF EntryRefused
<1> QED
  BY GatesInvariant, <1>1, PTL
=============================================================================
