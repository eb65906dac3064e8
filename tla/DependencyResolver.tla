-------------------------- MODULE DependencyResolver --------------------------
(***************************************************************************)
(* DependencyResolver::resolve (dependency_resolver.cpp) and the teardown  *)
(* order unloadModuleWithDependents builds from it. One step is one turn   *)
(* of a loop; where the code iterates an unordered_set, any member may     *)
(* come next. The graph, what is installed and what is loaded are chosen   *)
(* once, in Init.                                                          *)
(***************************************************************************)
EXTENDS Naturals, Sequences, FiniteSets, SequencesExt, Subsequences

CONSTANTS
    Nodes,      \* module names
    Target,     \* the module the caller named
    Modes,      \* subset of {"orderOnly", "bestEffort", "teardown"}
    ReqGraphs,  \* dependency maps, [Nodes -> SUBSET Nodes]
    OptGraphs,  \* optional dependency maps
    KnownSets   \* sets of installed modules

ASSUME ResolverAssumption ==
    /\ IsFiniteSet(Nodes) /\ Target \in Nodes
    /\ Modes \subseteq {"orderOnly", "bestEffort", "teardown"}
    /\ ReqGraphs \subseteq [Nodes -> SUBSET Nodes]
    /\ OptGraphs \subseteq [Nodes -> SUBSET Nodes]
    /\ KnownSets \subseteq SUBSET Nodes

VARIABLES
    mode, req, opt, known, loaded,  \* the inputs
    phase,      \* "walk" | "round" | "count" | "kahn" | "done"
    queue,      \* names still to visit
    set,        \* modulesToLoad
    missing,    \* out.missing, as a set
    hard,       \* the closure of the required edges alone
    left,       \* (holder, optional) pairs this round has not looked at
    grew,
    skipped,    \* out.skippedOptional
    soft,       \* Kahn runs over required and optional edges together
    degree,     \* inDegree
    zero,       \* zeroInDegree
    order, hardOrder

inputs == <<mode, req, opt, known, loaded>>
optVars == <<left, grew, skipped>>
kahnVars == <<degree, zero>>
vars == <<inputs, phase, queue, set, missing, hard, optVars, soft, kahnVars,
          order, hardOrder>>

-----------------------------------------------------------------------------
(* Reachability: what a queue-and-seen walk has seen when its queue is     *)
(* empty. A graph is a function from a node to the nodes it leads to.      *)

\* The graph leads nowhere out of C.
Closed(C, graph) == \A x \in C : graph[x] \subseteq C

\* Start and all it leads to: what every closed set around start holds.
Reach(start, graph) ==
    {x \in Nodes : \A C \in SUBSET Nodes : start \subseteq C /\ Closed(C, graph) => x \in C}

\* moduleDependents(name, recursive): over the reverse edges between known
\* modules, the name itself left out.
Dependents(n) ==
    Reach({n}, [x \in Nodes |-> {d \in known : x \in req[d] /\ x \in known}]) \ {n}

\* What unloadModuleWithDependents asks the resolver about.
TeardownSet == {Target} \cup (Dependents(Target) \cap loaded)

Requested == IF mode = "teardown" THEN TeardownSet ELSE {Target}

Init ==
    /\ mode \in Modes
    /\ req \in ReqGraphs
    /\ opt \in OptGraphs
    /\ known \in KnownSets
    /\ IF mode = "teardown"
       THEN Target \in known /\ loaded \in {L \in SUBSET known : Target \in L}
       ELSE loaded = {}
    /\ phase = "walk"
    /\ queue = SetToSeq(Requested)
    /\ set = {} /\ missing = {} /\ hard = {}
    /\ left = {} /\ grew = FALSE /\ skipped = {}
    /\ soft = FALSE
    /\ degree = [n \in Nodes |-> 0] /\ zero = {}
    /\ order = <<>> /\ hardOrder = <<>>

-----------------------------------------------------------------------------
(* The required closure.                                                   *)

WalkSkips ==
    /\ phase = "walk" /\ queue # <<>> /\ Head(queue) \in set
    /\ queue' = Tail(queue)
    /\ UNCHANGED <<inputs, phase, set, missing, hard, optVars, soft, kahnVars,
                   order, hardOrder>>

WalkMisses ==
    /\ phase = "walk" /\ queue # <<>>
    /\ Head(queue) \notin set /\ Head(queue) \notin known
    /\ queue' = Tail(queue)
    /\ missing' = missing \cup {Head(queue)}
    /\ UNCHANGED <<inputs, phase, set, hard, optVars, soft, kahnVars, order,
                   hardOrder>>

\* Mutant of WalkVisits: only what the caller named is expanded.
WalkVisitsRoots ==
    /\ phase = "walk" /\ queue # <<>>
    /\ Head(queue) \notin set /\ Head(queue) \in known
    /\ set' = set \cup {Head(queue)}
    /\ queue' = Tail(queue) \o (IF Head(queue) \in Requested
                                THEN SetToSeq(req[Head(queue)] \ set') ELSE <<>>)
    /\ UNCHANGED <<inputs, phase, missing, hard, optVars, soft, kahnVars, order,
                   hardOrder>>

WalkVisits ==
    /\ phase = "walk" /\ queue # <<>>
    /\ Head(queue) \notin set /\ Head(queue) \in known
    /\ set' = set \cup {Head(queue)}
    /\ queue' = Tail(queue) \o SetToSeq(req[Head(queue)] \ set')
    /\ UNCHANGED <<inputs, phase, missing, hard, optVars, soft, kahnVars, order,
                   hardOrder>>

\* frontier: the holders are those in the set when the round starts.
RoundPairs(s) == {p \in s \X Nodes : p[2] \in opt[p[1]]}

\* The optional rounds come second, over the closure; without best effort the
\* sort follows at once.
WalkEnds ==
    /\ phase = "walk" /\ queue = <<>>
    /\ hard' = set
    /\ phase' = IF mode = "bestEffort" THEN "round" ELSE "count"
    /\ left' = RoundPairs(set)
    /\ UNCHANGED <<inputs, queue, set, missing, grew, skipped, soft, kahnVars,
                   order, hardOrder>>

-----------------------------------------------------------------------------
(* Best effort: optional branches that are wholly installed.               *)

\* The candidate branch: o and everything it requires that is not in the set.
Branch(o) ==
    Reach({o}, [x \in Nodes |-> IF x \in known THEN req[x] \ set ELSE {}])

Blocked(o) == ~(Branch(o) \subseteq known)

OptionalPresent ==
    /\ phase = "round"
    /\ \E p \in left : p[2] \in set /\ left' = left \ {p}
    /\ UNCHANGED <<inputs, phase, queue, set, missing, hard, grew, skipped, soft,
                   kahnVars, order, hardOrder>>

OptionalDeclined ==
    /\ phase = "round"
    /\ \E p \in left :
          /\ p[2] \notin set /\ Blocked(p[2])
          /\ left' = left \ {p}
          /\ skipped' = skipped \cup {p}
    /\ UNCHANGED <<inputs, phase, queue, set, missing, hard, grew, soft, kahnVars,
                   order, hardOrder>>

\* Mutant of OptionalAdmitted: the module comes in without what it requires.
OptionalAdmittedAlone ==
    /\ phase = "round"
    /\ \E p \in left :
          /\ p[2] \notin set /\ ~Blocked(p[2])
          /\ left' = left \ {p}
          /\ set' = set \cup {p[2]}
    /\ grew' = TRUE
    /\ UNCHANGED <<inputs, phase, queue, missing, hard, skipped, soft, kahnVars,
                   order, hardOrder>>

OptionalAdmitted ==
    /\ phase = "round"
    /\ \E p \in left :
          /\ p[2] \notin set /\ ~Blocked(p[2])
          /\ left' = left \ {p}
          /\ set' = set \cup Branch(p[2])
    /\ grew' = TRUE
    /\ UNCHANGED <<inputs, phase, queue, missing, hard, skipped, soft, kahnVars,
                   order, hardOrder>>

\* Mutant of RoundEnds: grew is not reset.
RoundEndsGrown ==
    /\ phase = "round" /\ left = {}
    /\ IF grew THEN left' = RoundPairs(set) /\ UNCHANGED phase
               ELSE phase' = "count" /\ UNCHANGED left
    /\ UNCHANGED <<inputs, queue, set, missing, hard, grew, skipped, soft, kahnVars,
                   order, hardOrder>>

\* Another round while the last one grew the set.
RoundEnds ==
    /\ phase = "round" /\ left = {}
    /\ grew' = FALSE
    /\ IF grew THEN left' = RoundPairs(set) /\ UNCHANGED phase
               ELSE phase' = "count" /\ UNCHANGED left
    /\ UNCHANGED <<inputs, queue, set, missing, hard, skipped, soft, kahnVars,
                   order, hardOrder>>

-----------------------------------------------------------------------------
(* topoSort (Kahn).                                                        *)

\* Mutant of Edges: the refined sort looks at required edges again.
EdgesHardOnly(n) == req[n] \cap set

\* Forward edges among the modules to load.
Edges(n) == (IF soft THEN req[n] \cup opt[n] ELSE req[n]) \cap set

CountDegrees ==
    /\ phase = "count"
    /\ degree' = [n \in Nodes |-> Cardinality(Edges(n))]
    /\ zero' = {n \in set : Edges(n) = {}}
    /\ order' = <<>>
    /\ phase' = "kahn"
    /\ UNCHANGED <<inputs, queue, set, missing, hard, optVars, soft, hardOrder>>

\* Any ready module may be next: the order of the queue follows from that of an
\* unordered_set.
KahnTakes ==
    /\ phase = "kahn"
    /\ \E n \in zero :
          LET dependents == {d \in set : n \in Edges(d)} IN
          /\ order' = Append(order, n)
          /\ degree' = [d \in Nodes |-> IF d \in dependents THEN degree[d] - 1
                                        ELSE degree[d]]
          /\ zero' = (zero \ {n}) \cup {d \in dependents : degree[d] = 1}
    /\ UNCHANGED <<inputs, phase, queue, set, missing, hard, optVars, soft,
                   hardOrder>>

Complete == Len(order) = Cardinality(set)

\* A complete order by required edges is refined by the optional ones, and kept
\* as it was when those close a cycle.
KahnEnds ==
    /\ phase = "kahn" /\ zero = {}
    /\ IF ~soft /\ mode # "teardown" /\ Complete
       THEN soft' = TRUE /\ phase' = "count" /\ hardOrder' = order
            /\ UNCHANGED order
       ELSE /\ phase' = "done"
            /\ order' = IF soft /\ ~Complete THEN hardOrder ELSE order
            /\ UNCHANGED <<soft, hardOrder>>
    /\ UNCHANGED <<inputs, queue, set, missing, hard, optVars, kahnVars>>

-----------------------------------------------------------------------------
(* The result.                                                             *)

HasCycle == ~Complete

Ok == missing = {} /\ ~HasCycle

\* out.bestEffort: what the required edges alone do not reach.
BestEffort == set \ hard

\* Mutant of TeardownOrder: what the resolver left out stays up.
TeardownResolvedOnly ==
    Keep(Reverse(order), {i \in DOMAIN order : Reverse(order)[i] \in TeardownSet})

\* The load order reversed, then whatever it left out, the target first.
TeardownOrder ==
    LET resolved == Keep(Reverse(order),
                         {i \in DOMAIN order : Reverse(order)[i] \in TeardownSet})
        rest == TeardownSet \ Range(resolved)
    IN resolved \o (IF Target \in rest THEN <<Target>> ELSE <<>>)
                \o SetToSeq(rest \ {Target})

Finished == phase = "done" /\ UNCHANGED vars

Next ==
    \/ WalkSkips \/ WalkMisses \/ WalkVisits \/ WalkEnds
    \/ OptionalPresent \/ OptionalDeclined \/ OptionalAdmitted \/ RoundEnds
    \/ CountDegrees \/ KahnTakes \/ KahnEnds
    \/ Finished

Spec == Init /\ [][Next]_vars /\ WF_vars(Next)

-----------------------------------------------------------------------------
(* Reference definitions, and the properties.                              *)

Done == phase = "done"

\* What m leads to along edges inside S, m itself only round a cycle.
Below(m, S, edges) == Reach(edges[m] \cap S, [x \in Nodes |-> edges[x] \cap S])

Acyclic(S, edges) == \A m \in S : m \notin Below(m, S, edges)

\* Required and optional edges together; required edges of what is installed.
Both == [n \in Nodes |-> req[n] \cup opt[n]]
Need == [n \in Nodes |-> IF n \in known THEN req[n] ELSE {}]

Position(s, n) == CHOOSE i \in DOMAIN s : s[i] = n

\* s lists, for each of its members, those of its edges that are in S earlier.
Respects(s, S, edges) ==
    \A n \in Range(s) : \A d \in edges[n] \cap S :
        Contains(s, d) /\ Position(s, d) < Position(s, n)

\* Inputs and working state of resolve have their types.
TypeOK ==
    /\ mode \in Modes /\ req \in ReqGraphs /\ opt \in OptGraphs
    /\ known \in KnownSets /\ loaded \subseteq known
    /\ phase \in {"walk", "round", "count", "kahn", "done"}
    /\ queue \in Seq(Nodes)
    /\ set \subseteq known /\ hard \subseteq known
    /\ missing \subseteq Nodes \ known
    /\ left \subseteq Nodes \X Nodes /\ skipped \subseteq Nodes \X Nodes
    /\ grew \in BOOLEAN /\ soft \in BOOLEAN
    /\ degree \in [Nodes -> Nat] /\ zero \subseteq set
    /\ order \in Seq(Nodes) /\ hardOrder \in Seq(Nodes)

\* A module never precedes what it requires, in any order resolve returns, a
\* cyclic graph's partial one included, and nothing is listed twice. Optional
\* edges order whenever they can: if required and optional edges together have
\* no cycle, the order respects both.
OrderSound ==
    Done =>
        /\ Respects(order, set, req) /\ IsInjective(order)
        /\ mode # "teardown" /\ Acyclic(set, Both) => Respects(order, set, Both)

\* `missing` is exactly what the required edges reach and nobody installed, and
\* hasCycle exactly whether the modules to load require each other in a circle.
VerdictExact ==
    Done =>
        /\ missing = Reach(Requested, Need) \ known
        /\ HasCycle <=> ~Acyclic(set, req)

\* Best effort adds wholly satisfiable branches and nothing else, whatever the
\* order in which holders are visited: what is added is closed under required
\* edges, no declined optional dependency slipped in by another door, and every
\* installed optional dependency whose requirements are installed is there.
BestEffortClosed ==
    Done /\ mode = "bestEffort" /\ missing = {} =>
        /\ \A n \in set : req[n] \subseteq set
        /\ \A p \in skipped : p[2] \notin set
        /\ \A n \in set : \A o \in opt[n] :
              o \in set <=> Reach({o}, req) \subseteq known

\* A cascade's order names the target and each loaded dependent exactly once,
\* and where nothing involved is cyclic a dependent precedes what it needs.
TeardownExact ==
    Done /\ mode = "teardown" =>
        /\ Range(TeardownOrder) = TeardownSet
        /\ Len(TeardownOrder) = Cardinality(TeardownSet)
        /\ Complete => Respects(Reverse(TeardownOrder), TeardownSet, req)

\* resolve terminates: the fixed point of the rounds is reached and both sorts
\* drain their queue.
Terminates == <>Done
=============================================================================
