------------------------- MODULE MCDependencyResolver -------------------------
(***************************************************************************)
(* Small instances of DependencyResolver: every required graph over three  *)
(* modules, self edges included, and every optional graph of at most two   *)
(* edges and no self edge.                                                 *)
(***************************************************************************)
EXTENDS DependencyResolver

CONSTANTS a, b, c

Loopless == {g \in [Nodes -> SUBSET Nodes] : \A n \in Nodes : n \notin g[n]}
AllGraphs == [Nodes -> SUBSET Nodes]
Size(g) == Cardinality({e \in Nodes \X Nodes : e[2] \in g[e[1]]})
Sparse == {g \in Loopless : Size(g) <= 2}
SomeKnown == SUBSET Nodes
=============================================================================
