----------------------------- MODULE Subsequences -----------------------------
(***************************************************************************)
(* The members of a sequence at some of its positions, in their order: what *)
(* a vector holds after an erase of remove_if, or a loop that copies the   *)
(* members passing a test. The definition is by rank and not by recursion,  *)
(* which the provers cannot unfold.                                        *)
(***************************************************************************)
EXTENDS Naturals, Sequences, FiniteSets

\* How many of the positions I come no later than i.
Rank(I, i) == Cardinality({x \in I : x <= i})

\* The j-th member kept is the one at the position of rank j.
Keep(s, I) == [j \in 1..Cardinality(I) |-> s[CHOOSE i \in I : Rank(I, i) = j]]
=============================================================================
