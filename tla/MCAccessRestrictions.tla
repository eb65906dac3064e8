------------------------ MODULE MCAccessRestrictions ------------------------
(***************************************************************************)
(* a requires c or, by another manifest, nothing; b names c as an optional *)
(* dependency. The policies are none, a derived one, and one with an       *)
(* explicit entry for c.                                                   *)
(***************************************************************************)
EXTENDS AccessRestrictions, TLC

CONSTANTS a, b, c, core

MCSymmetry == Permutations(Workers)

Bare == [required |-> {}, optional |-> {}]

MCManifests ==
    [m \in Modules |->
        CASE m = a -> {[Bare EXCEPT !.required = {c}], Bare}
          [] m = b -> {[Bare EXCEPT !.optional = {c}]}
          [] m = c -> {Bare}]

MCDocuments ==
    {[valid |-> TRUE, mode |-> "enforce", restrictions |-> <<>>],
     [valid |-> TRUE, mode |-> "enforce", restrictions |-> [m \in {c} |-> {b}]],
     [valid |-> TRUE, mode |-> "audit", restrictions |-> [m \in {c} |-> {b}]],
     [valid |-> FALSE, mode |-> "enforce", restrictions |-> <<>>]}
=============================================================================
