-------------------------- MODULE MCModuleSupervisor --------------------------
(***************************************************************************)
(* Small instances of ModuleSupervisor.                                    *)
(***************************************************************************)
EXTENDS ModuleSupervisor

MCPolicies ==
    {[max |-> 1, window |-> 2, backoff |-> 0], [max |-> 2, window |-> 1, backoff |-> 1]}

\* "2,2", the count alone, one field too many, a field that is no number, and a
\* number no int holds.
MCEnvs == {<<2, 2>>, <<1>>, <<1, 1, 1, 1>>, <<1, Unreadable>>, <<2 * IntMax + 3>>}

\* The modules may be exchanged.
MCSymmetry == Permutations(Names)
=============================================================================
