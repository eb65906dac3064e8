-------------------------- MODULE MCModuleLifecycle --------------------------
(***************************************************************************)
(* Small instances of ModuleLifecycle. With two modules, a requires b (or  *)
(* names it as an optional dependency, MCOptional); with one, a stands     *)
(* alone.                                                                  *)
(***************************************************************************)
EXTENDS ModuleLifecycle

CONSTANTS a, b

OfModules(s) == SelectSeq(s, LAMBDA m : m \in Modules)

MCLoadOrder == [m \in Modules |-> IF m = a THEN OfModules(<<b, a>>) ELSE <<m>>]
MCTeardownOrder == [m \in Modules |-> IF m = b THEN OfModules(<<a, b>>) ELSE <<m>>]
MCBestEffort == [m \in Modules |-> {}]
MCOptional == [m \in Modules |-> {b} \cap (Modules \ {m})]
=============================================================================
