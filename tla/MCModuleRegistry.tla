--------------------------- MODULE MCModuleRegistry ---------------------------
(***************************************************************************)
(* Small instances of ModuleRegistry: the packages are plugins that name   *)
(* themselves a or b, and UI packages with and without a page. A plugin    *)
(* installed under the other name is one the scan refuses.                 *)
(***************************************************************************)
EXTENDS ModuleRegistry

CONSTANTS a, b

Plugin(n, d, o) == [kind |-> "plugin", core |-> TRUE, asserts |-> n, deps |-> d, opt |-> o]
Page == [kind |-> "web", core |-> FALSE, asserts |-> a, deps |-> {}, opt |-> {}]
UiPlugin == [Plugin(b, {}, {a}) EXCEPT !.core = FALSE]

\* Every shape a package can have.
Shapes == {Plugin(a, {b}, {}), Plugin(b, {}, {a}), Page, UiPlugin}
=============================================================================
