---------------------------- MODULE MCWebContainer ----------------------------
(***************************************************************************)
(* Small instances of WebContainer: a module loaded, lost or unloaded, and *)
(* loaded again, with calls nested on the main thread.                     *)
(***************************************************************************)
EXTENDS WebContainer
=============================================================================
