---------------------------- MODULE MCBareDispatch ----------------------------
(***************************************************************************)
(* Small instances of BareDispatch: a module loaded, unloaded and loaded   *)
(* again under a few calls.                                                *)
(***************************************************************************)
EXTENDS BareDispatch
=============================================================================
