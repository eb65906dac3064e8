----------------------------- MODULE MCWebRouter -----------------------------
(***************************************************************************)
(* Small instances of WebRouter.                                           *)
(***************************************************************************)
EXTENDS WebRouter
=============================================================================
