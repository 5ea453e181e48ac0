------------------------------- MODULE MCHub -------------------------------
(***************************************************************************)
(* Hub and its inductive invariant for model checking.  The constants are  *)
(* given their values in the .cfg files.                                   *)
(***************************************************************************)
EXTENDS HubInvariant
=============================================================================
