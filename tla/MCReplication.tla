---------------------------- MODULE MCReplication ----------------------------
(***************************************************************************)
(* Replication for model checking.  The constants are given their values   *)
(* in the .cfg files.                                                      *)
(***************************************************************************)
EXTENDS Replication

\* Clients differ only in their name.
ClientSymmetry == Permutations(Clients)
=============================================================================
