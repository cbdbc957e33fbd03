------------------------- MODULE MCStateRepository -------------------------
(***************************************************************************)
(* Instances of StateRepository for TLC.                                   *)
(***************************************************************************)
EXTENDS StateRepository
=============================================================================
