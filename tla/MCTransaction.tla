--------------------------- MODULE MCTransaction ---------------------------
(***************************************************************************)
(* Instances of Transaction for TLC; the cfg files give the units and the  *)
(* bounds.                                                                 *)
(***************************************************************************)
EXTENDS Transaction
=============================================================================
