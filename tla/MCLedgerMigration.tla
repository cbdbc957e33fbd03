------------------------- MODULE MCLedgerMigration -------------------------
(***************************************************************************)
(* Instances of LedgerMigration for TLC; the cfg files name the entries.   *)
(***************************************************************************)
EXTENDS LedgerMigration
=============================================================================
