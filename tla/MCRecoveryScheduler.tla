------------------------ MODULE MCRecoveryScheduler -------------------------
(***************************************************************************)
(* Instances of RecoveryScheduler for TLC; the cfg files name the wakeups. *)
(***************************************************************************)
EXTENDS RecoveryScheduler
=============================================================================
