----------------------- MODULE MCExecutionSupervisor -----------------------
(***************************************************************************)
(* Instances of ExecutionSupervisor for TLC; the cfg files give the jobs,  *)
(* the calls and the limits.                                               *)
(***************************************************************************)
EXTENDS ExecutionSupervisor
=============================================================================
