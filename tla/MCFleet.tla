------------------------------ MODULE MCFleet ------------------------------
(***************************************************************************)
(* Instances of Fleet for TLC.  Nodes are interchangeable, and so are      *)
(* tasks.                                                                  *)
(***************************************************************************)
EXTENDS Fleet, TLC

Symmetry == Permutations(Nodes) \cup Permutations(Tasks)
=============================================================================
