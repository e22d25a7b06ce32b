---------------------------- MODULE MCOperations ----------------------------
(***************************************************************************)
(* Instance of Operations for TLC.  Inputs and status requests are model   *)
(* values.  They are interchangeable, but the run checks liveness, so no   *)
(* symmetry is declared.                                                   *)
(***************************************************************************)
EXTENDS Operations, TLC

=============================================================================
