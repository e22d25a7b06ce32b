---------------------------- MODULE MCLogRotation ----------------------------
(***************************************************************************)
(* Instances of LogRotation for TLC: the configuration files bound the     *)
(* days, the entries and the faults with numbers.                          *)
(***************************************************************************)
EXTENDS LogRotation

=============================================================================
