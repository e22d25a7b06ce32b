-------------------------- MODULE MCTrafficReports --------------------------
(***************************************************************************)
(* Instance of TrafficReports for TLC.  Triggers are only told apart, so   *)
(* permuting them is a symmetry.                                           *)
(***************************************************************************)
EXTENDS TrafficReports, TLC

Symmetry == Permutations(Triggers)

=============================================================================
