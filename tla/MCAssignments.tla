---------------------------- MODULE MCAssignments ----------------------------
(***************************************************************************)
(* Instances of Assignments for TLC: two users and two credentials, which  *)
(* are only compared for equality, so permuting either is a symmetry.      *)
(***************************************************************************)
EXTENDS Assignments, TLC

Symmetry == Permutations(Users) \cup Permutations(Credentials)

=============================================================================
