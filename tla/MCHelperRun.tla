---------------------------- MODULE MCHelperRun ----------------------------
(***************************************************************************)
(* Instances of HelperRun for TLC.                                         *)
(***************************************************************************)
EXTENDS HelperRun

Foreign(m, rules, kept) == [manager |-> m, rules |-> rules, files |-> kept]

\* UFW with the challenge port open and a foreign hook; firewalld with one port
\* in the permanent and another in the running rules only, and a foreign site.
SomeForeigns ==
  {Foreign("ufw", {<<"ufw", 80>>}, {"hook"}),
   Foreign("firewalld", {<<"permanent", 80>>, <<"runtime", 443>>}, {"vhost"})}

=============================================================================
