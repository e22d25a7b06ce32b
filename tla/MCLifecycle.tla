---------------------------- MODULE MCLifecycle ----------------------------
(***************************************************************************)
(* Instances of Lifecycle for TLC.                                         *)
(***************************************************************************)
EXTENDS Lifecycle, TLC

\* Model values.
CONSTANTS r1, r2

Input(protocolValue, revision, payload) ==
  [protocol |-> protocolValue, revision |-> revision, payload |-> payload]

\* Two payloads of one protocol; payload "a" also with a later revision.
OneProtocol == {Input("vless", 1, "a"), Input("vless", 2, "b"), Input("vless", 3, "a")}

\* An installation and one reconfiguration.
TwoRevisions == {Input("vless", 1, "a"), Input("vless", 2, "b")}

Symmetry == Permutations(Callers)

=============================================================================
