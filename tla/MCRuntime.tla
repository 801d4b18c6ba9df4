------------------------------- MODULE MCRuntime -------------------------------
(* Runtime for TLC.  Two channels share the controller; three orders make a   *)
(* notice with two assets beside the notice of the other channel.             *)
EXTENDS Runtime, TLC

Symmetry == Permutations(Channels) \cup Permutations(Orders)
=============================================================================
