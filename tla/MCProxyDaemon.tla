---------------------------- MODULE MCProxyDaemon ----------------------------
(***************************************************************************)
(* Instances of ProxyDaemon for TLC.                                       *)
(***************************************************************************)
EXTENDS ProxyDaemon, TLC

Symmetry == Permutations(Pids)
=============================================================================
