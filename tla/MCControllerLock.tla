-------------------------- MODULE MCControllerLock --------------------------
(* ControllerLock for TLC.                                                 *)
EXTENDS ControllerLock, TLC

Symmetry == Permutations(Runs) \cup Permutations(Proxies)
=============================================================================
