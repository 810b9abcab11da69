---------------------------- MODULE MCProbeExecutor ----------------------------
(* ProbeExecutor for TLC: the emails are interchangeable.                  *)
EXTENDS ProbeExecutor, TLC

Symmetry == Permutations(Workers)
================================================================================
