--------------------------- MODULE MCProbeWorker ---------------------------
(* A small worker for TLC.  The proxies are interchangeable.               *)
EXTENDS AccountLife, TLC

ProxySymmetry == Permutations(Proxies)
============================================================================
