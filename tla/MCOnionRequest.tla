-------------------------- MODULE MCOnionRequest --------------------------
(* OnionRequest for TLC.                                                   *)
EXTENDS OnionRequest, TLC

\* Requests are interchangeable; used by the run without liveness properties.
Symmetry == Permutations(Requests)
=============================================================================
