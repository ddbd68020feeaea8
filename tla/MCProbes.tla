------------------------------- MODULE MCProbes -------------------------------
(* Instances of Probes small enough to enumerate. Addresses of sockets and  *)
(* of SSL objects are only compared with one another.                      *)
EXTENDS Probes, TLC

CONSTANTS p1, p2, s1, s2

Interchangeable == Permutations(Ptrs) \cup Permutations(Ssls)
=============================================================================
