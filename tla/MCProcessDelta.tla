--------------------------- MODULE MCProcessDelta ---------------------------
(* Small process lists for the process delta. *)
EXTENDS ProcessDelta, TLC

CONSTANTS p1, p2, h1, h2, s1, s2, u, v, untested

Symmetric == Permutations(Procs) \cup Permutations(Handles) \cup Permutations(Sockets)
=============================================================================
