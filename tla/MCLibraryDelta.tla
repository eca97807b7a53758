--------------------------- MODULE MCLibraryDelta ---------------------------
(* Two libraries and two signatures for the library delta. *)
EXTENDS LibraryDelta, TLC

CONSTANTS l1, l2, u, v

Symmetric == Permutations({l1, l2}) \cup Permutations({u, v})
=============================================================================
