---------------------------- MODULE MCThreadPool ----------------------------
(* Two threads enqueue, three thread ids for two workers, so that a finished *)
(* worker can still be unreaped while another one starts.                   *)
EXTENDS ThreadPool, TLC

CONSTANTS a, b, t1, t2, t3

Symmetric == Permutations({a, b}) \cup Permutations({t1, t2, t3})
=============================================================================
