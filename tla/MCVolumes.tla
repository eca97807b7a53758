----------------------------- MODULE MCVolumes -----------------------------
(* Instance of Volumes for TLC. *)
EXTENDS Volumes

CONSTANTS c1, c2, i1, i2, r1, r2
============================================================================
