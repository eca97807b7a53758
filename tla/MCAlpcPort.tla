----------------------------- MODULE MCAlpcPort -----------------------------
(* Instance of AlpcPort for TLC. *)
EXTENDS AlpcPort
============================================================================
